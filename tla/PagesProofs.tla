----------------------------- MODULE PagesProofs -----------------------------
(***************************************************************************)
(* The safety properties of Pages, for any number of tabs, requests, rows  *)
(* and users.  There is one invariant per part, under its own heading, and *)
(* PagesInv says that the invariant of the part a behaviour is about holds.*)
(* PagesTypes adds what these invariants need not say of the types.        *)
(***************************************************************************)
EXTENDS Pages, SequenceTheorems, TLAPS

-----------------------------------------------------------------------------
(* The review desk *)

\* A copy of the row of a is not newer than the row, and a revision has one content.
Fits(rows, a, r) ==
    /\ r.revision <= rows[a].revision
    /\ r.revision = rows[a].revision => r.content = rows[a].content

\* A request carries what its kind and its stage ask for.
RequestFits(rows, r) ==
    /\ r.kind \in Desk!Saves \cup Desk!Approvals => r.text \in Texts
    /\ r.kind \in Desk!Approvals => r.base \in Desk!Row /\ Fits(rows, r.app, r.base)
    /\ r.stage = "answered" => /\ r.rows \in [Apps -> Desk!Row]
                               /\ \A a \in Apps : Fits(rows, a, r.rows[a])

\* The copies in the tabs and in the requests fit, and so does what was approved.
DeskInv ==
    /\ Desk!TypeOK
    /\ \A t \in Tabs, a \in Apps : Fits(deskRow, a, deskList[t][a])
    /\ \A i \in Desk!Slots : deskReq[i] # Desk!Idle => RequestFits(deskRow, deskReq[i])
    /\ Desk!ApprovedWasReceived

\* A row only grows: a new content takes a new revision.
Grows(old, new) ==
    \A a \in Apps :
        /\ new[a].revision >= old[a].revision
        /\ new[a].revision = old[a].revision => new[a].content = old[a].content

LEMMA DeskParts ==
  /\ \A r \in Desk!Row : /\ r.revision \in Nat /\ r.content \in Desk!Contents
                         /\ r.content.text \in Texts
  /\ \A r \in Desk!Request : r.app \in Apps
  /\ MaxRevision \in Nat \ {0} /\ MaxApprovals \in Nat
  <1>1. MaxRevision \in Nat \ {0} /\ MaxApprovals \in Nat
    BY PartsAssumption DEF Desk!DeskAssumption
  <1>2. \A r \in Desk!Row : r.revision \in Nat /\ r.content \in Desk!Contents
    BY <1>1 DEF Desk!Row
  <1>3. \A c \in Desk!Contents : c.text \in Texts
    BY DEF Desk!Contents
  <1>4. \A r \in Desk!Request : r.app \in Apps
    BY DEF Desk!Request
  <1> QED
    BY <1>1, <1>2, <1>3, <1>4

LEMMA FitsOn ==
  ASSUME NEW old \in [Apps -> Desk!Row], NEW new \in [Apps -> Desk!Row], Grows(old, new)
  PROVE  /\ \A a \in Apps, r \in Desk!Row : Fits(old, a, r) => Fits(new, a, r)
         /\ \A r \in Desk!Request : RequestFits(old, r) => RequestFits(new, r)
  <1>1. ASSUME NEW a \in Apps, NEW r \in Desk!Row, Fits(old, a, r)
        PROVE  Fits(new, a, r)
    <2>1. old[a].revision \in Nat /\ new[a].revision \in Nat /\ r.revision \in Nat
      BY DeskParts
    <2> QED
      BY <1>1, <2>1 DEF Fits, Grows
  <1>2. \A r \in Desk!Request : r.app \in Apps
    BY DeskParts
  <1> QED
    BY <1>1, <1>2 DEF RequestFits

LEMMA DeskStarts == ASSUME Desk!Init PROVE DeskInv
  <1> USE PartsAssumption
  <1>1. deskRow \in [Apps -> Desk!Row] /\ \A a \in Apps : deskRow[a].status = "drafted"
    BY DEF Desk!Init
  <1>2. 0 \in 0..MaxApprovals /\ 0 \in Nat
    BY DEF Desk!DeskAssumption
  <1>3. \A a \in Apps : deskRow[a].content \in Desk!Contents /\ deskRow[a].content.text \in Texts
    BY <1>1 DEF Desk!Row, Desk!Contents
  <1>4. Desk!TypeOK
    BY <1>1, <1>2, <1>3 DEF Desk!Init, Desk!TypeOK
  <1>5. \A a \in Apps : deskRow[a].revision \in Nat
    BY <1>1, DeskParts
  <1>6. \A t \in Tabs, a \in Apps : Fits(deskRow, a, deskList[t][a])
    BY <1>5 DEF Desk!Init, Fits
  <1>7. \A i \in Desk!Slots : deskReq[i] = Desk!Idle
    BY DEF Desk!Init
  <1>8. Desk!ApprovedWasReceived
    BY <1>1 DEF Desk!ApprovedWasReceived, Desk!Reviewed
  <1> QED
    BY <1>4, <1>6, <1>7, <1>8 DEF DeskInv

\* A step that leaves the server alone.
LEMMA ServerAlone ==
  ASSUME DeskInv, UNCHANGED Desk!server,
         deskReq' \in [Desk!Slots -> Desk!Request \cup {Desk!Idle}],
         \A k \in Desk!Slots : deskReq'[k] # Desk!Idle => RequestFits(deskRow, deskReq'[k]),
         deskList' \in [Tabs -> [Apps -> Desk!Row]],
         \A t \in Tabs, a \in Apps : Fits(deskRow, a, deskList'[t][a]),
         deskDraft' \in [Tabs -> Desk!Draft \cup {NoDraft}]
  PROVE  DeskInv'
  <1>1. Desk!TypeOK'
    BY DEF DeskInv, Desk!TypeOK, Desk!server
  <1>2. Desk!ApprovedWasReceived'
    BY DEF DeskInv, Desk!ApprovedWasReceived, Desk!Reviewed, Desk!server
  <1>3. deskRow' = deskRow
    BY DEF Desk!server
  <1> QED
    BY <1>1, <1>2, <1>3 DEF DeskInv, Desk!Slots, Desk!Idle

\* ... and every request but one.
LEMMA OneRequest ==
  ASSUME DeskInv, UNCHANGED Desk!server, NEW i \in Desk!Slots,
         NEW r \in Desk!Request \cup {Desk!Idle}, deskReq' = [deskReq EXCEPT ![i] = r],
         r # Desk!Idle => RequestFits(deskRow, r),
         deskList' \in [Tabs -> [Apps -> Desk!Row]],
         \A t \in Tabs, a \in Apps : Fits(deskRow, a, deskList'[t][a]),
         deskDraft' \in [Tabs -> Desk!Draft \cup {NoDraft}]
  PROVE  DeskInv'
  <1>1. deskReq' \in [Desk!Slots -> Desk!Request \cup {Desk!Idle}]
    BY DEF DeskInv, Desk!TypeOK
  <1>2. \A k \in Desk!Slots : deskReq'[k] # Desk!Idle => RequestFits(deskRow, deskReq'[k])
    BY DEF DeskInv, Desk!TypeOK
  <1> QED
    BY <1>1, <1>2, ServerAlone

LEMMA DeskClicks ==
  ASSUME DeskInv, NEW t \in Tabs, NEW kind \in {"save", "save and approve", "approve", "send",
                                                "list", "draft"},
         Desk!Clicks(t, kind)
  PROVE  DeskInv'
  <1>1. UNCHANGED Desk!server /\ UNCHANGED Desk!tabs /\ deskDraft[t] # NoDraft
    BY DEF Desk!Clicks
  <1>2. PICK i \in Desk!Slots : deskReq' = [deskReq EXCEPT ![i] =
                [stage |-> "sent", tab |-> t, kind |-> kind, app |-> deskDraft[t].app,
                 base |-> IF kind \in Desk!Approvals THEN Desk!Copy(t) ELSE Nil,
                 text |-> IF kind \in Desk!Approvals \cup Desk!Saves
                         THEN deskDraft[t].text ELSE Nil,
                 rows |-> Nil]]
    BY DEF Desk!Clicks
  <1> DEFINE r == [stage |-> "sent", tab |-> t, kind |-> kind, app |-> deskDraft[t].app,
                 base |-> IF kind \in Desk!Approvals THEN Desk!Copy(t) ELSE Nil,
                 text |-> IF kind \in Desk!Approvals \cup Desk!Saves
                         THEN deskDraft[t].text ELSE Nil,
                 rows |-> Nil]
  <1>3. deskDraft[t].app \in Apps /\ deskDraft[t].text \in Texts
    BY <1>1 DEF DeskInv, Desk!TypeOK, Desk!Draft
  <1>4. Desk!Copy(t) \in Desk!Row /\ Fits(deskRow, deskDraft[t].app, Desk!Copy(t))
    BY <1>3 DEF Desk!Copy, DeskInv, Desk!TypeOK
  <1>5. r \in Desk!Request
    BY <1>3, <1>4 DEF Desk!Request
  <1>6. RequestFits(deskRow, r)
    BY <1>3, <1>4 DEF RequestFits
  <1> HIDE DEF r
  <1>7. deskReq' = [deskReq EXCEPT ![i] = r]
    BY <1>2 DEF r
  <1> QED
    BY <1>1, <1>5, <1>6, <1>7, OneRequest DEF DeskInv, Desk!TypeOK, Desk!tabs

LEMMA DeskTyping ==
  ASSUME DeskInv, NEW t \in Tabs,
         \/ \E a \in Apps : Desk!Select(t, a)
         \/ \E x \in Texts : Desk!Type(t, x)
  PROVE  DeskInv'
  <1>1. CASE \E a \in Apps : Desk!Select(t, a)
    <2>1. PICK a \in Apps : Desk!Select(t, a)
      BY <1>1
    <2>2. [app |-> a, text |-> deskList[t][a].content.text] \in Desk!Draft
      BY DeskParts DEF DeskInv, Desk!TypeOK, Desk!Draft
    <2>3. deskDraft' \in [Tabs -> Desk!Draft \cup {NoDraft}]
      BY <2>1, <2>2 DEF Desk!Select, DeskInv, Desk!TypeOK
    <2> QED
      BY <2>1, <2>3, ServerAlone DEF Desk!Select, DeskInv, Desk!TypeOK
  <1>2. CASE \E x \in Texts : Desk!Type(t, x)
    <2>1. PICK x \in Texts : Desk!Type(t, x)
      BY <1>2
    <2>2. deskDraft[t] \in Desk!Draft
      BY <2>1 DEF Desk!Type, DeskInv, Desk!TypeOK
    <2>3. deskDraft' \in [Tabs -> Desk!Draft \cup {NoDraft}]
      BY <2>1, <2>2 DEF Desk!Type, DeskInv, Desk!TypeOK, Desk!Draft
    <2> QED
      BY <2>1, <2>3, ServerAlone DEF Desk!Type, DeskInv, Desk!TypeOK
  <1> QED
    BY <1>1, <1>2

LEMMA DeskLosesRequest ==
  ASSUME DeskInv, NEW i \in Desk!Slots, Desk!Fails(i) \/ Desk!NeverArrives(i)
  PROVE  DeskInv'
  <1>1. UNCHANGED <<Desk!server, deskList, deskDraft>>
    BY DEF Desk!Fails, Desk!NeverArrives, Desk!tabs
  <1>2. \/ deskReq' = [deskReq EXCEPT ![i] = Desk!Idle]
        \/ deskReq' = [deskReq EXCEPT ![i] = [deskReq[i] EXCEPT !.tab = Gone]]
           /\ deskReq[i] # Desk!Idle
    BY DEF Desk!Fails, Desk!NeverArrives, DeskInv, Desk!TypeOK
  <1>3. CASE deskReq' = [deskReq EXCEPT ![i] = Desk!Idle]
    BY <1>1, <1>3, OneRequest DEF DeskInv, Desk!TypeOK
  <1>4. CASE deskReq' = [deskReq EXCEPT ![i] = [deskReq[i] EXCEPT !.tab = Gone]]
             /\ deskReq[i] # Desk!Idle
    <2> DEFINE r == [deskReq[i] EXCEPT !.tab = Gone]
    <2>1. deskReq[i] \in Desk!Request /\ RequestFits(deskRow, deskReq[i])
      BY <1>4 DEF DeskInv, Desk!TypeOK
    <2>2. /\ r \in Desk!Request /\ r.kind = deskReq[i].kind /\ r.text = deskReq[i].text
          /\ r.base = deskReq[i].base /\ r.app = deskReq[i].app
          /\ r.stage = deskReq[i].stage /\ r.rows = deskReq[i].rows
      BY <2>1 DEF Desk!Request
    <2> HIDE DEF r
    <2>3. RequestFits(deskRow, r)
      BY <2>1, <2>2 DEF RequestFits
    <2>4. deskReq' = [deskReq EXCEPT ![i] = r]
      BY <1>4 DEF r
    <2> QED
      BY <1>1, <2>2, <2>3, <2>4, OneRequest DEF DeskInv, Desk!TypeOK
  <1> QED
    BY <1>2, <1>3, <1>4

\* What a tab receives fits, and its editor shows a stored text.
LEMMA DeskReceives ==
  ASSUME DeskInv, NEW t, NEW copies, Desk!Receives(t, copies),
         t \in Tabs => copies \in [Apps -> Desk!Row] /\ \A a \in Apps : Fits(deskRow, a, copies[a])
  PROVE  /\ deskList' \in [Tabs -> [Apps -> Desk!Row]]
         /\ \A u \in Tabs, a \in Apps : Fits(deskRow, a, deskList'[u][a])
         /\ deskDraft' \in [Tabs -> Desk!Draft \cup {NoDraft}]
  <1>1. deskList' = [deskList EXCEPT ![t] = copies]
    BY DEF Desk!Receives
  <1>2. deskDraft' = [deskDraft EXCEPT ![t] = Desk!Redrawn(t, copies)]
    BY DEF Desk!Receives
  <1>3. ASSUME t \in Tabs PROVE Desk!Redrawn(t, copies) \in Desk!Draft \cup {NoDraft}
    <2>1. CASE deskDraft[t] = NoDraft
      BY <2>1 DEF Desk!Redrawn
    <2>2. CASE deskDraft[t] # NoDraft
      <3>1. deskDraft[t] \in Desk!Draft
        BY <2>2, <1>3 DEF DeskInv, Desk!TypeOK
      <3>2. deskDraft[t].app \in Apps
        BY <3>1 DEF Desk!Draft
      <3>3. copies[deskDraft[t].app].content.text \in Texts
        BY <1>3, <3>2, DeskParts
      <3>4. [deskDraft[t] EXCEPT !.text = copies[deskDraft[t].app].content.text] \in Desk!Draft
        BY <3>1, <3>3 DEF Desk!Draft
      <3> QED
        BY <2>2, <3>4 DEF Desk!Redrawn
    <2> QED
      BY <2>1, <2>2
  <1> QED
    BY <1>1, <1>2, <1>3 DEF DeskInv, Desk!TypeOK

LEMMA DeskLands ==
  ASSUME DeskInv, NEW i \in Desk!Slots, Desk!Land(i)
  PROVE  DeskInv'
  <1> DEFINE r == deskReq[i]
             t == r.tab
  <1>1. /\ UNCHANGED Desk!server
        /\ r.stage \in {"refused", "answered"}
    BY DEF Desk!Land
  <1>2. r \in Desk!Request /\ RequestFits(deskRow, r) /\ r.app \in Apps /\ r # Desk!Idle
    <2>1. r # Desk!Idle
      BY <1>1 DEF Desk!Idle
    <2> QED
      BY <2>1, DeskParts DEF DeskInv, Desk!TypeOK
  <1>3. ASSUME r.stage = "answered"
        PROVE  /\ r.rows \in [Apps -> Desk!Row] /\ \A a \in Apps : Fits(deskRow, a, r.rows[a])
               /\ t \in Tabs =>
                     /\ [deskList[t] EXCEPT ![r.app] = r.rows[r.app]] \in [Apps -> Desk!Row]
                     /\ \A a \in Apps :
                          Fits(deskRow, a, [deskList[t] EXCEPT ![r.app] = r.rows[r.app]][a])
    BY <1>2, <1>3 DEF RequestFits, DeskInv, Desk!TypeOK
  <1>4. CASE /\ r.stage = "refused"
             /\ deskReq' = [deskReq EXCEPT ![i] = Desk!Idle]
             /\ UNCHANGED <<deskList, deskDraft>>
    BY <1>1, <1>4, OneRequest DEF DeskInv, Desk!TypeOK
  <1>5. CASE /\ r.stage = "answered"
             /\ Desk!Receives(t, [deskList[t] EXCEPT ![r.app] = r.rows[r.app]])
             /\ deskReq' = [deskReq EXCEPT ![i] = Desk!Idle]
    BY <1>1, <1>3, <1>5, OneRequest, DeskReceives
  <1>6. CASE /\ r.stage = "answered" /\ r.kind = "save and approve"
             /\ Desk!Receives(t, [deskList[t] EXCEPT ![r.app] = r.rows[r.app]])
             /\ deskReq' = [deskReq EXCEPT ![i].stage = "sent", ![i].kind = "approve",
                                           ![i].base = r.rows[r.app], ![i].rows = Nil]
    <2> DEFINE q == [r EXCEPT !.stage = "sent", !.kind = "approve", !.base = r.rows[r.app],
                              !.rows = Nil]
    <2>1. deskReq' = [deskReq EXCEPT ![i] = q]
      BY <1>6 DEF DeskInv, Desk!TypeOK
    <2>2. /\ q \in Desk!Request /\ q.stage = "sent" /\ q.kind = "approve"
          /\ q.base = r.rows[r.app] /\ q.app = r.app /\ q.text = r.text
      BY <1>2, <1>3, <1>6 DEF Desk!Request
    <2> HIDE DEF q
    <2>3. RequestFits(deskRow, q)
      BY <2>2, <1>2, <1>3, <1>6 DEF RequestFits, Desk!Saves, Desk!Approvals
    <2> QED
      BY <1>1, <1>3, <1>6, <2>1, <2>2, <2>3, OneRequest, DeskReceives
  <1>7. CASE /\ r.stage = "answered" /\ r.kind \in {"send", "draft"}
             /\ deskReq' = [deskReq EXCEPT ![i].stage = "sent", ![i].kind = "list", ![i].rows = Nil]
             /\ UNCHANGED Desk!tabs
    <2> DEFINE q == [r EXCEPT !.stage = "sent", !.kind = "list", !.rows = Nil]
    <2>1. deskReq' = [deskReq EXCEPT ![i] = q]
      BY <1>7 DEF DeskInv, Desk!TypeOK
    <2>2. q \in Desk!Request /\ q.stage = "sent" /\ q.kind = "list"
      BY <1>2 DEF Desk!Request
    <2> HIDE DEF q
    <2>3. RequestFits(deskRow, q)
      BY <2>2 DEF RequestFits, Desk!Saves, Desk!Approvals
    <2> QED
      BY <1>1, <1>7, <2>1, <2>2, <2>3, OneRequest DEF DeskInv, Desk!TypeOK, Desk!tabs
  <1>8. CASE /\ r.stage = "answered" /\ r.kind = "list"
             /\ Desk!Receives(t, r.rows)
             /\ deskReq' = [deskReq EXCEPT ![i] = Desk!Idle]
    BY <1>1, <1>3, <1>8, OneRequest, DeskReceives
  <1> QED
    BY <1>4, <1>5, <1>6, <1>7, <1>8 DEF Desk!Land

-----------------------------------------------------------------------------
(* ... its server *)

\* An answer brings the rows as they are after the step.
LEMMA DeskAnswers ==
  ASSUME DeskInv, deskRow' \in [Apps -> Desk!Row], Grows(deskRow, deskRow'),
         NEW i \in Desk!Slots, deskReq[i] # Desk!Idle,
         NEW stage \in {"answered", "refused"}, Desk!Answers(i, stage)
  PROVE  /\ deskReq' \in [Desk!Slots -> Desk!Request \cup {Desk!Idle}]
         /\ \A k \in Desk!Slots : deskReq'[k] # Desk!Idle => RequestFits(deskRow', deskReq'[k])
  <1> DEFINE r == deskReq[i]
             q == IF r.tab = Gone THEN Desk!Idle
                  ELSE [r EXCEPT !.stage = stage,
                                 !.rows = IF stage = "answered" THEN deskRow' ELSE r.rows]
  <1>1. deskReq' = [deskReq EXCEPT ![i] = q]
    BY DEF Desk!Answers, DeskInv, Desk!TypeOK
  <1>2. r \in Desk!Request /\ RequestFits(deskRow, r)
    BY DEF DeskInv, Desk!TypeOK
  <1>3. RequestFits(deskRow', r)
    BY <1>2, FitsOn DEF DeskInv, Desk!TypeOK
  <1>4. \A a \in Apps : Fits(deskRow', a, deskRow'[a])
    BY DeskParts DEF Fits
  <1>5. CASE r.tab = Gone
    <2>1. q = Desk!Idle
      BY <1>5
    <2> QED
      BY <1>1, <2>1, FitsOn DEF DeskInv, Desk!TypeOK
  <1>6. CASE r.tab # Gone
    <2>1. /\ q \in Desk!Request /\ q.stage = stage /\ q.kind = r.kind /\ q.text = r.text
          /\ q.base = r.base /\ q.app = r.app
          /\ q.rows = IF stage = "answered" THEN deskRow' ELSE r.rows
      BY <1>2, <1>6 DEF Desk!Request
    <2> HIDE DEF q
    <2>2. RequestFits(deskRow', q)
      BY <1>3, <1>4, <2>1 DEF RequestFits
    <2> QED
      BY <1>1, <2>1, <2>2, FitsOn DEF DeskInv, Desk!TypeOK
  <1> QED
    BY <1>5, <1>6


\* The server handles request i: what it does to the rows, and its answer.
LEMMA DeskServed ==
  ASSUME DeskInv, UNCHANGED Desk!tabs,
         deskRow' \in [Apps -> Desk!Row], Grows(deskRow, deskRow'),
         deskReq' \in [Desk!Slots -> Desk!Request \cup {Desk!Idle}],
         \A k \in Desk!Slots : deskReq'[k] # Desk!Idle => RequestFits(deskRow', deskReq'[k]),
         deskApprovals' \in [Apps -> 0..MaxApprovals], deskSends' \in [Apps -> Nat],
         deskRatified' \in [Apps -> [base : Desk!Contents, screen : Texts]],
         Desk!ApprovedWasReceived'
  PROVE  DeskInv'
  <1>1. Desk!TypeOK'
    BY DEF DeskInv, Desk!TypeOK, Desk!tabs
  <1>2. deskList' = deskList
    BY DEF Desk!tabs
  <1>3. ASSUME NEW t \in Tabs, NEW a \in Apps
        PROVE  Fits(deskRow', a, deskList'[t][a])
    <2>1. deskList[t][a] \in Desk!Row /\ Fits(deskRow, a, deskList[t][a])
      BY DEF DeskInv, Desk!TypeOK
    <2>2. deskRow \in [Apps -> Desk!Row]
      BY DEF DeskInv, Desk!TypeOK
    <2> QED
      BY <1>2, <2>1, <2>2, FitsOn
  <1> QED
    BY <1>1, <1>3 DEF DeskInv, Desk!Slots, Desk!Idle

\* A request that changes nothing: a list, a refusal, a draft that has to be new.
LEMMA DeskServesNothing ==
  ASSUME DeskInv, UNCHANGED Desk!tabs, UNCHANGED Desk!server,
         NEW i \in Desk!Slots, deskReq[i] # Desk!Idle,
         NEW stage \in {"answered", "refused"}, Desk!Answers(i, stage)
  PROVE  DeskInv'
  <1>1. deskRow' = deskRow /\ deskRow' \in [Apps -> Desk!Row]
    BY DEF DeskInv, Desk!TypeOK, Desk!server
  <1>2. Grows(deskRow, deskRow')
    BY <1>1, DeskParts DEF Grows
  <1>3. Desk!ApprovedWasReceived'
    BY DEF DeskInv, Desk!ApprovedWasReceived, Desk!Reviewed, Desk!server
  <1> QED
    BY <1>1, <1>2, <1>3, DeskAnswers, DeskServed DEF DeskInv, Desk!TypeOK, Desk!server

\* A save or a written draft.
LEMMA DeskRewrites ==
  ASSUME DeskInv, UNCHANGED Desk!tabs,
         NEW i \in Desk!Slots, deskReq[i] # Desk!Idle, Desk!Answers(i, "answered"),
         NEW a \in Apps, NEW x \in Texts, deskRow[a].revision < MaxRevision,
         deskRow' = [deskRow EXCEPT ![a] = Desk!Rewritten(deskRow[a], Desk!OnScreen(x))],
         UNCHANGED <<deskApprovals, deskSends, deskRatified>>
  PROVE  DeskInv'
  <1> DEFINE new == Desk!Rewritten(deskRow[a], Desk!OnScreen(x))
  <1>1. deskRow[a].revision \in Nat /\ deskRow[a].revision \in 1..MaxRevision
    BY DeskParts DEF DeskInv, Desk!TypeOK, Desk!Row
  <1>2. deskRow[a].revision + 1 \in 1..MaxRevision /\ 0 \in 0..MaxRevision
    BY <1>1, DeskParts
  <1>3. Desk!OnScreen(x) \in Desk!Contents
    BY DEF Desk!OnScreen, Desk!Contents
  <1>4. /\ new \in Desk!Row /\ new.status = "drafted"
        /\ new.revision = deskRow[a].revision + 1
    BY <1>2, <1>3 DEF Desk!Rewritten, Desk!Row, Desk!Statuses
  <1> HIDE DEF new
  <1>5. deskRow' = [deskRow EXCEPT ![a] = new]
    BY DEF new
  <1>6. deskRow' \in [Apps -> Desk!Row]
    BY <1>4, <1>5 DEF DeskInv, Desk!TypeOK
  <1>7. \A b \in Apps : deskRow'[b] = IF b = a THEN new ELSE deskRow[b]
    BY <1>5 DEF DeskInv, Desk!TypeOK
  <1>8. Grows(deskRow, deskRow')
    BY <1>1, <1>4, <1>7, DeskParts DEF Grows, DeskInv, Desk!TypeOK
  <1>9. Desk!ApprovedWasReceived'
    BY <1>4, <1>7 DEF DeskInv, Desk!ApprovedWasReceived, Desk!Reviewed
  <1> QED
    BY <1>6, <1>8, <1>9, DeskAnswers, DeskServed DEF DeskInv, Desk!TypeOK

LEMMA StatusSet ==
  ASSUME NEW o \in Desk!Row, NEW x \in Desk!Statuses
  PROVE  /\ [o EXCEPT !.status = x] \in Desk!Row
         /\ [o EXCEPT !.status = x].revision = o.revision
         /\ [o EXCEPT !.status = x].content = o.content
  BY DEF Desk!Row

\* A new status, with or without an approval: the content stays.
LEMMA DeskMoves ==
  ASSUME DeskInv, NEW a \in Apps, NEW r \in Desk!Row,
         r.revision = deskRow[a].revision, r.content = deskRow[a].content,
         deskRow' = [deskRow EXCEPT ![a] = r]
  PROVE  /\ deskRow' \in [Apps -> Desk!Row] /\ Grows(deskRow, deskRow')
         /\ \A b \in Apps : deskRow'[b] = IF b = a THEN r ELSE deskRow[b]
  <1>1. \A b \in Apps : deskRow'[b] = IF b = a THEN r ELSE deskRow[b]
    BY DEF DeskInv, Desk!TypeOK
  <1>2. deskRow' \in [Apps -> Desk!Row]
    BY DEF DeskInv, Desk!TypeOK
  <1> QED
    BY <1>1, <1>2, DeskParts DEF Grows, DeskInv, Desk!TypeOK

LEMMA DeskApproves ==
  ASSUME DeskInv, UNCHANGED Desk!tabs, NEW i \in Desk!Slots, deskReq[i] # Desk!Idle,
         deskReq[i].kind = "approve", Desk!ServeApprove(i)
  PROVE  DeskInv'
  <1> DEFINE a == deskReq[i].app
             q == deskReq[i]
  <1>1. a \in Apps /\ q.base \in Desk!Row /\ Fits(deskRow, a, q.base)
    BY DeskParts DEF DeskInv, Desk!TypeOK, RequestFits, Desk!Approvals
  <1>2. CASE ~Desk!Approvable(deskRow[a], Desk!ExpectedRevision(q.base))
    BY <1>2, DeskServesNothing DEF Desk!ServeApprove
  <1>3. CASE Desk!Approvable(deskRow[a], Desk!ExpectedRevision(q.base))
    <2> DEFINE r == [deskRow[a] EXCEPT !.status = "approved", !.approved = deskRow[a].revision]
    <2>1. /\ deskApprovals[a] < MaxApprovals
          /\ deskApprovals' = [deskApprovals EXCEPT ![a] = @ + 1]
          /\ deskRow' = [deskRow EXCEPT ![a] = r]
          /\ deskRatified' =
               [deskRatified EXCEPT ![a] = [base |-> q.base.content, screen |-> q.text]]
          /\ Desk!Answers(i, "answered") /\ deskSends' = deskSends
      BY <1>1, <1>3 DEF Desk!ServeApprove, DeskInv, Desk!TypeOK
    <2>2. deskRow[a] \in Desk!Row /\ deskRow[a].revision = 1 /\ 1 \in 0..MaxRevision
      BY <1>1, <1>3, DeskParts DEF Desk!Approvable, Desk!ExpectedRevision, DeskInv, Desk!TypeOK
    <2>3. /\ r \in Desk!Row /\ r.revision = deskRow[a].revision
          /\ r.content = deskRow[a].content
      BY <2>2 DEF Desk!Row, Desk!Statuses
    <2>4. q.base.content = deskRow[a].content
      <3>1. q.base.revision \in 1..MaxRevision
        BY <1>1 DEF Desk!Row
      <3> QED
        BY <1>1, <2>2, <3>1, DeskParts DEF Fits
    <2>5. q.text \in Texts /\ q.base.content \in Desk!Contents
      BY <1>1, DeskParts DEF DeskInv, RequestFits, Desk!Approvals
    <2>6. /\ deskApprovals' \in [Apps -> 0..MaxApprovals]
          /\ deskRatified' \in [Apps -> [base : Desk!Contents, screen : Texts]]
          /\ \A b \in Apps : deskRatified'[b].base = IF b = a THEN q.base.content
                                                     ELSE deskRatified[b].base
      BY <1>1, <2>1, <2>5, DeskParts DEF DeskInv, Desk!TypeOK
    <2> HIDE DEF r
    <2>7. /\ deskRow' \in [Apps -> Desk!Row] /\ Grows(deskRow, deskRow')
          /\ \A b \in Apps : deskRow'[b] = IF b = a THEN r ELSE deskRow[b]
      BY <1>1, <2>1, <2>3, DeskMoves
    <2>8. Desk!ApprovedWasReceived'
      BY <2>3, <2>4, <2>6, <2>7 DEF DeskInv, Desk!ApprovedWasReceived, Desk!Reviewed
    <2> QED
      BY <2>1, <2>6, <2>7, <2>8, DeskAnswers, DeskServed DEF DeskInv, Desk!TypeOK
  <1> QED
    BY <1>2, <1>3

LEMMA DeskSends ==
  ASSUME DeskInv, UNCHANGED Desk!tabs, NEW i \in Desk!Slots, deskReq[i] # Desk!Idle,
         Desk!ServeSend(i)
  PROVE  DeskInv'
  <1> DEFINE a == deskReq[i].app
             r == [deskRow[a] EXCEPT !.status = "queued"]
  <1>1. a \in Apps
    BY DeskParts DEF DeskInv, Desk!TypeOK
  <1>2. CASE UNCHANGED Desk!server /\ Desk!Answers(i, "refused")
    BY <1>2, DeskServesNothing
  <1>3. CASE ~ (UNCHANGED Desk!server /\ Desk!Answers(i, "refused"))
    <2>1. /\ Desk!Sendable(deskRow[a])
          /\ deskRow' = [deskRow EXCEPT ![a] = r]
          /\ deskSends' = [deskSends EXCEPT ![a] = @ + 1]
          /\ Desk!Answers(i, "answered")
          /\ UNCHANGED <<deskApprovals, deskRatified>>
      BY <1>1, <1>3 DEF Desk!ServeSend, DeskInv, Desk!TypeOK
    <2>2. /\ r \in Desk!Row /\ r.revision = deskRow[a].revision
          /\ r.content = deskRow[a].content
      <3>1. deskRow[a] \in Desk!Row /\ "queued" \in Desk!Statuses
        BY <1>1 DEF DeskInv, Desk!TypeOK, Desk!Statuses
      <3> QED
        BY <3>1, StatusSet
    <2>3. deskRow[a].status = "approved"
      BY <2>1 DEF Desk!Sendable
    <2> HIDE DEF r
    <2>4. /\ deskRow' \in [Apps -> Desk!Row] /\ Grows(deskRow, deskRow')
          /\ \A b \in Apps : deskRow'[b] = IF b = a THEN r ELSE deskRow[b]
      BY <1>1, <2>1, <2>2, DeskMoves
    <2>5. deskSends' \in [Apps -> Nat]
      BY <1>1, <2>1 DEF DeskInv, Desk!TypeOK
    <2>6. Desk!ApprovedWasReceived'
      BY <2>1, <2>2, <2>3, <2>4 DEF DeskInv, Desk!ApprovedWasReceived, Desk!Reviewed
    <2> QED
      BY <2>1, <2>4, <2>5, <2>6, DeskAnswers, DeskServed DEF DeskInv, Desk!TypeOK
  <1> QED
    BY <1>2, <1>3

\* The draft button has found the application of its request.
LEMMA DeskFinds ==
  ASSUME DeskInv, UNCHANGED Desk!tabs, NEW i \in Desk!Slots, deskReq[i] # Desk!Idle,
         Desk!FindDrafted(i), deskReq[i].kind = "draft"
  PROVE  DeskInv'
  <1> DEFINE r == [deskReq[i] EXCEPT !.stage = "drafting"]
  <1>1. deskReq' = [deskReq EXCEPT ![i] = r] /\ UNCHANGED Desk!server
    BY DEF Desk!FindDrafted
  <1>2. r \in Desk!Request /\ r.stage = "drafting" /\ r.kind = "draft"
    BY DEF DeskInv, Desk!TypeOK, Desk!Request
  <1> HIDE DEF r
  <1>3. RequestFits(deskRow, r)
    BY <1>2 DEF RequestFits, Desk!Saves, Desk!Approvals
  <1> QED
    BY <1>1, <1>2, <1>3, OneRequest DEF DeskInv, Desk!TypeOK, Desk!tabs

LEMMA DeskServes ==
  ASSUME DeskInv, NEW i \in Desk!Slots, Desk!Serve(i)
  PROVE  DeskInv'
  <1> DEFINE a == deskReq[i].app
  <1>1. deskReq[i].stage \in {"sent", "drafting"} /\ UNCHANGED Desk!tabs
    BY DEF Desk!Serve
  <1>2. deskReq[i] # Desk!Idle
    BY <1>1 DEF Desk!Idle
  <1>3. a \in Apps
    BY <1>2, DeskParts DEF DeskInv, Desk!TypeOK
  <1>4. CASE deskReq[i].kind \in Desk!Saves /\ Desk!ServeSave(i)
    <2>1. deskReq[i].text \in Texts
      BY <1>2, <1>4 DEF DeskInv, RequestFits
    <2>2. CASE deskRow[a].status \in {"queued", "sent"}
      BY <1>1, <1>2, <1>4, <2>2, DeskServesNothing DEF Desk!ServeSave
    <2>3. CASE deskRow[a].status \notin {"queued", "sent"}
      BY <1>1, <1>2, <1>3, <1>4, <2>1, <2>3, DeskRewrites DEF Desk!ServeSave
    <2> QED
      BY <2>2, <2>3
  <1>5. CASE deskReq[i].kind = "draft" /\ Desk!FindDrafted(i)
    BY <1>1, <1>2, <1>5, DeskFinds
  <1>6. CASE Desk!NothingDrafted(i) \/ Desk!ServeList(i)
    BY <1>1, <1>2, <1>6, DeskServesNothing DEF Desk!NothingDrafted, Desk!ServeList
  <1>7. CASE Desk!WriteDraft(i)
    <2>1. CASE Desk!ContentLocked(deskRow[a])
      BY <1>1, <1>2, <1>7, <2>1, DeskServesNothing DEF Desk!WriteDraft
    <2>2. CASE ~Desk!ContentLocked(deskRow[a])
      <3>1. PICK x \in Texts :
               deskRow' = [deskRow EXCEPT ![a] = Desk!Rewritten(deskRow[a], Desk!OnScreen(x))]
        BY <1>7, <2>2 DEF Desk!WriteDraft
      <3>2. /\ deskRow[a].revision < MaxRevision /\ Desk!Answers(i, "answered")
            /\ UNCHANGED <<deskApprovals, deskSends, deskRatified>>
        BY <1>7, <2>2 DEF Desk!WriteDraft
      <3> QED
        BY <1>1, <1>2, <1>3, <3>1, <3>2, DeskRewrites
    <2> QED
      BY <2>1, <2>2
  <1> QED
    BY <1>1, <1>2, <1>4, <1>5, <1>6, <1>7, DeskApproves, DeskSends DEF Desk!Serve

LEMMA DeskSendEnds ==
  ASSUME DeskInv, NEW a \in Apps, NEW outcome \in {"sent", "failed"}, Desk!SendEnds(a, outcome)
  PROVE  DeskInv'
  <1> DEFINE r == [deskRow[a] EXCEPT !.status = outcome]
  <1>1. /\ deskRow[a].status = "queued"
        /\ deskRow' = [deskRow EXCEPT ![a] = r]
        /\ UNCHANGED <<deskApprovals, deskSends, deskRatified, Desk!tabs, deskReq>>
    BY DEF Desk!SendEnds, DeskInv, Desk!TypeOK
  <1>2. /\ r \in Desk!Row /\ r.revision = deskRow[a].revision /\ r.content = deskRow[a].content
    <2>1. deskRow[a] \in Desk!Row /\ outcome \in Desk!Statuses
      BY DEF DeskInv, Desk!TypeOK, Desk!Statuses
    <2> QED
      BY <2>1, StatusSet
  <1> HIDE DEF r
  <1>3. /\ deskRow' \in [Apps -> Desk!Row] /\ Grows(deskRow, deskRow')
        /\ \A b \in Apps : deskRow'[b] = IF b = a THEN r ELSE deskRow[b]
    BY <1>1, <1>2, DeskMoves
  <1>4. Desk!ApprovedWasReceived'
    BY <1>1, <1>2, <1>3 DEF DeskInv, Desk!ApprovedWasReceived, Desk!Reviewed
  <1>5. \A k \in Desk!Slots : deskReq'[k] # Desk!Idle => RequestFits(deskRow', deskReq'[k])
    BY <1>1, <1>3, FitsOn DEF DeskInv, Desk!TypeOK
  <1> QED
    BY <1>1, <1>3, <1>4, <1>5, DeskServed DEF DeskInv, Desk!TypeOK

LEMMA DeskStep == ASSUME DeskInv, Desk!Next PROVE DeskInv'
  <1>1. ASSUME NEW t \in Tabs,
               \/ Desk!Save(t) \/ Desk!ClickApprove(t) \/ Desk!ClickSend(t)
               \/ Desk!Refresh(t) \/ Desk!ClickDraft(t)
        PROVE  DeskInv'
    BY <1>1, DeskClicks DEF Desk!Save, Desk!ClickApprove, Desk!ClickSend, Desk!Refresh,
                            Desk!ClickDraft
  <1> QED
    BY <1>1, DeskTyping, DeskServes, DeskLands, DeskLosesRequest, DeskSendEnds DEF Desk!Next

-----------------------------------------------------------------------------
(* Sends from the review desk *)

\* Rows have a status.
AreRows(rows) ==
    /\ DOMAIN rows = Apps
    /\ rows = [a \in Apps |-> rows[a]]
    /\ \A a \in Apps : "status" \in DOMAIN rows[a]

Unlocked(a) == deskRow[a].status \notin {"queued", "sent"}

\* What a step does to the rows and the counters: it changes one row at most.
RowRewritten(a) ==
    /\ Unlocked(a)
    /\ \E c : deskRow' = [deskRow EXCEPT ![a] = Desk!Rewritten(deskRow[a], c)]
    /\ UNCHANGED <<deskApprovals, deskSends>>

RowApproved(a) ==
    /\ Unlocked(a)
    /\ deskRow' = [deskRow EXCEPT ![a].status = "approved", ![a].approved = deskRow[a].revision]
    /\ deskApprovals' = [deskApprovals EXCEPT ![a] = @ + 1]
    /\ UNCHANGED deskSends

RowQueued(a) ==
    /\ deskRow[a].status = "approved"
    /\ deskRow' = [deskRow EXCEPT ![a].status = "queued"]
    /\ deskSends' = [deskSends EXCEPT ![a] = @ + 1]
    /\ UNCHANGED deskApprovals

RowSent(a) ==
    /\ deskRow[a].status = "queued"
    /\ \E outcome \in {"sent", "failed"} : deskRow' = [deskRow EXCEPT ![a].status = outcome]
    /\ UNCHANGED <<deskApprovals, deskSends>>

RowsStep ==
    \/ UNCHANGED <<deskRow, deskApprovals, deskSends>>
    \/ \E a : RowRewritten(a) \/ RowApproved(a) \/ RowQueued(a) \/ RowSent(a)

\* An approved message has an approval left that no send has used.
SendsInv ==
    /\ AreRows(deskRow)
    /\ deskApprovals \in [Apps -> Nat] /\ deskSends \in [Apps -> Nat]
    /\ \A a \in Apps : deskRow[a].status = "approved" => deskSends[a] < deskApprovals[a]
    /\ Sends!OneSendPerApproval

\* Counting one more.
LEMMA OneMore ==
  ASSUME NEW S, NEW f \in [S -> Nat], NEW g, NEW a, g = [f EXCEPT ![a] = @ + 1]
  PROVE  /\ g \in [S -> Nat]
         /\ \A b \in S : b # a => g[b] = f[b]
         /\ a \in S => g[a] = f[a] + 1
  <1>1. CASE a \in S
    BY <1>1
  <1>2. CASE a \notin S
    <2>1. g = f
      BY <1>2
    <2> QED
      BY <1>2, <2>1
  <1> QED
    BY <1>1, <1>2

LEMMA SendsStarts == ASSUME Sends!Init PROVE SendsInv
  <1>1. \A r \in Sends!Row : "status" \in DOMAIN r
    BY DEF Sends!Row
  <1>2. deskRow \in [Apps -> Sends!Row] /\ \A a \in Apps : deskRow[a].status = "drafted"
    BY DEF Sends!Init
  <1>3. AreRows(deskRow)
    BY <1>1, <1>2 DEF AreRows
  <1> QED
    BY <1>2, <1>3 DEF Sends!Init, SendsInv, Sends!OneSendPerApproval

LEMMA SendsSteps == ASSUME Sends!Next PROVE RowsStep
  <1> USE DEF RowsStep
  <1>1. ASSUME NEW t \in FewTabs,
               \/ \E a \in Apps : Sends!Select(t, a)
               \/ \E x \in OtherTexts : Sends!Type(t, x)
               \/ Sends!Save(t) \/ Sends!ClickApprove(t) \/ Sends!ClickSend(t)
               \/ Sends!Refresh(t) \/ Sends!ClickDraft(t)
        PROVE  UNCHANGED Sends!server
    BY <1>1 DEF Sends!Select, Sends!Type, Sends!Save, Sends!ClickApprove, Sends!ClickSend,
                Sends!Refresh, Sends!ClickDraft, Sends!Clicks
  <1>2. ASSUME NEW i \in Sends!Slots,
               Sends!Land(i) \/ Sends!Fails(i) \/ Sends!NeverArrives(i)
        PROVE  UNCHANGED Sends!server
    BY <1>2 DEF Sends!Land, Sends!Fails, Sends!NeverArrives
  <1>3. ASSUME NEW a \in Apps, NEW outcome \in {"sent", "failed"}, Sends!SendEnds(a, outcome)
        PROVE  RowSent(a)
    BY <1>3 DEF Sends!SendEnds, RowSent
  <1>4. ASSUME NEW i \in Sends!Slots, Sends!Serve(i)
        PROVE  RowsStep
    <2> DEFINE a == deskReq[i].app
    <2>1. CASE Sends!ServeSave(i)
      BY <2>1 DEF Sends!ServeSave, Sends!server, RowRewritten, Unlocked, Sends!Rewritten,
                  Desk!Rewritten
    <2>2. CASE Sends!ServeApprove(i)
      BY <2>2 DEF Sends!ServeApprove, Sends!server, RowApproved, Unlocked, Sends!Approvable
    <2>3. CASE Sends!ServeSend(i)
      BY <2>3 DEF Sends!ServeSend, Sends!server, RowQueued, Sends!Sendable
    <2>4. CASE Sends!ServeList(i) \/ Sends!FindDrafted(i) \/ Sends!NothingDrafted(i)
      BY <2>4 DEF Sends!ServeList, Sends!FindDrafted, Sends!NothingDrafted, Sends!server
    <2>5. CASE Sends!WriteDraft(i)
      BY <2>5 DEF Sends!WriteDraft, Sends!server, Sends!ContentLocked, RowRewritten, Unlocked,
                  Sends!Rewritten, Desk!Rewritten
    <2> QED
      BY <1>4, <2>1, <2>2, <2>3, <2>4, <2>5 DEF Sends!Serve
  <1> QED
    BY <1>1, <1>2, <1>3, <1>4 DEF Sends!Next, Sends!server

LEMMA SendsStep == ASSUME SendsInv, Sends!Next PROVE SendsInv'
  <1>1. RowsStep
    BY SendsSteps
  <1> USE DEF SendsInv, AreRows, Sends!OneSendPerApproval
  <1>2. CASE UNCHANGED <<deskRow, deskApprovals, deskSends>>
    BY <1>2
  <1>3. ASSUME NEW a, RowRewritten(a) PROVE SendsInv'
    BY <1>3 DEF RowRewritten, Desk!Rewritten
  <1>4. ASSUME NEW a, RowApproved(a) PROVE SendsInv'
    <2>1. AreRows(deskRow)'
      BY <1>4 DEF RowApproved
    <2>2. /\ deskApprovals' \in [Apps -> Nat] /\ deskSends' \in [Apps -> Nat]
          /\ \A b \in Apps : b # a => deskApprovals'[b] = deskApprovals[b]
          /\ a \in Apps => deskApprovals'[a] = deskApprovals[a] + 1
      <3>1. deskApprovals' = [deskApprovals EXCEPT ![a] = @ + 1] /\ deskSends' = deskSends
        BY <1>4 DEF RowApproved
      <3> QED
        BY <3>1, OneMore
    <2>3. \A b \in Apps : b # a => deskRow'[b] = deskRow[b]
      BY <1>4 DEF RowApproved
    <2>4. ASSUME NEW b \in Apps
          PROVE  /\ deskRow'[b].status = "approved" => deskSends'[b] < deskApprovals'[b]
                 /\ deskSends'[b] <= deskApprovals'[b]
      <3>1. /\ deskSends'[b] = deskSends[b] /\ deskSends[b] <= deskApprovals[b]
            /\ deskSends[b] \in Nat /\ deskApprovals[b] \in Nat /\ deskApprovals'[b] \in Nat
        BY <1>4, <2>2 DEF RowApproved
      <3>2. CASE b = a
        BY <2>2, <3>1, <3>2
      <3>3. CASE b # a
        BY <2>2, <2>3, <3>1, <3>3
      <3> QED
        BY <3>2, <3>3
    <2> QED
      BY <2>1, <2>2, <2>4
  <1>5. ASSUME NEW a, RowQueued(a) PROVE SendsInv'
    <2>1. AreRows(deskRow)'
      BY <1>5 DEF RowQueued
    <2>2. /\ deskApprovals' = deskApprovals /\ deskSends' \in [Apps -> Nat]
          /\ \A b \in Apps : b # a => deskSends'[b] = deskSends[b]
          /\ a \in Apps => deskSends'[a] = deskSends[a] + 1
      <3>1. deskSends' = [deskSends EXCEPT ![a] = @ + 1] /\ deskApprovals' = deskApprovals
        BY <1>5 DEF RowQueued
      <3> QED
        BY <3>1, OneMore
    <2>3. \A b \in Apps : b # a => deskRow'[b] = deskRow[b]
      BY <1>5 DEF RowQueued
    <2>5. a \in Apps => deskRow'[a].status = "queued"
      BY <1>5 DEF RowQueued
    <2>4. ASSUME NEW b \in Apps
          PROVE  /\ deskRow'[b].status = "approved" => deskSends'[b] < deskApprovals'[b]
                 /\ deskSends'[b] <= deskApprovals'[b]
      <3>1. /\ deskRow[b].status = "approved" => deskSends[b] < deskApprovals[b]
            /\ deskSends[b] <= deskApprovals[b]
            /\ deskSends[b] \in Nat /\ deskApprovals[b] \in Nat
            /\ deskApprovals'[b] = deskApprovals[b]
        BY <2>2
      <3>2. CASE b = a
        <4>1. deskRow[b].status = "approved" /\ deskSends'[b] = deskSends[b] + 1
          BY <1>5, <2>2, <3>2 DEF RowQueued
        <4> QED
          BY <2>5, <3>1, <3>2, <4>1
      <3>3. CASE b # a
        BY <2>2, <2>3, <3>1, <3>3
      <3> QED
        BY <3>2, <3>3
    <2> QED
      BY <2>1, <2>2, <2>4
  <1>6. ASSUME NEW a, RowSent(a) PROVE SendsInv'
    <2>1. AreRows(deskRow)' /\ UNCHANGED <<deskApprovals, deskSends>>
      BY <1>6 DEF RowSent
    <2>2. ASSUME NEW b \in Apps, deskRow'[b].status = "approved"
          PROVE  deskRow[b].status = "approved"
      <3>1. PICK outcome \in {"sent", "failed"} :
                deskRow' = [deskRow EXCEPT ![a].status = outcome]
        BY <1>6 DEF RowSent
      <3>2. b # a => deskRow'[b] = deskRow[b]
        BY <3>1
      <3>3. b = a => deskRow'[b].status = outcome
        BY <3>1
      <3> QED
        BY <2>2, <3>2, <3>3
    <2> QED
      BY <2>1, <2>2
  <1> QED
    BY <1>1, <1>2, <1>3, <1>4, <1>5, <1>6 DEF RowsStep

LEMMA QueuedStays ==
  ASSUME AreRows(deskRow), RowsStep, NEW a \in Apps
  PROVE  /\ deskRow[a].status = "queued" =>
               /\ deskRow'[a].status \in {"queued", "sent", "failed"}
               /\ deskRow'[a].content = deskRow[a].content
         /\ deskRow[a].status = "sent" => deskRow'[a] = deskRow[a]
  <1> USE DEF AreRows
  <1>1. CASE UNCHANGED <<deskRow, deskApprovals, deskSends>>
    BY <1>1
  <1>2. ASSUME NEW b, RowRewritten(b) \/ RowApproved(b) \/ RowQueued(b) \/ RowSent(b)
        PROVE  /\ a # b => deskRow'[a] = deskRow[a]
               /\ deskRow[b].status # "sent"
               /\ deskRow[b].status = "queued" => RowSent(b)
    <2>1. CASE RowRewritten(b)
      BY <2>1 DEF RowRewritten, Unlocked
    <2>2. CASE RowApproved(b)
      BY <2>2 DEF RowApproved, Unlocked
    <2>3. CASE RowQueued(b)
      BY <2>3 DEF RowQueued
    <2>4. CASE RowSent(b)
      BY <2>4 DEF RowSent
    <2> QED
      BY <1>2, <2>1, <2>2, <2>3, <2>4
  <1>3. ASSUME RowSent(a)
        PROVE  /\ deskRow'[a].status \in {"sent", "failed"}
               /\ deskRow'[a].content = deskRow[a].content
    <2>1. PICK outcome \in {"sent", "failed"} :
              deskRow' = [deskRow EXCEPT ![a].status = outcome]
      BY <1>3 DEF RowSent
    <2>2. deskRow'[a] = [deskRow[a] EXCEPT !.status = outcome]
      BY <2>1
    <2>3. "status" \in DOMAIN deskRow[a]
      OBVIOUS
    <2> QED
      BY <2>2, <2>3
  <1> QED
    BY <1>1, <1>2, <1>3 DEF RowsStep

-----------------------------------------------------------------------------
(* Drafting *)

ChosenRow  == {r \in Draft!AppRow : r.recipient = r.wanted}
ChosenCall ==
    {c \in [step : {"sent", "generating", "looked", "written", "answered", "refused"},
            tab : Tabs \cup {NoOne}, job : Jobs, recipient : Addresses, wanted : Addresses,
            found : Nat] : c.recipient = c.wanted}

\* What a loop sends is what its tab showed when it was started.
DraftInv ==
    /\ draftRows \in [Jobs -> Seq(ChosenRow)]
    /\ draftPicked \in [Tabs -> [Jobs -> Addresses]]
    /\ draftWanted \in [Tabs -> [Jobs -> Addresses]]
    /\ draftRun \in [Tabs -> Draft!Run]
    /\ draftCalls \in [Places -> {Draft!Free} \cup ChosenCall]
    /\ \A t \in Tabs : draftRun[t].at # "idle" => draftRun[t].to = draftWanted[t]

LEMMA DraftHolds == ASSUME DraftInv PROVE Draft!DraftedAsChosen
  <1>1. ASSUME NEW j \in Jobs, NEW i \in DOMAIN draftRows[j]
        PROVE  draftRows[j][i] \in ChosenRow
    BY DEF DraftInv
  <1> QED
    BY <1>1 DEF Draft!DraftedAsChosen, ChosenRow

LEMMA DraftStarts == ASSUME PartsAssumption, Draft!Init PROVE DraftInv
  <1>1. PICK a \in Addresses, j \in Jobs :
        /\ draftContact = [k \in Jobs |-> a]
        /\ draftRows    = [k \in Jobs |-> <<>>]
        /\ draftPicked  = [t \in Tabs |-> draftContact]
        /\ draftRun     = [t \in Tabs |->
              [at |-> "idle", job |-> j, todo |-> {}, to |-> draftContact,
               made |-> {}, failed |-> {}, chosen |-> {}, clicks |-> 0]]
        /\ draftCalls   = [s \in Places |-> Draft!Free]
        /\ draftWanted  = [t \in Tabs |-> draftContact]
    BY DEF Draft!Init
  <1>2. draftRows \in [Jobs -> Seq(ChosenRow)]
    BY <1>1
  <1>3. draftContact \in [Jobs -> Addresses]
    BY <1>1
  <1>4. 0 \in 0..MaxClicks
    BY DEF PartsAssumption, Draft!DraftAssumption
  <1>5. draftRun \in [Tabs -> Draft!Run]
    BY <1>1, <1>3, <1>4 DEF Draft!Run
  <1> QED
    BY <1>1, <1>2, <1>3, <1>5 DEF DraftInv

\* The loop keeps what it had captured.
LEMMA OnwardOK ==
  ASSUME NEW r \in Draft!Run, NEW q \in Draft!Onward(r)
  PROVE  q \in Draft!Run /\ q.to = r.to
  <1>1. CASE r.todo = {}
    BY <1>1 DEF Draft!Onward, Draft!Run
  <1>2. CASE r.todo # {}
    <2>1. PICK j \in r.todo : q = [r EXCEPT !.at = "patch", !.job = j, !.todo = @ \ {j}]
      BY <1>2 DEF Draft!Onward
    <2>2. j \in Jobs
      BY DEF Draft!Run
    <2> QED
      BY <2>1, <2>2 DEF Draft!Run
  <1> QED
    BY <1>1, <1>2

LEMMA FailureOK ==
  ASSUME NEW r \in Draft!Run, NEW q \in Draft!AfterFailure(r)
  PROVE  q \in Draft!Run /\ q.to = r.to
  <1>1. [r EXCEPT !.failed = @ \cup {r.job}] \in Draft!Run
    BY DEF Draft!Run
  <1>2. [r EXCEPT !.failed = @ \cup {r.job}].to = r.to
    BY DEF Draft!Run
  <1> QED
    BY <1>1, <1>2, OnwardOK DEF Draft!AfterFailure

LEMMA SendOK ==
  ASSUME DraftInv, NEW t \in Tabs \cup {NoOne}, NEW j \in Jobs, NEW a \in Addresses,
         Draft!Send(t, j, a, a)
  PROVE  draftCalls' \in [Places -> {Draft!Free} \cup ChosenCall]
  BY DEF Draft!Send, DraftInv, ChosenCall

LEMMA EndsOK ==
  ASSUME DraftInv, NEW s \in Places, NEW as \in {"answered", "refused"}, Draft!Ends(s, as)
  PROVE  draftCalls' \in [Places -> {Draft!Free} \cup ChosenCall]
  <1>1. ASSUME draftCalls[s].tab # NoOne
        PROVE  [draftCalls[s] EXCEPT !.step = as] \in ChosenCall
    <2>1. draftCalls[s] \in ChosenCall
      BY <1>1 DEF DraftInv, Draft!Free
    <2> QED
      BY <2>1 DEF ChosenCall
  <1> QED
    BY <1>1 DEF Draft!Ends, DraftInv

LEMMA MovesOK ==
  ASSUME DraftInv, NEW s \in Places,
         NEW from \in {"sent", "generating", "looked", "written"},
         NEW to \in {"generating", "looked", "written"}, NEW i \in Nat,
         draftCalls[s].step = from,
         \/ draftCalls' = [draftCalls EXCEPT ![s].step = to]
         \/ draftCalls' = [draftCalls EXCEPT ![s].step = to, ![s].found = i]
  PROVE  draftCalls' \in [Places -> {Draft!Free} \cup ChosenCall]
  <1>1. draftCalls[s] \in ChosenCall
    BY DEF DraftInv, Draft!Free
  <1>2. /\ [draftCalls[s] EXCEPT !.step = to] \in ChosenCall
        /\ [draftCalls[s] EXCEPT !.step = to, !.found = i] \in ChosenCall
    BY <1>1 DEF ChosenCall
  <1> QED
    BY <1>2 DEF DraftInv

LEMMA DraftStep == ASSUME PartsAssumption, DraftInv, Draft!Next PROVE DraftInv'
  <1>1. ASSUME NEW t \in Tabs, NEW j \in Jobs, NEW a \in Addresses, Draft!Pick(t, j, a)
        PROVE  DraftInv'
    BY <1>1 DEF Draft!Pick, Draft!server, DraftInv
  <1>2. ASSUME NEW t \in Tabs, NEW chosen \in SUBSET Jobs, Draft!Click(t, chosen) PROVE DraftInv'
    <2> DEFINE q == [draftRun[t] EXCEPT !.chosen = chosen, !.todo = chosen, !.to = draftPicked[t],
                                      !.made = {}, !.failed = {}, !.clicks = @ + 1]
    <2>1. /\ draftRun[t].clicks < MaxClicks /\ draftPicked[t] \in [Jobs -> Addresses]
          /\ draftRun[t] \in Draft!Run /\ MaxClicks \in Nat
      BY <1>2 DEF Draft!Click, DraftInv, PartsAssumption, Draft!DraftAssumption
    <2>2. draftRun[t].clicks + 1 \in 0..MaxClicks
      BY <2>1 DEF Draft!Run
    <2>3. q \in Draft!Run /\ q.to = draftPicked[t]
      BY <2>1, <2>2 DEF Draft!Run
    <2>4. PICK r \in Draft!Onward(q) : draftRun' = [draftRun EXCEPT ![t] = r]
      BY <1>2 DEF Draft!Click
    <2>5. r \in Draft!Run /\ r.to = draftPicked[t]
      BY <2>3, <2>4, OnwardOK
    <2> QED
      BY <1>2, <2>1, <2>4, <2>5 DEF Draft!Click, Draft!server, DraftInv
  <1>3. ASSUME NEW t \in Tabs, Draft!ContactSaved(t) PROVE DraftInv'
    <2>1. /\ draftRun[t] \in Draft!Run /\ draftRun[t].at = "patch"
          /\ draftRun[t].to = draftWanted[t]
      BY <1>3 DEF Draft!ContactSaved, DraftInv
    <2>2. draftRun[t].job \in Jobs /\ Draft!Address(t) \in Addresses
          /\ draftWanted[t][draftRun[t].job] = Draft!Address(t)
      BY <2>1 DEF Draft!Address, Draft!Run
    <2>3. draftCalls' \in [Places -> {Draft!Free} \cup ChosenCall]
      BY <1>3, <2>2, SendOK DEF Draft!ContactSaved
    <2> QED
      BY <1>3, <2>1, <2>3 DEF Draft!ContactSaved, DraftInv, Draft!Run
  <1>4. ASSUME NEW t \in Tabs, NEW effect \in BOOLEAN, Draft!ContactFails(t, effect)
        PROVE  DraftInv'
    <2>1. draftRun[t] \in Draft!Run /\ draftRun[t].to = draftWanted[t]
      BY <1>4 DEF Draft!ContactFails, DraftInv
    <2>2. PICK r \in Draft!AfterFailure(draftRun[t]) : draftRun' = [draftRun EXCEPT ![t] = r]
      BY <1>4 DEF Draft!ContactFails
    <2>3. r \in Draft!Run /\ r.to = draftWanted[t]
      BY <2>1, <2>2, FailureOK
    <2> QED
      BY <1>4, <2>2, <2>3 DEF Draft!ContactFails, DraftInv
  <1>5. ASSUME NEW t \in Tabs, NEW s \in Places, Draft!DraftReturns(t, s) PROVE DraftInv'
    <2>1. draftRun[t] \in Draft!Run /\ draftRun[t].to = draftWanted[t]
      BY <1>5 DEF Draft!DraftReturns, DraftInv
    <2>2. PICK r \in Draft!Run : r.to = draftRun[t].to /\ draftRun' = [draftRun EXCEPT ![t] = r]
      <3>1. ASSUME NEW r \in Draft!AfterFailure(draftRun[t])
            PROVE  r \in Draft!Run /\ r.to = draftRun[t].to
        BY <2>1, <3>1, FailureOK
      <3> DEFINE q == [draftRun[t] EXCEPT !.made = @ \cup {draftRun[t].job}]
      <3>2. q \in Draft!Run /\ q.to = draftRun[t].to
        BY <2>1 DEF Draft!Run
      <3>3. ASSUME NEW r \in Draft!Onward(q)
            PROVE  r \in Draft!Run /\ r.to = draftRun[t].to
        BY <3>2, <3>3, OnwardOK
      <3> HIDE DEF q
      <3>4. \/ \E r \in Draft!Onward(q) : draftRun' = [draftRun EXCEPT ![t] = r]
            \/ \E r \in Draft!AfterFailure(draftRun[t]) : draftRun' = [draftRun EXCEPT ![t] = r]
        BY <1>5 DEF Draft!DraftReturns, q
      <3> QED
        BY <3>1, <3>3, <3>4
    <2>3. draftCalls' \in [Places -> {Draft!Free} \cup ChosenCall]
      <3>1. draftCalls[s].tab = t /\ t # NoOne
        BY <1>5 DEF Draft!DraftReturns, PartsAssumption, Draft!DraftAssumption
      <3>2. draftCalls[s] \in ChosenCall
        BY <3>1 DEF DraftInv, Draft!Free
      <3>3. [draftCalls[s] EXCEPT !.tab = NoOne] \in ChosenCall
        BY <3>2 DEF ChosenCall
      <3> QED
        BY <1>5, <3>3 DEF Draft!DraftReturns, DraftInv
    <2> QED
      BY <1>5, <2>1, <2>2, <2>3 DEF Draft!DraftReturns, Draft!server, DraftInv
  <1>6. ASSUME NEW t \in Tabs, NEW j \in Jobs, Draft!DraftOne(t, j) PROVE DraftInv'
    <2>1. draftCalls' \in [Places -> {Draft!Free} \cup ChosenCall]
      BY <1>6, SendOK DEF Draft!DraftOne, DraftInv
    <2>2. draftRun[t] \in Draft!Run /\ draftRun[t].clicks + 1 \in 0..MaxClicks
      BY <1>6 DEF Draft!DraftOne, DraftInv, Draft!Run, PartsAssumption, Draft!DraftAssumption
    <2>3. /\ [draftRun[t] EXCEPT !.clicks = @ + 1] \in Draft!Run
          /\ [draftRun[t] EXCEPT !.clicks = @ + 1].at = draftRun[t].at
          /\ [draftRun[t] EXCEPT !.clicks = @ + 1].to = draftRun[t].to
      BY <2>2 DEF Draft!Run
    <2> QED
      BY <1>6, <2>1, <2>3 DEF Draft!DraftOne, Draft!server, DraftInv
  <1>7. ASSUME NEW j \in Jobs, Draft!Archive(j) PROVE DraftInv'
    BY <1>7 DEF Draft!Archive, DraftInv
  <1>8. ASSUME NEW j \in Jobs, NEW i \in DOMAIN draftRows[j], Draft!Review(j, i) PROVE DraftInv'
    <2>1. draftRows[j] \in Seq(ChosenRow) /\ draftRows[j][i] \in ChosenRow
      BY DEF DraftInv
    <2>2. PICK x \in {"drafted", "reviewed"} : draftRows' = [draftRows EXCEPT ![j][i].status = x]
      BY <1>8 DEF Draft!Review
    <2>3. [draftRows[j][i] EXCEPT !.status = x] \in ChosenRow
      BY <2>1 DEF ChosenRow, Draft!AppRow
    <2>4. [draftRows[j] EXCEPT ![i] = [draftRows[j][i] EXCEPT !.status = x]] \in Seq(ChosenRow)
      BY <2>1, <2>3, ExceptSeq, i \in 1..Len(draftRows[j])
    <2>5. draftRows' = [draftRows EXCEPT ![j] =
                          [draftRows[j] EXCEPT ![i] = [draftRows[j][i] EXCEPT !.status = x]]]
      BY <2>2
    <2>6. draftRows' \in [Jobs -> Seq(ChosenRow)]
      BY <2>4, <2>5 DEF DraftInv
    <2> QED
      BY <1>8, <2>6 DEF Draft!Review, DraftInv
  <1>9. ASSUME NEW s \in Places, Draft!Writes(s) PROVE DraftInv'
    <2> DEFINE j == draftCalls[s].job
               i == draftCalls[s].found
               row == [recipient |-> draftCalls[s].recipient, wanted |-> draftCalls[s].wanted,
                       status |-> "drafted"]
    <2>1. draftCalls[s] \in ChosenCall
      BY <1>9 DEF Draft!Writes, Draft!Moves, DraftInv, Draft!Free
    <2>2. row \in ChosenRow /\ j \in Jobs /\ i \in Nat
      BY <2>1 DEF ChosenCall, ChosenRow, Draft!AppRow
    <2>3. draftRows[j] \in Seq(ChosenRow)
      BY <2>2 DEF DraftInv
    <2>4. Append(draftRows[j], row) \in Seq(ChosenRow)
      BY <2>2, <2>3, AppendProperties
    <2>5. [draftRows[j] EXCEPT ![i] = row] \in Seq(ChosenRow)
      <3>1. CASE i \in 1..Len(draftRows[j])
        BY <2>2, <2>3, <3>1, ExceptSeq
      <3>2. CASE i \notin 1..Len(draftRows[j])
        <4>1. [draftRows[j] EXCEPT ![i] = row] = draftRows[j]
          BY <2>3, <3>2
        <4> QED
          BY <2>3, <4>1
      <3> QED
        BY <3>1, <3>2
    <2> HIDE DEF row
    <2>6. \/ draftRows' = [draftRows EXCEPT ![j] = Append(draftRows[j], row)]
          \/ draftRows' = [draftRows EXCEPT ![j] = [draftRows[j] EXCEPT ![i] = row]]
      BY <1>9 DEF Draft!Writes, Draft!Recipient, row
    <2>7. draftRows' \in [Jobs -> Seq(ChosenRow)]
      BY <2>4, <2>5, <2>6 DEF DraftInv
    <2>8. draftCalls' \in [Places -> {Draft!Free} \cup ChosenCall]
      BY <1>9, MovesOK DEF Draft!Writes, Draft!Moves
    <2> QED
      BY <1>9, <2>7, <2>8 DEF Draft!Writes, DraftInv
  <1>10. ASSUME NEW s \in Places, Draft!Looks(s) PROVE DraftInv'
    <2>1. draftCalls[s] \in ChosenCall
      BY <1>10 DEF Draft!Looks, DraftInv, Draft!Free
    <2>2. Draft!Drafted(draftCalls[s].job) \subseteq Nat
      <3>1. draftRows[draftCalls[s].job] \in Seq(ChosenRow)
        BY <2>1 DEF DraftInv, ChosenCall
      <3> QED
        BY <3>1 DEF Draft!Drafted
    <2>3. PICK i \in Nat : draftCalls' = [draftCalls EXCEPT ![s].step = "looked", ![s].found = i]
      BY <1>10, <2>2 DEF Draft!Looks
    <2>4. draftCalls' \in [Places -> {Draft!Free} \cup ChosenCall]
      BY <1>10, <2>3, MovesOK DEF Draft!Looks
    <2> QED
      BY <1>10, <2>4 DEF Draft!Looks, Draft!server, DraftInv
  <1>11. ASSUME NEW s \in Places, Draft!Generates(s) PROVE DraftInv'
    <2>1. draftCalls' \in [Places -> {Draft!Free} \cup ChosenCall]
      BY <1>11, MovesOK DEF Draft!Generates, Draft!Moves
    <2> QED
      BY <1>11, <2>1 DEF Draft!Generates, DraftInv
  <1>12. ASSUME NEW s \in Places,
                \/ Draft!Refuses(s) \/ Draft!GenerationFails(s) \/ Draft!Finishes(s)
                \/ Draft!Dies(s)
         PROVE  DraftInv'
    <2>1. Draft!Ends(s, "answered") \/ Draft!Ends(s, "refused")
      BY <1>12 DEF Draft!Refuses, Draft!GenerationFails, Draft!Finishes, Draft!Dies
    <2>2. draftCalls' \in [Places -> {Draft!Free} \cup ChosenCall]
      BY <2>1, EndsOK
    <2>3. UNCHANGED <<draftRows, draftPicked, draftRun, draftWanted>>
      BY <1>12 DEF Draft!Refuses, Draft!GenerationFails, Draft!Finishes, Draft!Dies, Draft!server
    <2> QED
      BY <2>2, <2>3 DEF DraftInv
  <1> QED
    BY <1>1, <1>2, <1>3, <1>4, <1>5, <1>6, <1>7, <1>8, <1>9, <1>10, <1>11, <1>12
       DEF Draft!Next, Draft!Proceed, Draft!Serve

-----------------------------------------------------------------------------
(* The contact search *)

\* What a loop has read after it saw the end of its search: leads of that search.
ReadAfterEnd(s) ==
    /\ searchPoll[s].seen = "" => \A j \in Jobs : searchPoll[s].rows[j] = NotRead
    /\ searchPoll[s].seen = "ended" =>
          /\ searchStatus[s] = "ended"
          /\ \A j \in Jobs :
                (searchPoll[s].rows[j] \notin {NotRead, Failed} /\ j \in searchStored[s])
                    => s \in searchPoll[s].rows[j]

SearchInv ==
    /\ Search!TypeOK
    /\ \A s \in Places : ReadAfterEnd(s)

\* A loop that has read nothing, or nothing new; one that has read one row more.
LEMMA NothingRead ==
  ASSUME NEW z \in Places, \A j \in Jobs : searchPoll'[z].rows[j] = NotRead,
         searchPoll'[z].seen = "ended" => searchStatus'[z] = "ended"
  PROVE  ReadAfterEnd(z)'
  BY DEF ReadAfterEnd

LEMMA ReadKept ==
  ASSUME NEW z \in Places, ReadAfterEnd(z), searchStored' = searchStored,
         searchPoll'[z].seen = searchPoll[z].seen, searchPoll'[z].rows = searchPoll[z].rows,
         searchStatus[z] = "ended" => searchStatus'[z] = "ended"
  PROVE  ReadAfterEnd(z)'
  BY DEF ReadAfterEnd

LEMMA OneRowRead ==
  ASSUME NEW z \in Places, NEW j \in Jobs, NEW answer, ReadAfterEnd(z),
         UNCHANGED <<searchStatus, searchStored>>,
         searchPoll[z].seen # "", searchPoll'[z].seen = searchPoll[z].seen,
         \A k \in Jobs : searchPoll'[z].rows[k] = IF k = j THEN answer
                                                  ELSE searchPoll[z].rows[k],
         j \in searchStored[z] /\ answer # Failed => z \in answer
  PROVE  ReadAfterEnd(z)'
  <1>1. ASSUME searchPoll'[z].seen = "ended", NEW k \in Jobs,
               searchPoll'[z].rows[k] \notin {NotRead, Failed}, k \in searchStored'[z]
        PROVE  z \in searchPoll'[z].rows[k]
    <2>1. CASE k = j
      BY <1>1, <2>1
    <2>2. CASE k # j
      <3>1. searchPoll'[z].rows[k] = searchPoll[z].rows[k]
        BY <2>2
      <3> QED
        BY <1>1, <3>1 DEF ReadAfterEnd
    <2> QED
      BY <2>1, <2>2
  <1>2. searchPoll'[z].seen = "ended" => searchStatus'[z] = "ended"
    BY DEF ReadAfterEnd
  <1> QED
    BY <1>1, <1>2 DEF ReadAfterEnd

LEMMA RoundsOK ==
  ASSUME PartsAssumption
  PROVE  MaxRounds \in Nat /\ MaxRounds >= 1 /\ 0 \in 0..(MaxRounds - 1)
  <1>1. MaxRounds \in Nat \ {0}
    BY DEF PartsAssumption, Search!SearchAssumption
  <1>2. MaxRounds \in Nat /\ MaxRounds # 0
    BY <1>1
  <1>3. MaxRounds >= 1
    BY <1>2
  <1> QED
    BY <1>2, <1>3

LEMMA RestingOK ==
  ASSUME PartsAssumption, NEW at \in {"none", "looping", "finished", "gave up"},
         NEW n \in 0..(MaxRounds - 1)
  PROVE  /\ Search!Resting \in Search!Loop
         /\ [Search!Resting EXCEPT !.at = at] \in Search!Loop
         /\ [Search!Resting EXCEPT !.at = at, !.attempt = n] \in Search!Loop
  <1>2. 0 \in 0..(MaxRounds - 1)
    BY RoundsOK
  <1>3. Search!NoRows \in [Jobs -> Search!Answer]
    BY DEF Search!NoRows, Search!Answer
  <1> QED
    BY <1>2, <1>3 DEF Search!Resting, Search!Loop

LEMMA SearchStarts == ASSUME PartsAssumption, Search!Init PROVE SearchInv
  <1>1. 0 \in 0..(MaxRounds - 1)
    BY RoundsOK
  <1>2. Search!TypeOK
    BY <1>1, RestingOK DEF Search!Init, Search!TypeOK
  <1>3. \A s \in Places : ReadAfterEnd(s)
    BY DEF Search!Init, ReadAfterEnd, Search!Resting, Search!NoRows
  <1> QED
    BY <1>2, <1>3 DEF SearchInv

\* The end of a round.
LEMMA RoundEnds ==
  ASSUME PartsAssumption, SearchInv, NEW s \in Places, Search!EndRound(s)
  PROVE  /\ SearchInv'
         /\ \A j \in searchTarget[s] :
               (/\ searchPoll'[s].at = "finished"
                /\ searchPoll[s].rows[j] # Failed /\ j \in searchStored[s])
               => s \in searchShown'[j]
         /\ \A z \in Places \ {s} : searchPoll'[z] = searchPoll[z]
  <1>0. MaxRounds \in Nat /\ MaxRounds >= 1 /\ 0 \in 0..(MaxRounds - 1)
    BY RoundsOK
  <1>1. /\ searchPoll[s] \in Search!Loop /\ searchTarget[s] \subseteq Jobs
        /\ searchShown \in [Jobs -> SUBSET Places]
        /\ searchPoll \in [Places -> Search!Loop]
        /\ ReadAfterEnd(s)
    BY DEF SearchInv, Search!TypeOK
  <1>2. PICK p \in Search!Loop :
            /\ searchPoll' = [searchPoll EXCEPT ![s] = p]
            /\ p.at = "finished" => searchPoll[s].seen = "ended"
            /\ p.seen = "" /\ p.rows = Search!NoRows
    <2> DEFINE r == Search!Resting
    <2>1. /\ r = [at |-> "none", attempt |-> 0, seen |-> "", rows |-> Search!NoRows]
      BY DEF Search!Resting
    <2>2. \A at \in {"none", "looping", "finished", "gave up"} :
              [r EXCEPT !.at = at] \in Search!Loop
      BY <1>0, RestingOK
    <2>3. CASE searchPoll[s].seen = "ended"
      <3>1. searchPoll' = [searchPoll EXCEPT ![s] = [r EXCEPT !.at = "finished"]]
        BY <2>3 DEF Search!EndRound
      <3> QED
        BY <2>1, <2>2, <2>3, <3>1
    <2>4. CASE searchPoll[s].seen # "ended" /\ Search!LastRound(s)
      <3>1. searchPoll' = [searchPoll EXCEPT ![s] = [r EXCEPT !.at = "gave up"]]
        BY <2>4 DEF Search!EndRound
      <3> QED
        BY <2>1, <2>2, <3>1
    <2>5. CASE searchPoll[s].seen # "ended" /\ ~Search!LastRound(s)
      <3>1. searchPoll' = [searchPoll EXCEPT ![s] =
                              [r EXCEPT !.at = "looping", !.attempt = searchPoll[s].attempt + 1]]
        BY <2>5 DEF Search!EndRound, Search!Attempt
      <3>2. searchPoll[s].attempt + 1 \in 0..(MaxRounds - 1)
        <4>1. /\ searchPoll[s].attempt \in 0..(MaxRounds - 1)
              /\ searchPoll[s].attempt + 1 # MaxRounds
          BY <1>1, <2>5 DEF Search!Loop, Search!LastRound, Search!Attempt
        <4> QED
          BY <1>0, <4>1
      <3>3. [r EXCEPT !.at = "looping", !.attempt = searchPoll[s].attempt + 1] \in Search!Loop
        BY <3>2, RestingOK
      <3> QED
        BY <2>1, <3>1, <3>3
    <2> QED
      BY <2>3, <2>4, <2>5
  <1>3. \A z \in Places : searchPoll'[z] = IF z = s THEN p ELSE searchPoll[z]
    BY <1>1, <1>2
  <1>4. UNCHANGED <<searchStatus, searchTarget, searchStored>>
    BY DEF Search!EndRound
  <1>5. \A j \in Jobs : searchShown'[j] = IF searchPoll[s].rows[j] \in {NotRead, Failed}
                                          THEN searchShown[j] ELSE searchPoll[s].rows[j]
    BY DEF Search!EndRound
  <1>6. searchShown' \in [Jobs -> SUBSET Places]
    <2>1. \A j \in Jobs : searchPoll[s].rows[j] \in {NotRead, Failed} \cup SUBSET Places
      BY <1>1 DEF Search!Loop, Search!Answer
    <2>2. \A j \in Jobs : searchShown'[j] \in SUBSET Places
      BY <1>1, <1>5, <2>1
    <2>3. searchShown' = [j \in Jobs |-> searchShown'[j]]
      BY DEF Search!EndRound
    <2> QED
      BY <2>2, <2>3
  <1>7. Search!TypeOK'
    BY <1>1, <1>2, <1>4, <1>6 DEF SearchInv, Search!TypeOK
  <1>8. \A z \in Places : ReadAfterEnd(z)'
    <2>1. ASSUME NEW z \in Places PROVE ReadAfterEnd(z)'
      <3>1. ReadAfterEnd(z)
        BY DEF SearchInv
      <3>2. CASE z = s
        <4>1. searchPoll'[z].seen = "" /\ searchPoll'[z].rows = Search!NoRows
          BY <1>2, <1>3, <3>2
        <4>2. \A j \in Jobs : Search!NoRows[j] = NotRead
          BY DEF Search!NoRows
        <4> QED
          BY <4>1, <4>2, NothingRead
      <3>3. CASE z # s
        <4>1. searchPoll'[z] = searchPoll[z]
          BY <1>3, <3>3
        <4> QED
          BY <1>4, <3>1, <4>1 DEF ReadAfterEnd
      <3> QED
        BY <3>2, <3>3
    <2> QED
      BY <2>1
  <1>9. ASSUME NEW j \in searchTarget[s], searchPoll'[s].at = "finished",
               searchPoll[s].rows[j] # Failed, j \in searchStored[s]
        PROVE  s \in searchShown'[j]
    <2>1. searchPoll[s].seen = "ended"
      BY <1>2, <1>3, <1>9
    <2>2. searchPoll[s].rows[j] # NotRead
      BY DEF Search!EndRound, Search!AllRead
    <2> QED
      BY <1>1, <1>5, <1>9, <2>1, <2>2 DEF ReadAfterEnd
  <1> QED
    BY <1>3, <1>7, <1>8, <1>9 DEF SearchInv

\* The other steps: none of them ends a loop.
LEMMA SearchGoesOn ==
  ASSUME PartsAssumption, SearchInv, NEW s \in Places,
         \/ Search!Starts(s) \/ Search!Stores(s) \/ Search!Leaves(s) \/ Search!ReadStatus(s)
         \/ \E j \in Jobs : Search!ReadRow(s, j)
         \/ \E chosen \in SUBSET Jobs, heard \in BOOLEAN : Search!FindContacts(s, chosen, heard)
  PROVE  /\ SearchInv'
         /\ \A z \in Places : searchPoll'[z].at = "finished" => searchPoll[z].at = "finished"
  <1> USE DEF SearchInv
  <1>1. CASE Search!Starts(s)
    BY <1>1 DEF Search!Starts, Search!TypeOK, ReadAfterEnd
  <1>2. CASE Search!Stores(s)
    <2>1. PICK found \in SUBSET searchTarget[s] :
              searchStored' = [searchStored EXCEPT ![s] = @ \cup found]
      BY <1>2 DEF Search!Stores
    <2>2. searchStored[s] \cup found \in SUBSET Jobs
      BY DEF Search!TypeOK
    <2>3. Search!TypeOK'
      BY <1>2, <2>1, <2>2 DEF Search!Stores, Search!TypeOK
    <2>4. ASSUME NEW z \in Places PROVE ReadAfterEnd(z)'
      <3>1. ReadAfterEnd(z) /\ UNCHANGED <<searchPoll, searchStatus>>
        BY <1>2 DEF Search!Stores
      <3>2. CASE z = s
        <4>1. searchPoll[z].seen # "ended"
          BY <1>2, <3>1, <3>2 DEF Search!Stores, ReadAfterEnd
        <4> QED
          BY <3>1, <4>1 DEF ReadAfterEnd
      <3>3. CASE z # s
        <4>1. searchStored'[z] = searchStored[z]
          BY <2>1, <3>3 DEF Search!TypeOK
        <4> QED
          BY <3>1, <4>1 DEF ReadAfterEnd
      <3> QED
        BY <3>2, <3>3
    <2> QED
      BY <1>2, <2>3, <2>4 DEF Search!Stores
  <1>3. CASE Search!Leaves(s)
    <2>1. UNCHANGED <<searchTarget, searchStored, searchShown, searchPoll>>
      BY <1>3 DEF Search!Leaves
    <2>2. PICK x \in {"ended", "queued"} :
              /\ searchStatus' = [searchStatus EXCEPT ![s] = x]
              /\ searchStatus[s] # "ended"
      BY <1>3 DEF Search!Leaves
    <2>3. Search!TypeOK'
      BY <2>1, <2>2 DEF Search!TypeOK
    <2>4. \A z \in Places : searchStatus[z] = "ended" => searchStatus'[z] = "ended"
      BY <2>2 DEF Search!TypeOK
    <2>5. \A z \in Places : ReadAfterEnd(z)'
      BY <2>1, <2>4, ReadKept
    <2> QED
      BY <2>1, <2>3, <2>5
  <1>4. CASE Search!ReadStatus(s)
    <2>1. PICK x \in {"ended", "going on"} :
              /\ searchPoll' = [searchPoll EXCEPT ![s].seen = x]
              /\ x = "ended" => searchStatus[s] = "ended"
      BY <1>4 DEF Search!ReadStatus
    <2>2. /\ searchPoll[s] \in Search!Loop
          /\ [searchPoll[s] EXCEPT !.seen = x] \in Search!Loop
      BY DEF Search!TypeOK, Search!Loop
    <2>3. searchPoll' \in [Places -> Search!Loop]
      BY <2>1, <2>2 DEF Search!TypeOK
    <2>4. \A z \in Places : /\ searchPoll'[z].at = searchPoll[z].at
                           /\ searchPoll'[z].rows = searchPoll[z].rows
                           /\ searchPoll'[z].seen = IF z = s THEN x ELSE searchPoll[z].seen
      BY <2>1, <2>2 DEF Search!TypeOK, Search!Loop
    <2>5. \A j \in Jobs : searchPoll[s].rows[j] = NotRead
      BY <1>4 DEF Search!ReadStatus, ReadAfterEnd
    <2>6. \A z \in Places : ReadAfterEnd(z)'
      <3>1. UNCHANGED <<searchStatus, searchStored>>
        BY <1>4 DEF Search!ReadStatus
      <3>2. ASSUME NEW z \in Places PROVE ReadAfterEnd(z)'
        <4>0. ReadAfterEnd(z)
          OBVIOUS
        <4>1. CASE z = s
          <5>1. searchPoll'[z].seen = x /\ searchPoll'[z].rows = searchPoll[z].rows
            BY <2>4, <4>1
          <5> QED
            BY <2>1, <2>5, <3>1, <4>1, <5>1, NothingRead
        <4>2. CASE z # s
          <5>1. /\ searchPoll'[z].seen = searchPoll[z].seen
                /\ searchPoll'[z].rows = searchPoll[z].rows
            BY <2>4, <4>2
          <5> QED
            BY <3>1, <4>0, <5>1, ReadKept
        <4> QED
          BY <4>1, <4>2
      <3> QED
        BY <3>2
    <2> QED
      BY <1>4, <2>3, <2>4, <2>6 DEF Search!ReadStatus, Search!TypeOK
  <1>5. ASSUME NEW j \in Jobs, Search!ReadRow(s, j)
        PROVE  /\ SearchInv'
               /\ \A z \in Places : searchPoll'[z].at = "finished" => searchPoll[z].at = "finished"
    <2>1. PICK answer \in {Search!Contacts(j), Failed} :
              searchPoll' = [searchPoll EXCEPT ![s].rows[j] = answer]
      BY <1>5 DEF Search!ReadRow
    <2>2. answer \in Search!Answer
      BY DEF Search!Answer, Search!Contacts
    <2>3. /\ searchPoll[s] \in Search!Loop
          /\ [searchPoll[s].rows EXCEPT ![j] = answer] \in [Jobs -> Search!Answer]
      BY <2>2 DEF Search!TypeOK, Search!Loop
    <2> DEFINE q == [searchPoll[s] EXCEPT !.rows = [searchPoll[s].rows EXCEPT ![j] = answer]]
    <2>4. /\ q \in Search!Loop /\ q.at = searchPoll[s].at /\ q.seen = searchPoll[s].seen
          /\ q.rows = [searchPoll[s].rows EXCEPT ![j] = answer]
      BY <2>3 DEF Search!Loop
    <2>5. searchPoll' = [searchPoll EXCEPT ![s] = q]
      BY <2>1
    <2> HIDE DEF q
    <2>6. searchPoll' \in [Places -> Search!Loop]
      BY <2>4, <2>5 DEF Search!TypeOK
    <2>7. \A z \in Places : searchPoll'[z] = IF z = s THEN q ELSE searchPoll[z]
      BY <2>5 DEF Search!TypeOK
    <2>8. \A k \in Jobs : q.rows[k] = IF k = j THEN answer ELSE searchPoll[s].rows[k]
      BY <2>3, <2>4 DEF Search!Loop
    <2>9. j \in searchStored[s] /\ answer # Failed => s \in answer
      BY <2>1 DEF Search!Contacts
    <2>10. \A z \in Places : ReadAfterEnd(z)'
      <3>1. UNCHANGED <<searchStatus, searchStored>> /\ searchPoll[s].seen # ""
        BY <1>5 DEF Search!ReadRow, Search!RowsAfter
      <3>2. ASSUME NEW z \in Places PROVE ReadAfterEnd(z)'
        <4>0. ReadAfterEnd(z)
          OBVIOUS
        <4>1. CASE z = s
          <5>1. searchPoll'[z] = q
            BY <2>7, <4>1
          <5>2. /\ searchPoll'[z].seen = searchPoll[z].seen
                /\ \A k \in Jobs : searchPoll'[z].rows[k] = IF k = j THEN answer
                                                           ELSE searchPoll[z].rows[k]
            BY <2>4, <2>8, <4>1, <5>1
          <5>3. /\ searchPoll[z].seen # ""
                /\ j \in searchStored[z] /\ answer # Failed => z \in answer
            BY <2>9, <3>1, <4>1
          <5> QED
            BY <3>1, <4>0, <5>2, <5>3, OneRowRead
        <4>2. CASE z # s
          <5>1. searchPoll'[z] = searchPoll[z]
            BY <2>7, <4>2
          <5> QED
            BY <3>1, <4>0, <5>1, ReadKept
        <4> QED
          BY <4>1, <4>2
      <3> QED
        BY <3>2
    <2> QED
      BY <1>5, <2>6, <2>7, <2>10 DEF Search!ReadRow, Search!TypeOK
  <1>6. ASSUME NEW chosen \in SUBSET Jobs, NEW heard \in BOOLEAN,
               Search!FindContacts(s, chosen, heard)
        PROVE  /\ SearchInv'
               /\ \A z \in Places : searchPoll'[z].at = "finished" => searchPoll[z].at = "finished"
    <2>1. PICK x \in {"looping", "none"} : searchPoll' = [searchPoll EXCEPT ![s].at = x]
      BY <1>6 DEF Search!FindContacts
    <2>2. /\ searchPoll[s] \in Search!Loop
          /\ [searchPoll[s] EXCEPT !.at = x] \in Search!Loop
      BY DEF Search!TypeOK, Search!Loop
    <2>3. searchPoll' \in [Places -> Search!Loop]
      BY <2>1, <2>2 DEF Search!TypeOK
    <2>4. \A z \in Places : /\ searchPoll'[z].rows = searchPoll[z].rows
                           /\ searchPoll'[z].seen = searchPoll[z].seen
                           /\ searchPoll'[z].at = IF z = s THEN x ELSE searchPoll[z].at
      BY <2>1, <2>2 DEF Search!TypeOK, Search!Loop
    <2>5. searchShown' \in [Jobs -> SUBSET Places]
      <3>1. CASE heard
        BY <1>6, <3>1 DEF Search!FindContacts, Search!Contacts, Search!TypeOK
      <3>2. CASE ~heard
        BY <1>6, <3>2 DEF Search!FindContacts, Search!TypeOK
      <3> QED
        BY <3>1, <3>2
    <2>6. Search!TypeOK'
      BY <1>6, <2>3, <2>5 DEF Search!FindContacts, Search!TypeOK
    <2>7. \A z \in Places : ReadAfterEnd(z)'
      <3>1. /\ searchStatus[s] # "ended" /\ UNCHANGED searchStored
            /\ \A z \in Places : z # s => searchStatus'[z] = searchStatus[z]
        BY <1>6 DEF Search!FindContacts, Search!TypeOK
      <3>2. ASSUME NEW z \in Places PROVE ReadAfterEnd(z)'
        <4>0. /\ ReadAfterEnd(z)
              /\ searchPoll'[z].seen = searchPoll[z].seen
              /\ searchPoll'[z].rows = searchPoll[z].rows
          BY <2>4
        <4>1. CASE z = s
          BY <3>1, <4>0, <4>1 DEF ReadAfterEnd
        <4>2. CASE z # s
          BY <3>1, <4>0, <4>2 DEF ReadAfterEnd
        <4> QED
          BY <4>1, <4>2
      <3> QED
        BY <3>2
    <2> QED
      BY <2>4, <2>6, <2>7
  <1> QED
    BY <1>1, <1>2, <1>3, <1>4, <1>5, <1>6

LEMMA SearchStep ==
  ASSUME PartsAssumption, SearchInv, Search!Next
  PROVE  /\ SearchInv'
         /\ \A s \in Places :
               (searchPoll[s].at = "looping" /\ searchPoll'[s].at = "finished")
               => \A j \in searchTarget[s] :
                     (searchPoll[s].rows[j] # Failed /\ j \in searchStored[s])
                     => s \in searchShown'[j]
  <1>1. PICK s \in Places :
            \/ Search!EndRound(s)
            \/ Search!Starts(s) \/ Search!Stores(s) \/ Search!Leaves(s) \/ Search!ReadStatus(s)
            \/ \E j \in Jobs : Search!ReadRow(s, j)
            \/ \E chosen \in SUBSET Jobs, heard \in BOOLEAN : Search!FindContacts(s, chosen, heard)
    BY DEF Search!Next, Search!PollStep
  <1>2. CASE Search!EndRound(s)
    BY <1>2, RoundEnds
  <1>3. CASE ~Search!EndRound(s)
    BY <1>1, <1>3, SearchGoesOn
  <1> QED
    BY <1>2, <1>3

-----------------------------------------------------------------------------
(* The review of captured forms *)

\* The requests, with the answers they carry.
CallsOK ==
    /\ answersCalls \in [Places -> Answers!Call \cup {Answers!Free}]
    /\ answersPanel \in [FewTabs -> Answers!Revs \cup {Nil}]
    /\ answersAnswers \in [FewTabs -> Answers!Answers]
    /\ answersSelected \in [FewTabs -> Apps \cup {Nil}]
    /\ answersLatest \in [Apps -> 0..MaxScans]
    /\ answersScans \in [Apps -> 0..MaxScans]
    /\ \A a \in Apps : answersScans[a] + answersLatest[a] <= MaxScans
    /\ answersSealed \in [Answers!Revs -> Answers!Answers \cup {Nil}]
    /\ \A s \in Places : (answersCalls[s] # Answers!Free /\ answersCalls[s].kind # "open")
                            => answersCalls[s].rev \in Answers!Revs

IsApproval(call) ==
    call # Answers!Free /\ call.kind = "approve" /\ call.reply = "ok"

\* An approval that was answered with success is sealed before its answer lands.
AnsweredIsSealed ==
    \A s \in Places : IsApproval(answersCalls[s]) =>
        answersSealed[answersCalls[s].rev] = answersCalls[s].answers

AnswersInv ==
    /\ CallsOK
    /\ AnsweredIsSealed
    /\ answersTold \in SUBSET (Answers!Revs \X Answers!Answers)
    /\ Answers!ToldMeansSealed

LEMMA AnswersStarts == ASSUME PartsAssumption, Answers!Init PROVE AnswersInv
  <1> USE DEF Answers!Init
  <1>1. MaxScans \in Nat
    BY DEF PartsAssumption, Answers!ReviewAssumption
  <1>2. CallsOK
    BY <1>1 DEF CallsOK, Answers!Blank, Answers!Answers
  <1>3. AnsweredIsSealed
    BY DEF AnsweredIsSealed, IsApproval
  <1> QED
    BY <1>2, <1>3 DEF AnswersInv, Answers!ToldMeansSealed

\* A sealed revision stays as it was sealed.
LEMMA SealedStays ==
  ASSUME AnswersInv, Answers!Next
  PROVE  \A r \in Answers!Revs : answersSealed[r] # Nil => answersSealed'[r] = answersSealed[r]
  <1>1. ASSUME NEW s \in Places, Answers!ServeApprove(s)
        PROVE  \A r \in Answers!Revs :
                  answersSealed[r] # Nil => answersSealed'[r] = answersSealed[r]
    BY <1>1 DEF Answers!ServeApprove, AnswersInv, CallsOK
  <1>2. CASE UNCHANGED answersSealed
    BY <1>2
  <1> QED
    BY <1>1, <1>2 DEF Answers!Next, Answers!Scan, Answers!Scanned, Answers!OpenReview, Answers!Edit,
       Answers!Close, Answers!Suggest, Answers!Approve, Answers!ServeOpen, Answers!ServeSuggest,
       Answers!OpenLands, Answers!SuggestionsLand, Answers!ApprovalLands, Answers!Fails,
       Answers!server

\* A step changes one request at most.
Becomes(s, call) == answersCalls' = [answersCalls EXCEPT ![s] = call]

\* Asking again, or an answer to anything but an approval, leaves what is sealed true.
LEMMA CallBecomes ==
  ASSUME PartsAssumption, AnswersInv, Answers!Next, NEW s \in Places, NEW call, Becomes(s, call),
         IsApproval(call) => answersSealed'[call.rev] = call.answers
  PROVE  AnsweredIsSealed'
  <1>1. ASSUME NEW z \in Places, IsApproval(answersCalls'[z])
        PROVE  answersSealed'[answersCalls'[z].rev] = answersCalls'[z].answers
    <2>1. CASE z = s
      <3>1. answersCalls'[z] = call
        BY <2>1 DEF Becomes, AnswersInv, CallsOK
      <3> QED
        BY <1>1, <3>1
    <2>2. CASE z # s
      <3>1. answersCalls'[z] = answersCalls[z]
        BY <2>2 DEF Becomes, AnswersInv, CallsOK
      <3>2. IsApproval(answersCalls[z])
        BY <1>1, <3>1
      <3>3. /\ answersCalls[z] \in Answers!Call
            /\ answersCalls[z].rev \in Answers!Revs
            /\ answersSealed[answersCalls[z].rev] = answersCalls[z].answers
        BY <3>2 DEF IsApproval, AnswersInv, CallsOK, AnsweredIsSealed
      <3>4. answersCalls[z].answers # Nil
        BY <3>3 DEF Answers!Call, PartsAssumption, Answers!ReviewAssumption
      <3> QED
        BY <3>1, <3>3, <3>4, SealedStays
    <2> QED
      BY <2>1, <2>2
  <1> QED
    BY <1>1 DEF AnsweredIsSealed

\* What a page was told stays true.
LEMMA ToldStays ==
  ASSUME PartsAssumption, AnswersInv, Answers!Next, UNCHANGED answersTold
  PROVE  /\ answersTold' \in SUBSET (Answers!Revs \X Answers!Answers)
         /\ Answers!ToldMeansSealed'
  <1>1. ASSUME NEW x \in answersTold
        PROVE  answersSealed'[x[1]] = x[2]
    <2>1. x[1] \in Answers!Revs /\ x[2] \in Answers!Answers /\ answersSealed[x[1]] = x[2]
      BY DEF AnswersInv, Answers!ToldMeansSealed
    <2>2. x[2] # Nil
      BY <2>1 DEF PartsAssumption, Answers!ReviewAssumption
    <2> QED
      BY <2>1, <2>2, SealedStays
  <1> QED
    BY <1>1 DEF AnswersInv, Answers!ToldMeansSealed

LEMMA AskedIsOK ==
  ASSUME AnswersInv, NEW kind \in {"open", "suggest", "approve"}, NEW t \in FewTabs,
         NEW a \in Apps, NEW r \in Answers!Revs \cup {Nil},
         kind # "open" => r \in Answers!Revs, Answers!Ask(kind, t, a, r)
  PROVE  \E s \in Places, call \in Answers!Call :
            /\ Becomes(s, call)
            /\ ~IsApproval(call)
            /\ call.kind # "open" => call.rev \in Answers!Revs
  <1>1. PICK s \in Places :
            answersCalls' = [answersCalls EXCEPT ![s] =
               [kind |-> kind, tab |-> t, app |-> a, rev |-> r,
                answers |-> answersAnswers[t], reply |-> ""]]
    BY DEF Answers!Ask
  <1> DEFINE call == [kind |-> kind, tab |-> t, app |-> a, rev |-> r,
                      answers |-> answersAnswers[t], reply |-> ""]
  <1>2. call \in Answers!Call
    BY DEF AnswersInv, CallsOK, Answers!Call, Answers!Reply
  <1> QED
    BY <1>1, <1>2 DEF Becomes, IsApproval

\* A request becomes one that is well formed and not a false success.
LEMMA BecomesOK ==
  ASSUME PartsAssumption, AnswersInv, Answers!Next,
         NEW s \in Places, NEW call \in Answers!Call \cup {Answers!Free}, Becomes(s, call),
         (call # Answers!Free /\ call.kind # "open") => call.rev \in Answers!Revs,
         IsApproval(call) => answersSealed'[call.rev] = call.answers
  PROVE  /\ answersCalls' \in [Places -> Answers!Call \cup {Answers!Free}]
         /\ \A z \in Places : (answersCalls'[z] # Answers!Free /\ answersCalls'[z].kind # "open")
                                => answersCalls'[z].rev \in Answers!Revs
         /\ AnsweredIsSealed'
  <1>1. answersCalls \in [Places -> Answers!Call \cup {Answers!Free}]
    BY DEF AnswersInv, CallsOK
  <1>2. /\ answersCalls' \in [Places -> Answers!Call \cup {Answers!Free}]
        /\ answersCalls'[s] = call
        /\ \A z \in Places : z # s => answersCalls'[z] = answersCalls[z]
    BY <1>1 DEF Becomes
  <1>3. ASSUME NEW z \in Places, answersCalls'[z] # Answers!Free, answersCalls'[z].kind # "open"
        PROVE  answersCalls'[z].rev \in Answers!Revs
    <2>1. CASE z = s
      BY <1>2, <1>3, <2>1
    <2>2. CASE z # s
      BY <1>2, <1>3, <2>2 DEF AnswersInv, CallsOK
    <2> QED
      BY <2>1, <2>2
  <1> QED
    BY <1>2, <1>3, CallBecomes

\* With the requests unchanged, only the rows count.
LEMMA CallsStay ==
  ASSUME PartsAssumption, AnswersInv, Answers!Next, UNCHANGED answersCalls
  PROVE  AnsweredIsSealed'
  <1>1. ASSUME NEW z \in Places, IsApproval(answersCalls[z])
        PROVE  answersSealed'[answersCalls[z].rev] = answersCalls[z].answers
    <2>1. /\ answersCalls[z] \in Answers!Call
          /\ answersCalls[z].rev \in Answers!Revs
          /\ answersSealed[answersCalls[z].rev] = answersCalls[z].answers
      BY <1>1 DEF IsApproval, AnswersInv, CallsOK, AnsweredIsSealed
    <2>2. answersCalls[z].answers # Nil
      BY <2>1 DEF Answers!Call, PartsAssumption, Answers!ReviewAssumption
    <2> QED
      BY <2>1, <2>2, SealedStays
  <1> QED
    BY <1>1 DEF AnsweredIsSealed

LEMMA AnswersStep == ASSUME PartsAssumption, AnswersInv, Answers!Next PROVE AnswersInv'
  <1> USE DEF AnswersInv
  <1>0. MaxScans \in Nat
    BY DEF PartsAssumption, Answers!ReviewAssumption
  <1>1. ASSUME NEW a \in Apps, Answers!Scan(a) PROVE AnswersInv'
    <2>1. CallsOK'
      BY <1>0, <1>1 DEF Answers!Scan, Answers!screen, CallsOK
    <2> QED
      BY <1>1, <2>1, ToldStays, CallsStay DEF Answers!Scan, Answers!screen
  <1>2. ASSUME NEW a \in Apps, Answers!Scanned(a) PROVE AnswersInv'
    <2>1. CallsOK'
      BY <1>0, <1>2 DEF Answers!Scanned, Answers!screen, CallsOK
    <2> QED
      BY <1>2, <2>1, ToldStays, CallsStay DEF Answers!Scanned, Answers!screen
  <1>3. ASSUME NEW t \in FewTabs, NEW a \in Apps, Answers!OpenReview(t, a) PROVE AnswersInv'
    <2>1. PICK s \in Places, call \in Answers!Call :
             /\ Becomes(s, call) /\ ~IsApproval(call)
             /\ call.kind # "open" => call.rev \in Answers!Revs
      BY <1>3, AskedIsOK DEF Answers!OpenReview
    <2>2. CallsOK' /\ AnsweredIsSealed'
      BY <1>3, <2>1, BecomesOK DEF Answers!OpenReview, Answers!server, CallsOK
    <2> QED
      BY <1>3, <2>2, ToldStays DEF Answers!OpenReview
  <1>4. ASSUME NEW t \in FewTabs, NEW x \in Texts, Answers!Edit(t, x) PROVE AnswersInv'
    <2>1. answersAnswers' \in [FewTabs -> Answers!Answers]
      BY <1>4 DEF Answers!Edit, CallsOK, Answers!Answers
    <2>2. CallsOK'
      BY <1>4, <2>1 DEF Answers!Edit, Answers!server, CallsOK
    <2> QED
      BY <1>4, <2>2, ToldStays, CallsStay DEF Answers!Edit
  <1>5. ASSUME NEW t \in FewTabs, Answers!Close(t) PROVE AnswersInv'
    <2>1. CallsOK'
      BY <1>5 DEF Answers!Close, Answers!server, CallsOK
    <2> QED
      BY <1>5, <2>1, ToldStays, CallsStay DEF Answers!Close
  <1>6. ASSUME NEW t \in FewTabs, Answers!Suggest(t) \/ Answers!Approve(t) PROVE AnswersInv'
    <2>1. answersPanel[t] \in Answers!Revs /\ Answers!App(answersPanel[t]) \in Apps
      BY <1>6 DEF Answers!Suggest, Answers!Approve, CallsOK, Answers!Revs, Answers!App
    <2>2. PICK s \in Places, call \in Answers!Call :
             /\ Becomes(s, call) /\ ~IsApproval(call)
             /\ call.kind # "open" => call.rev \in Answers!Revs
      BY <1>6, <2>1, AskedIsOK DEF Answers!Suggest, Answers!Approve
    <2>3. CallsOK' /\ AnsweredIsSealed'
      BY <1>6, <2>2, BecomesOK
         DEF Answers!Suggest, Answers!Approve, Answers!server, Answers!screen, CallsOK
    <2> QED
      BY <1>6, <2>3, ToldStays DEF Answers!Suggest, Answers!Approve
  <1>7. ASSUME NEW s \in Places, Answers!ServeOpen(s) PROVE AnswersInv'
    <2> DEFINE r == Answers!Newest(answersCalls[s].app)
               call == [answersCalls[s] EXCEPT !.reply = "ok", !.rev = r,
                          !.answers = IF r = Nil THEN Answers!Blank ELSE Answers!Stored(r)]
    <2>1. answersCalls[s] \in Answers!Call /\ answersCalls[s].kind = "open"
      BY <1>7 DEF Answers!ServeOpen, Answers!Arrived, CallsOK
    <2>2. r \in Answers!Revs \cup {Nil}
      BY <1>0, <2>1 DEF Answers!Newest, CallsOK, Answers!Call, Answers!Revs
    <2>3. r # Nil => Answers!Stored(r) \in Answers!Answers
      BY <2>2 DEF Answers!Stored, CallsOK, Answers!Captured, Answers!Answers
    <2>4. Answers!Blank \in Answers!Answers
      BY DEF Answers!Blank, Answers!Answers
    <2>5. call \in Answers!Call /\ call.kind = "open"
      BY <2>1, <2>2, <2>3, <2>4 DEF Answers!Call, Answers!Reply
    <2>6. Becomes(s, call)
      BY <1>7, <2>1 DEF Answers!ServeOpen, Becomes, Answers!Call, CallsOK
    <2>7. CallsOK' /\ AnsweredIsSealed'
      BY <1>7, <2>5, <2>6, BecomesOK
         DEF Answers!ServeOpen, Answers!server, Answers!screen, CallsOK, IsApproval
    <2> QED
      BY <1>7, <2>7, ToldStays DEF Answers!ServeOpen
  <1>8. ASSUME NEW s \in Places, Answers!ServeSuggest(s) PROVE AnswersInv'
    <2>1. /\ answersCalls[s] \in Answers!Call /\ answersCalls[s].kind = "suggest"
          /\ answersCalls[s].rev \in Answers!Revs
      BY <1>8 DEF Answers!ServeSuggest, Answers!Arrived, CallsOK
    <2>2. PICK call \in Answers!Call :
             Becomes(s, call) /\ call.kind = "suggest" /\ call.rev = answersCalls[s].rev
      <3>1. CASE Answers!Answer(s, "refused")
        <4> DEFINE call == [answersCalls[s] EXCEPT !.reply = "refused"]
        <4>1. call \in Answers!Call /\ call.kind = "suggest" /\ call.rev = answersCalls[s].rev
          BY <2>1 DEF Answers!Call, Answers!Reply
        <4>2. Becomes(s, call)
          BY <3>1 DEF Answers!Answer, Becomes
        <4> QED
          BY <4>1, <4>2
      <3>2. ASSUME NEW x \in Texts,
                   answersCalls' = [answersCalls EXCEPT ![s].reply = "ok",
                       ![s].answers = [from |-> {answersCalls[s].rev}, text |-> x]]
            PROVE  \E call \in Answers!Call :
                      Becomes(s, call) /\ call.kind = "suggest" /\ call.rev = answersCalls[s].rev
        <4> DEFINE call == [answersCalls[s] EXCEPT !.reply = "ok",
                              !.answers = [from |-> {answersCalls[s].rev}, text |-> x]]
        <4>1. [from |-> {answersCalls[s].rev}, text |-> x] \in Answers!Answers
          BY <2>1 DEF Answers!Answers
        <4>2. call \in Answers!Call /\ call.kind = "suggest" /\ call.rev = answersCalls[s].rev
          BY <2>1, <4>1 DEF Answers!Call, Answers!Reply
        <4>3. Becomes(s, call)
          BY <3>2, <2>1 DEF Becomes, Answers!Call, CallsOK
        <4> QED
          BY <4>2, <4>3
      <3> QED
        BY <1>8, <3>1, <3>2 DEF Answers!ServeSuggest
    <2>3. CallsOK' /\ AnsweredIsSealed'
      BY <1>8, <2>1, <2>2, BecomesOK
         DEF Answers!ServeSuggest, Answers!server, Answers!screen, CallsOK, IsApproval
    <2> QED
      BY <1>8, <2>3, ToldStays DEF Answers!ServeSuggest
  <1>9. ASSUME NEW s \in Places, Answers!ServeApprove(s) PROVE AnswersInv'
    <2> DEFINE r == answersCalls[s].rev
    <2>1. /\ answersCalls[s] \in Answers!Call /\ answersCalls[s].kind = "approve"
          /\ r \in Answers!Revs /\ answersCalls[s].answers \in Answers!Answers
      BY <1>9 DEF Answers!ServeApprove, Answers!Arrived, CallsOK, Answers!Call
    <2>2. /\ answersSealed' \in [Answers!Revs -> Answers!Answers \cup {Nil}]
          /\ \/ Answers!Answer(s, "refused")
             \/ Answers!Answer(s, "ok") /\ answersSealed'[r] = answersCalls[s].answers
      BY <1>9, <2>1 DEF Answers!ServeApprove, Answers!IdenticalRetry, CallsOK
    <2>3. PICK reply \in {"ok", "refused"} :
             Answers!Answer(s, reply)
             /\ (reply = "ok" => answersSealed'[r] = answersCalls[s].answers)
      BY <2>2
    <2> DEFINE call == [answersCalls[s] EXCEPT !.reply = reply]
    <2>4. /\ call \in Answers!Call /\ call.rev = r /\ call.answers = answersCalls[s].answers
          /\ call.reply = reply
      BY <2>1 DEF Answers!Call, Answers!Reply
    <2>5. Becomes(s, call)
      BY <2>3 DEF Answers!Answer, Becomes
    <2>6. CallsOK' /\ AnsweredIsSealed'
      BY <1>9, <2>1, <2>2, <2>3, <2>4, <2>5, BecomesOK
         DEF Answers!ServeApprove, Answers!screen, CallsOK, IsApproval
    <2> QED
      BY <1>9, <2>6, ToldStays DEF Answers!ServeApprove
  <1>10. ASSUME NEW s \in Places, Answers!OpenLands(s) PROVE AnswersInv'
    <2>1. answersCalls[s] \in Answers!Call
      BY <1>10 DEF Answers!OpenLands, Answers!Landing, CallsOK
    <2>2. CallsOK' /\ AnsweredIsSealed'
      BY <1>10, <2>1, BecomesOK
         DEF Answers!OpenLands, Answers!server, CallsOK, IsApproval, Becomes, Answers!Call
    <2> QED
      BY <1>10, <2>2, ToldStays DEF Answers!OpenLands
  <1>11. ASSUME NEW s \in Places, Answers!SuggestionsLand(s) PROVE AnswersInv'
    <2>1. answersCalls[s] \in Answers!Call
      BY <1>11 DEF Answers!SuggestionsLand, Answers!Landing, CallsOK
    <2>2. answersAnswers' \in [FewTabs -> Answers!Answers]
      BY <1>11, <2>1 DEF Answers!SuggestionsLand, CallsOK, Answers!Answers, Answers!Call
    <2>3. CallsOK' /\ AnsweredIsSealed'
      BY <1>11, <2>1, <2>2, BecomesOK
         DEF Answers!SuggestionsLand, Answers!server, CallsOK, IsApproval, Becomes
    <2> QED
      BY <1>11, <2>3, ToldStays DEF Answers!SuggestionsLand
  <1>12. ASSUME NEW s \in Places, Answers!ApprovalLands(s) PROVE AnswersInv'
    <2>1. /\ answersCalls[s] \in Answers!Call /\ IsApproval(answersCalls[s])
          /\ answersCalls[s].rev \in Answers!Revs
          /\ answersSealed[answersCalls[s].rev] = answersCalls[s].answers
      BY <1>12 DEF Answers!ApprovalLands, Answers!Landing, CallsOK, IsApproval, AnsweredIsSealed
    <2> DEFINE a == answersSelected[answersCalls[s].tab]
               call == IF a = Nil THEN Answers!Free
                       ELSE [kind |-> "open", tab |-> answersCalls[s].tab, app |-> a, rev |-> Nil,
                             answers |-> Answers!Blank, reply |-> ""]
    <2>2. call \in Answers!Call \cup {Answers!Free} /\ (call # Answers!Free => call.kind = "open")
      BY <2>1 DEF Answers!Call, Answers!Reply, CallsOK, Answers!Blank, Answers!Answers
    <2>3. Becomes(s, call)
      BY <1>12 DEF Answers!ApprovalLands, Becomes
    <2>4. CallsOK' /\ AnsweredIsSealed'
      BY <1>12, <2>2, <2>3, BecomesOK
         DEF Answers!ApprovalLands, Answers!server, Answers!screen, CallsOK, IsApproval
    <2>5. /\ answersTold' \in SUBSET (Answers!Revs \X Answers!Answers)
          /\ Answers!ToldMeansSealed'
      <3>1. answersTold' = answersTold \cup {<<answersCalls[s].rev, answersCalls[s].answers>>}
        BY <1>12 DEF Answers!ApprovalLands
      <3>2. UNCHANGED answersSealed
        BY <1>12 DEF Answers!ApprovalLands, Answers!server
      <3>3. answersCalls[s].answers \in Answers!Answers
        BY <2>1 DEF Answers!Call
      <3>4. answersTold' \in SUBSET (Answers!Revs \X Answers!Answers)
        BY <2>1, <3>1, <3>3
      <3> QED
        BY <2>1, <3>1, <3>2, <3>4 DEF Answers!ToldMeansSealed
    <2> QED
      BY <2>4, <2>5
  <1>13. ASSUME NEW s \in Places, Answers!Fails(s) PROVE AnswersInv'
    <2>1. CallsOK' /\ AnsweredIsSealed'
      BY <1>13, BecomesOK
         DEF Answers!Fails, Answers!server, Answers!screen, CallsOK, IsApproval, Becomes
    <2> QED
      BY <1>13, <2>1, ToldStays DEF Answers!Fails
  <1> QED
    BY <1>1, <1>2, <1>3, <1>4, <1>5, <1>6, <1>7, <1>8, <1>9, <1>10, <1>11, <1>12, <1>13
       DEF Answers!Next

-----------------------------------------------------------------------------
(* The profile form *)

ProfileTypes ==
    /\ profileRow \in Profile!Rows
    /\ profileDraft \in [FewTabs -> Profile!Body]
    /\ profileReads \in [FewTabs -> {Profile!None} \cup [state : {"read"}, row : Profile!Rows]]
    /\ profileCall \in [FewTabs -> {Profile!None}
            \cup [state : {"sent"}, body : Profile!Body, extra : BOOLEAN,
                 mine : SUBSET Profile!Fields]
            \cup [state : {"ok"}, row : Profile!Rows]]
    /\ profileSuggested \in [FewTabs -> SUBSET Profile!Fields]
    /\ profileLoaded \in [FewTabs -> BOOLEAN]
    /\ profileTyped \in [FewTabs -> SUBSET Profile!Fields]

\* A body under way holds a suggestion only where its user had it on the screen.
SentIsReviewed ==
    \A t \in FewTabs : profileCall[t].state = "sent" =>
        \A f \in Profile!Fields : profileCall[t].body[f] = "resume" => f \in profileReviewed

WrittenIsShown ==
    \A t \in FewTabs : \A f \in profileTyped[t] \ Numbers : profileDraft[t][f] = "typed"

ProfileInv ==
    /\ ProfileTypes
    /\ SentIsReviewed
    /\ WrittenIsShown
    /\ Profile!OnlyReviewedIsStored

LEMMA ProfileHolds ==
  ASSUME ProfileInv
  PROVE  Profile!OnlyReviewedIsStored /\ Profile!TypedIsSent
  BY DEF ProfileInv, ProfileTypes, WrittenIsShown, Profile!TypedIsSent, Profile!Payload

LEMMA ProfileStarts == ASSUME Profile!Init PROVE ProfileInv
  <1> USE DEF Profile!Init
  <1>1. profileRow \in Profile!Rows /\ \A f \in Profile!Fields : profileRow[f] # "resume"
    BY DEF Profile!Rows, Profile!Values
  <1>2. ProfileTypes
    BY <1>1 DEF ProfileTypes, Profile!Body, Profile!Shown
  <1>3. SentIsReviewed
    BY DEF SentIsReviewed, Profile!None
  <1> QED
    BY <1>1, <1>2, <1>3 DEF ProfileInv, WrittenIsShown, Profile!OnlyReviewedIsStored

\* The form takes a row: nothing that was written is left in it.
LEMMA TakesRow ==
  ASSUME ProfileInv, NEW t \in FewTabs, NEW r \in Profile!Rows, Profile!TakeRow(t, r)
  PROVE  /\ profileDraft' \in [FewTabs -> Profile!Body]
         /\ profileLoaded' \in [FewTabs -> BOOLEAN]
         /\ profileTyped' \in [FewTabs -> SUBSET Profile!Fields]
         /\ WrittenIsShown'
  <1>1. r \in Profile!Body
    BY DEF Profile!Rows, Profile!Body, Profile!Shown
  <1>2. \A u \in FewTabs :
            /\ profileTyped'[u] = IF u = t THEN {} ELSE profileTyped[u]
            /\ u # t => profileDraft'[u] = profileDraft[u]
    <2>1. /\ profileDraft' = [profileDraft EXCEPT ![t] = r]
          /\ profileTyped' = [profileTyped EXCEPT ![t] = {}]
      BY DEF Profile!TakeRow
    <2>2. DOMAIN profileDraft = FewTabs /\ DOMAIN profileTyped = FewTabs
      BY DEF ProfileInv, ProfileTypes
    <2> QED
      BY <2>1, <2>2
  <1>3. WrittenIsShown'
    <2>1. ASSUME NEW u \in FewTabs, NEW f \in profileTyped'[u] \ Numbers
          PROVE  profileDraft'[u][f] = "typed"
      <3>1. u # t /\ f \in profileTyped[u] \ Numbers
        BY <1>2, <2>1
      <3> QED
        BY <1>2, <3>1 DEF ProfileInv, WrittenIsShown
    <2> QED
      BY <2>1 DEF WrittenIsShown
  <1> QED
    BY <1>1, <1>3 DEF ProfileInv, ProfileTypes, Profile!TakeRow

LEMMA ProfileStep == ASSUME ProfileInv, Profile!Next PROVE ProfileInv'
  <1> USE DEF ProfileInv
  <1>1. ASSUME NEW t \in FewTabs, Profile!ReadProfile(t) PROVE ProfileInv'
    <2>1. [state |-> "read", row |-> profileRow] \in [state : {"read"}, row : Profile!Rows]
      BY DEF ProfileTypes
    <2>2. ProfileTypes'
      BY <1>1, <2>1 DEF Profile!ReadProfile, ProfileTypes
    <2> QED
      BY <1>1, <2>2
         DEF Profile!ReadProfile, SentIsReviewed, WrittenIsShown, Profile!OnlyReviewedIsStored
  <1>2. ASSUME NEW t \in FewTabs, Profile!RefreshLands(t) PROVE ProfileInv'
    <2>1. profileReads[t].row \in Profile!Rows
      BY <1>2 DEF Profile!RefreshLands, ProfileTypes
    <2>2. /\ profileDraft' \in [FewTabs -> Profile!Body]
          /\ profileLoaded' \in [FewTabs -> BOOLEAN]
          /\ profileTyped' \in [FewTabs -> SUBSET Profile!Fields]
          /\ WrittenIsShown'
      BY <1>2, <2>1, TakesRow DEF Profile!RefreshLands
    <2>3. ProfileTypes'
      BY <1>2, <2>2 DEF Profile!RefreshLands, ProfileTypes
    <2> QED
      BY <1>2, <2>2, <2>3
         DEF Profile!RefreshLands, SentIsReviewed, Profile!OnlyReviewedIsStored
  <1>3. ASSUME NEW t \in FewTabs, Profile!Parsed(t) PROVE ProfileInv'
    <2>1. ProfileTypes'
      BY <1>3 DEF Profile!Parsed, ProfileTypes
    <2> QED
      BY <1>3, <2>1
         DEF Profile!Parsed, SentIsReviewed, WrittenIsShown, Profile!OnlyReviewedIsStored
  <1>4. ASSUME NEW t \in FewTabs, Profile!ApplySuggestions(t) PROVE ProfileInv'
    <2>1. \A f \in Profile!Fields :
              profileDraft'[t][f] = IF f \in profileSuggested[t] \cap Profile!Blank(t)
                                    THEN "resume" ELSE profileDraft[t][f]
      BY <1>4 DEF Profile!ApplySuggestions, ProfileTypes
    <2>2. \A u \in FewTabs : u # t => profileDraft'[u] = profileDraft[u]
      BY <1>4 DEF Profile!ApplySuggestions, ProfileTypes
    <2>3. [f \in Profile!Fields |-> IF f \in profileSuggested[t] \cap Profile!Blank(t)
                                    THEN "resume" ELSE profileDraft[t][f]] \in Profile!Body
      BY DEF ProfileTypes, Profile!Body, Profile!Shown, Profile!Values
    <2>4. ProfileTypes'
      BY <1>4, <2>3 DEF Profile!ApplySuggestions, ProfileTypes
    <2>5. WrittenIsShown'
      <3>1. ASSUME NEW u \in FewTabs, NEW f \in profileTyped[u] \ Numbers
            PROVE  profileDraft'[u][f] = "typed"
        <4>1. f \in Profile!Fields /\ profileDraft[u][f] = "typed"
          BY DEF ProfileTypes, WrittenIsShown
        <4>2. CASE u = t
          BY <2>1, <4>1, <4>2 DEF Profile!Blank
        <4>3. CASE u # t
          BY <2>2, <4>1, <4>3
        <4> QED
          BY <4>2, <4>3
      <3>2. UNCHANGED profileTyped
        BY <1>4 DEF Profile!ApplySuggestions
      <3> QED
        BY <3>1, <3>2 DEF WrittenIsShown
    <2> QED
      BY <1>4, <2>4, <2>5
         DEF Profile!ApplySuggestions, SentIsReviewed, Profile!OnlyReviewedIsStored
  <1>5. ASSUME NEW t \in FewTabs, Profile!SaveProfile(t) PROVE ProfileInv'
    <2> DEFINE sent == [state |-> "sent", body |-> Profile!Payload(t), extra |-> profileLoaded[t],
                 mine |-> profileTyped[t]
                         \cup {f \in Profile!Fields : profileDraft[t][f] = "resume"}]
    <2>1. Profile!Payload(t) \in Profile!Body
      BY DEF Profile!Payload, ProfileTypes, Profile!Body, Profile!Shown, Profile!Values
    <2>2. sent \in [state : {"sent"}, body : Profile!Body, extra : BOOLEAN,
                    mine : SUBSET Profile!Fields]
      BY <2>1 DEF ProfileTypes
    <2>3. sent.state = "sent" /\ sent.body = Profile!Payload(t)
      OBVIOUS
    <2>4. profileCall' = [profileCall EXCEPT ![t] = sent]
      BY <1>5 DEF Profile!SaveProfile
    <2> HIDE DEF sent
    <2>5. ProfileTypes'
      BY <1>5, <2>2, <2>4 DEF Profile!SaveProfile, ProfileTypes
    <2>6. \A f \in Profile!Fields : Profile!Payload(t)[f] = "resume" => f \in profileReviewed'
      BY <1>5 DEF Profile!SaveProfile, Profile!Payload
    <2>7. SentIsReviewed'
      <3>1. ASSUME NEW u \in FewTabs, profileCall'[u].state = "sent", NEW f \in Profile!Fields,
                   profileCall'[u].body[f] = "resume"
            PROVE  f \in profileReviewed'
        <4>1. CASE u = t
          BY <2>3, <2>4, <2>6, <3>1, <4>1 DEF ProfileTypes
        <4>2. CASE u # t
          <5>1. profileCall'[u] = profileCall[u]
            BY <2>4, <4>2 DEF ProfileTypes
          <5>2. f \in profileReviewed
            BY <3>1, <5>1 DEF SentIsReviewed
          <5> QED
            BY <1>5, <5>2 DEF Profile!SaveProfile
        <4> QED
          BY <4>1, <4>2
      <3> QED
        BY <3>1 DEF SentIsReviewed
    <2> QED
      BY <1>5, <2>5, <2>7
         DEF Profile!SaveProfile, WrittenIsShown, Profile!OnlyReviewedIsStored
  <1>6. ASSUME NEW t \in FewTabs, Profile!PatchProfile(t) PROVE ProfileInv'
    <2>1. /\ profileCall[t].state = "sent" /\ profileCall[t].body \in Profile!Body
          /\ UNCHANGED <<profileDraft, profileLoaded, profileSuggested, profileReads,
                        profileReviewed, profileTyped>>
      BY <1>6 DEF Profile!PatchProfile, ProfileTypes, Profile!None
    <2>2. WrittenIsShown'
      BY <2>1 DEF WrittenIsShown
    <2>3. CASE Profile!StrictSchema(profileCall[t].extra)
      <3> DEFINE new == Profile!Stored(profileCall[t].body)
      <3>1. new \in Profile!Rows
        BY <2>1 DEF Profile!Stored, ProfileTypes, Profile!Rows, Profile!Body, Profile!Shown
      <3>2. /\ profileRow' = new
            /\ profileCall' = [profileCall EXCEPT ![t] = [state |-> "ok", row |-> new]]
        BY <1>6, <2>3 DEF Profile!PatchProfile
      <3>3. \A f \in Profile!Fields : new[f] = "resume" =>
                profileRow[f] = "resume" \/ profileCall[t].body[f] = "resume"
        BY DEF Profile!Stored
      <3> HIDE DEF new
      <3>4. ProfileTypes'
        BY <2>1, <3>1, <3>2 DEF ProfileTypes
      <3>5. Profile!OnlyReviewedIsStored'
        BY <2>1, <3>2, <3>3 DEF SentIsReviewed, Profile!OnlyReviewedIsStored
      <3>6. SentIsReviewed'
        BY <2>1, <3>2 DEF ProfileTypes, SentIsReviewed
      <3> QED
        BY <2>2, <3>4, <3>5, <3>6
    <2>4. CASE ~Profile!StrictSchema(profileCall[t].extra)
      <3>1. profileCall' = [profileCall EXCEPT ![t] = Profile!None] /\ UNCHANGED profileRow
        BY <1>6, <2>4 DEF Profile!PatchProfile
      <3>2. ProfileTypes'
        BY <2>1, <3>1 DEF ProfileTypes
      <3>3. SentIsReviewed'
        BY <2>1, <3>1 DEF ProfileTypes, SentIsReviewed, Profile!None
      <3> QED
        BY <2>1, <2>2, <3>1, <3>2, <3>3 DEF Profile!OnlyReviewedIsStored
    <2> QED
      BY <2>3, <2>4
  <1>7. ASSUME NEW t \in FewTabs, Profile!SaveLands(t) PROVE ProfileInv'
    <2>1. profileCall[t].row \in Profile!Rows
      BY <1>7 DEF Profile!SaveLands, ProfileTypes, Profile!None
    <2>2. /\ profileDraft' \in [FewTabs -> Profile!Body]
          /\ profileLoaded' \in [FewTabs -> BOOLEAN]
          /\ profileTyped' \in [FewTabs -> SUBSET Profile!Fields]
          /\ WrittenIsShown'
      BY <1>7, <2>1, TakesRow DEF Profile!SaveLands
    <2>3. profileCall' = [profileCall EXCEPT ![t] = Profile!None]
      BY <1>7 DEF Profile!SaveLands
    <2>4. ProfileTypes'
      BY <1>7, <2>2, <2>3 DEF Profile!SaveLands, ProfileTypes
    <2>5. SentIsReviewed'
      BY <1>7, <2>3 DEF Profile!SaveLands, ProfileTypes, SentIsReviewed, Profile!None
    <2> QED
      BY <1>7, <2>2, <2>4, <2>5 DEF Profile!SaveLands, Profile!OnlyReviewedIsStored
  <1>8. ASSUME NEW t \in FewTabs, NEW f \in Profile!Fields, Profile!Update(t, f) PROVE ProfileInv'
    <2>1. PICK v \in {"typed", "zero"} :
              /\ profileDraft' = [profileDraft EXCEPT ![t][f] = v]
              /\ f \notin Numbers => v = "typed"
      BY <1>8 DEF Profile!Update
    <2>2. [profileDraft[t] EXCEPT ![f] = v] \in Profile!Body
      BY DEF ProfileTypes, Profile!Body, Profile!Shown, Profile!Values
    <2>3. profileDraft' = [profileDraft EXCEPT ![t] = [profileDraft[t] EXCEPT ![f] = v]]
      BY <2>1
    <2>4. ProfileTypes'
      BY <1>8, <2>2, <2>3 DEF Profile!Update, ProfileTypes
    <2>5. \A u \in FewTabs : /\ u # t => /\ profileDraft'[u] = profileDraft[u]
                                         /\ profileTyped'[u] = profileTyped[u]
      BY <1>8, <2>3 DEF Profile!Update, ProfileTypes
    <2>6. /\ profileTyped'[t] = profileTyped[t] \cup {f}
          /\ profileDraft'[t][f] = v
          /\ \A g \in Profile!Fields : g # f => profileDraft'[t][g] = profileDraft[t][g]
      BY <1>8, <2>3 DEF Profile!Update, ProfileTypes, Profile!Body
    <2>7. WrittenIsShown'
      <3>1. ASSUME NEW u \in FewTabs, NEW g \in profileTyped'[u] \ Numbers
            PROVE  profileDraft'[u][g] = "typed"
        <4>1. CASE u # t
          BY <2>5, <3>1, <4>1 DEF WrittenIsShown
        <4>2. CASE u = t /\ g = f
          BY <2>1, <2>6, <3>1, <4>2
        <4>3. CASE u = t /\ g # f
          <5>1. g \in profileTyped[t] \ Numbers /\ g \in Profile!Fields
            BY <2>6, <3>1, <4>3 DEF ProfileTypes
          <5> QED
            BY <2>6, <4>3, <5>1 DEF WrittenIsShown
        <4> QED
          BY <4>1, <4>2, <4>3
      <3> QED
        BY <3>1 DEF WrittenIsShown
    <2> QED
      BY <1>8, <2>4, <2>7 DEF Profile!Update, SentIsReviewed, Profile!OnlyReviewedIsStored
  <1> QED
    BY <1>1, <1>2, <1>3, <1>4, <1>5, <1>6, <1>7, <1>8 DEF Profile!Next

-----------------------------------------------------------------------------
(* Savers of the profile and the forms *)

SyncTypes ==
    /\ syncRow \in Facts
    /\ syncForm \in [Apps -> Sync!Form]
    /\ syncAttempt \in [Apps -> {"none", "failed", "lasting"}]
    /\ syncSaves \in [Savers -> {Sync!Free} \cup Sync!Save]
    /\ syncPanel \in [Apps -> {Sync!Free} \cup [rev : 1..SyncRevisions, answers : Sync!Answers]]
    /\ syncEdits \in [Apps -> 0..MaxEdits]
    /\ syncSent \in [Apps -> 0..SyncRevisions]
    /\ syncFenced \subseteq Apps

\* What no save comes to is old, and stays so until it has a revision.
UnreadIsOld ==
    /\ syncLater \in [Apps -> 0..SyncReads]
    /\ syncUnread \subseteq Apps
    /\ \A a \in syncUnread : syncLater[a] = SyncReads

\* Revisions only grow: what was read before is not newer.
ReadIsOlder ==
    \A a \in Apps :
        /\ syncPanel[a] # Sync!Free => syncPanel[a].rev <= syncForm[a].rev
        /\ \A s \in Savers : syncSaves[s] # Sync!Free => syncSaves[s].snap[a].rev <= syncForm[a].rev

Busy(s) == syncSaves[s].pc \in {"write", "read", "sync"}

\* The user can still approve what the panel of a form shows.
Reviewable(a) ==
    /\ syncForm[a].status = "prefilled"
    /\ syncPanel[a] # Sync!Free /\ syncPanel[a].rev = syncForm[a].rev

PanelIsFresh(a) == Reviewable(a) => syncPanel[a].answers.fact \in {Nil, syncRow}

\* Neither the form nor its panel holds a fact that the profile had before.
Fresh(a) == syncForm[a].answers.fact \in {Nil, syncRow} /\ PanelIsFresh(a)

\* The row is written and the forms are not yet read.
Half(a) ==
    (syncForm[a].status = "prefilled" /\ syncForm[a].answers.fact = syncRow) => PanelIsFresh(a)

\* The forms are read and a's is still to be refreshed, or has been.
Pending(a, s) ==
    IF a \in syncSaves[s].todo /\ syncForm[a].rev = syncSaves[s].snap[a].rev
    THEN /\ syncSaves[s].snap[a].answers.fact # syncSaves[s].fact
         /\ syncForm[a].status = "prefilled" => syncForm[a].answers = syncSaves[s].snap[a].answers
    ELSE Fresh(a)

NoTrouble == ~syncMuddled /\ \A s \in Savers : syncSaves[s].pc # "error"

InTurn == \A s, o \in Savers : Busy(s) /\ Busy(o) => s = o

RowIsWritten ==
    \A s \in Savers : syncSaves[s].pc \in {"read", "sync"} => syncRow = syncSaves[s].fact

\* The forms that nothing keeps from the saves.
Followed == Apps \ (syncFenced \cup syncUnread)

FormsOK ==
    \A a \in Followed :
        /\ (\A s \in Savers : syncSaves[s].pc \notin {"read", "sync"}) => Fresh(a)
        /\ \A s \in Savers : syncSaves[s].pc = "read" => Half(a)
        /\ \A s \in Savers : syncSaves[s].pc = "sync" => Pending(a, s)

SyncInv ==
    /\ SyncTypes
    /\ ReadIsOlder
    /\ Sync!AttemptStays
    /\ NoTrouble => InTurn /\ RowIsWritten /\ FormsOK

LEMMA SyncHolds == ASSUME SyncInv PROVE Sync!FormsFollowSave /\ Sync!AttemptStays
  <1>1. ASSUME Sync!AllSaved, ~syncMuddled, NEW a \in Followed
        PROVE  Sync!UpToDate(a)
    <2>1. \A s \in Savers : syncSaves[s].pc \notin {"read", "sync", "error"}
      BY <1>1 DEF Sync!AllSaved, Sync!Free
    <2>2. Fresh(a)
      BY <1>1, <2>1 DEF SyncInv, NoTrouble, FormsOK
    <2> QED
      BY <2>2 DEF Fresh, Sync!UpToDate
  <1> QED
    BY <1>1 DEF SyncInv, Sync!FormsFollowSave, Followed

LEMMA SyncStarts == ASSUME PartsAssumption, Sync!Init PROVE SyncInv
  <1> USE DEF Sync!Init
  <1>1. SyncRevisions \in Nat \ {0} /\ MaxEdits \in Nat /\ Nil \notin Facts
    BY DEF PartsAssumption, Sync!SyncAssumption
  <1>2. 1 \in 1..SyncRevisions /\ 0 \in 0..SyncRevisions /\ 0 \in 0..MaxEdits
    <2>1. SyncRevisions \in Nat /\ SyncRevisions # 0
      BY <1>1
    <2>2. SyncRevisions >= 1
      BY <2>1
    <2> QED
      BY <1>1, <2>1, <2>2
  <1>3. Sync!Captured \in Sync!Form
    BY <1>2 DEF Sync!Captured, Sync!Form, Sync!Answers
  <1>4. SyncTypes
    BY <1>2, <1>3 DEF SyncTypes
  <1>5. ReadIsOlder
    BY DEF ReadIsOlder
  <1>6. InTurn /\ RowIsWritten
    BY DEF InTurn, Busy, RowIsWritten, Sync!Free
  <1>7. FormsOK
    BY DEF FormsOK, Followed, Fresh, PanelIsFresh, Reviewable, Sync!Free, Sync!Captured
  <1> QED
    BY <1>4, <1>5, <1>6, <1>7 DEF SyncInv, Sync!AttemptStays

-----------------------------------------------------------------------------
\* Steps of a save

\* One save goes on, and the forms stay as they are.
GoesOn(s, save) ==
    /\ syncSaves' = [syncSaves EXCEPT ![s] = save]
    /\ UNCHANGED <<syncForm, syncAttempt, syncPanel, syncEdits, syncSent, syncFenced>>

LEMMA GoesOnOK ==
  ASSUME PartsAssumption, SyncInv, NEW s \in Savers, NEW save \in Sync!Save, GoesOn(s, save),
         syncRow' \in Facts, \A a \in Apps : save.snap[a].rev <= syncForm[a].rev
  PROVE  /\ SyncTypes' /\ ReadIsOlder' /\ Sync!AttemptStays'
         /\ \A o \in Savers : syncSaves'[o] = IF o = s THEN save ELSE syncSaves[o]
  <1>1. \A o \in Savers : syncSaves'[o] = IF o = s THEN save ELSE syncSaves[o]
    BY DEF SyncInv, SyncTypes, GoesOn
  <1>2. SyncTypes'
    BY DEF SyncInv, SyncTypes, GoesOn
  <1>3. ReadIsOlder'
    BY <1>1 DEF SyncInv, ReadIsOlder, GoesOn
  <1>4. Sync!AttemptStays'
    BY DEF SyncInv, GoesOn, Sync!AttemptStays
  <1> QED
    BY <1>1, <1>2, <1>3, <1>4

LEMMA PatchOK ==
  ASSUME PartsAssumption, SyncInv, NEW s \in Savers, NEW f \in Facts, Sync!PatchProfile(s, f)
  PROVE  SyncInv'
  <1> DEFINE save == [pc |-> "write", fact |-> f, snap |-> syncForm, todo |-> {}]
  <1>1. save \in Sync!Save /\ GoesOn(s, save) /\ UNCHANGED syncRow
    BY DEF Sync!PatchProfile, Sync!Save, GoesOn, SyncInv, SyncTypes
  <1>2. \A a \in Apps : save.snap[a].rev <= syncForm[a].rev
    BY DEF SyncInv, SyncTypes, Sync!Form
  <1> HIDE DEF save
  <1>3. /\ SyncTypes' /\ ReadIsOlder' /\ Sync!AttemptStays'
        /\ \A o \in Savers : syncSaves'[o] = IF o = s THEN save ELSE syncSaves[o]
    BY <1>1, <1>2, GoesOnOK DEF SyncInv, SyncTypes
  <1>4. save.pc = "write"
    BY DEF save
  <1>6. UNCHANGED Followed
    BY <1>1 DEF Sync!PatchProfile, GoesOn, Followed
  <1>5. ASSUME NoTrouble' PROVE InTurn' /\ RowIsWritten' /\ FormsOK'
    <2>1. \A o \in Savers : ~Busy(o)
      BY <1>5 DEF Sync!PatchProfile, NoTrouble, Busy
    <2>2. \A o \in Savers : syncSaves[o].pc # "error"
      <3>1. syncSaves[s].pc = "free"
        BY DEF Sync!PatchProfile, Sync!Free
      <3> QED
        BY <1>3, <1>5, <3>1 DEF NoTrouble
    <2>3. NoTrouble
      BY <1>5, <2>2 DEF NoTrouble, Sync!PatchProfile
    <2>4. \A a \in Followed : Fresh(a)
      BY <2>1, <2>3 DEF SyncInv, FormsOK, Busy
    <2>5. \A a \in Followed : Fresh(a)'
      BY <1>1, <2>4 DEF Fresh, PanelIsFresh, Reviewable, GoesOn
    <2>6. \A o \in Savers : syncSaves'[o].pc \notin {"read", "sync"} /\ (o # s => ~Busy(o)')
      BY <1>3, <1>4, <2>1 DEF Busy
    <2>7. FormsOK'
      BY <1>1, <1>6, <2>5, <2>6 DEF FormsOK, GoesOn
    <2> QED
      BY <2>6, <2>7 DEF InTurn, RowIsWritten
  <1> QED
    BY <1>3, <1>5 DEF SyncInv

\* The save that is under way is the only one.
LEMMA OnlyOne ==
  ASSUME SyncInv, NoTrouble, NEW s \in Savers, Busy(s), NEW o \in Savers, o # s
  PROVE  ~Busy(o)
  BY DEF SyncInv, InTurn

LEMMA WriteOK ==
  ASSUME PartsAssumption, SyncInv, NEW s \in Savers, Sync!WriteRow(s)
  PROVE  SyncInv'
  <1> DEFINE save == [syncSaves[s] EXCEPT !.pc = "read"]
  <1>0. syncSaves[s] \in Sync!Save /\ syncSaves[s].pc = "write"
    BY DEF Sync!WriteRow, SyncInv, SyncTypes, Sync!Free
  <1>1. /\ save \in Sync!Save /\ GoesOn(s, save)
        /\ save.pc = "read" /\ save.fact = syncSaves[s].fact /\ save.snap = syncSaves[s].snap
        /\ syncRow' = save.fact /\ syncRow' \in Facts
    BY <1>0 DEF Sync!WriteRow, Sync!Save, GoesOn, Sync!ghost
  <1>2. \A a \in Apps : save.snap[a].rev <= syncForm[a].rev
    BY <1>0, <1>1 DEF SyncInv, ReadIsOlder, Sync!Save, Sync!Free
  <1> HIDE DEF save
  <1>3. /\ SyncTypes' /\ ReadIsOlder' /\ Sync!AttemptStays'
        /\ \A o \in Savers : syncSaves'[o] = IF o = s THEN save ELSE syncSaves[o]
    BY <1>1, <1>2, GoesOnOK
  <1>4. UNCHANGED Followed
    BY DEF Sync!WriteRow, Sync!ghost, Followed
  <1>5. ASSUME NoTrouble' PROVE InTurn' /\ RowIsWritten' /\ FormsOK'
    <2>1. NoTrouble
      BY <1>0, <1>3, <1>5 DEF NoTrouble, Sync!WriteRow, Sync!ghost
    <2>2. \A o \in Savers : o # s => ~Busy(o)
      BY <1>0, <2>1, OnlyOne DEF Busy
    <2>3. \A o \in Savers : o # s => ~Busy(o)'
      BY <1>3, <2>2 DEF Busy
    <2>4. \A a \in Followed : Fresh(a)
      BY <1>0, <2>1, <2>2 DEF SyncInv, FormsOK, Busy
    <2>5. ASSUME NEW a \in Followed PROVE Half(a)'
      <3>1. UNCHANGED <<syncForm, syncPanel>> /\ syncRow' \in Facts /\ Nil \notin Facts
        BY <1>1 DEF GoesOn, PartsAssumption, Sync!SyncAssumption
      <3>2. Fresh(a)
        BY <2>4
      <3> QED
        BY <3>1, <3>2 DEF Half, Fresh, PanelIsFresh, Reviewable
    <2>6. FormsOK'
      BY <1>1, <1>3, <1>4, <2>3, <2>5 DEF FormsOK, GoesOn, Busy
    <2>7. InTurn' /\ RowIsWritten'
      BY <1>1, <1>3, <2>3 DEF InTurn, RowIsWritten, Busy
    <2> QED
      BY <2>6, <2>7
  <1> QED
    BY <1>3, <1>5 DEF SyncInv

\* What a save does not come to now, it does not come to before the next one.
LEMMA ReadFormsOK ==
  ASSUME PartsAssumption, SyncInv, UnreadIsOld, NEW s \in Savers, Sync!ReadForms(s)
  PROVE  SyncInv'
  <1> DEFINE stale == {a \in Apps : Sync!Reads(a)
                                    /\ syncForm[a].answers.fact # syncSaves[s].fact}
             save == [syncSaves[s] EXCEPT !.pc = "sync", !.snap = syncForm, !.todo = stale]
  <1>0. syncSaves[s] \in Sync!Save /\ syncSaves[s].pc = "read"
    BY DEF Sync!ReadForms, SyncInv, SyncTypes, Sync!Free
  <1>1. /\ save \in Sync!Save
        /\ save.pc = "sync" /\ save.fact = syncSaves[s].fact /\ save.snap = syncForm
        /\ save.todo = stale
    <2>1. stale \subseteq Apps
      OBVIOUS
    <2> HIDE DEF stale
    <2> QED
      BY <1>0, <2>1 DEF Sync!Save, SyncInv, SyncTypes
  <1>2. GoesOn(s, save) /\ UNCHANGED <<syncRow, syncMuddled>>
    BY <1>0 DEF Sync!ReadForms, GoesOn, Sync!ghost, SyncInv, SyncTypes
  <1>3. \A a \in Apps : save.snap[a].rev <= syncForm[a].rev
    BY <1>1 DEF SyncInv, SyncTypes, Sync!Form
  <1> HIDE DEF save
  <1>4. /\ SyncTypes' /\ ReadIsOlder' /\ Sync!AttemptStays'
        /\ \A o \in Savers : syncSaves'[o] = IF o = s THEN save ELSE syncSaves[o]
    BY <1>1, <1>2, <1>3, GoesOnOK DEF SyncInv, SyncTypes
  <1>6. Followed' \subseteq Followed /\ \A a \in Followed' : Sync!Reads(a)
    <2>1. syncUnread' = {a \in Apps : syncLater[a] = SyncReads} /\ UNCHANGED syncFenced
      BY DEF Sync!ReadForms
    <2>2. SyncReads \in Nat
      BY DEF PartsAssumption, Sync!SyncAssumption
    <2>3. \A a \in Apps : syncLater[a] = SyncReads \/ syncLater[a] < SyncReads
      BY <2>2 DEF UnreadIsOld
    <2> QED
      BY <2>1, <2>3 DEF UnreadIsOld, Followed, Sync!Reads
  <1>5. ASSUME NoTrouble' PROVE InTurn' /\ RowIsWritten' /\ FormsOK'
    <2>1. NoTrouble
      BY <1>0, <1>2, <1>4, <1>5 DEF NoTrouble
    <2>2. \A o \in Savers : o # s => ~Busy(o)
      BY <1>0, <2>1, OnlyOne DEF Busy
    <2>3. \A o \in Savers : o # s => ~Busy(o)'
      BY <1>4, <2>2 DEF Busy
    <2>4. syncRow = syncSaves[s].fact
      BY <1>0, <2>1 DEF SyncInv, RowIsWritten
    <2>5. ASSUME NEW a \in Followed' PROVE Pending(a, s)'
      <3>0. UNCHANGED <<syncForm, syncPanel, syncRow>> /\ syncSaves'[s] = save
        BY <1>2, <1>4 DEF GoesOn
      <3>1. Half(a)
        BY <1>0, <1>6, <2>1 DEF SyncInv, FormsOK
      <3>2. CASE a \in stale
        BY <1>1, <3>0, <3>2 DEF Pending
      <3>3. CASE a \notin stale
        <4>1. syncForm[a].answers.fact = syncRow
          BY <1>6, <2>4, <3>3 DEF Followed
        <4>2. Fresh(a)
          BY <3>1, <4>1 DEF Half, Fresh, PanelIsFresh, Reviewable
        <4>3. Fresh(a)'
          BY <3>0, <4>2 DEF Fresh, PanelIsFresh, Reviewable
        <4> QED
          BY <1>1, <3>0, <3>3, <4>3 DEF Pending
      <3> QED
        BY <3>2, <3>3
    <2>6. FormsOK'
      BY <1>1, <1>2, <1>4, <2>3, <2>5 DEF FormsOK, GoesOn, Busy
    <2>7. InTurn' /\ RowIsWritten'
      BY <1>1, <1>2, <1>4, <2>3, <2>4 DEF InTurn, RowIsWritten, Busy
    <2> QED
      BY <2>6, <2>7
  <1> QED
    BY <1>4, <1>5 DEF SyncInv

LEMMA EndOK ==
  ASSUME PartsAssumption, SyncInv, NEW s \in Savers, Sync!SyncFails(s) \/ Sync!Saved(s)
  PROVE  SyncInv'
  <1>0. syncSaves[s] \in Sync!Save /\ syncSaves[s].pc = "sync"
    BY DEF Sync!SyncFails, Sync!Saved, SyncInv, SyncTypes, Sync!Free
  <1>1. PICK save \in Sync!Save :
          /\ GoesOn(s, save) /\ UNCHANGED <<syncRow, syncMuddled, syncUnread>>
          /\ save.snap = syncSaves[s].snap
          /\ save.pc = "error" \/ (save.pc = "ok" /\ syncSaves[s].todo = {})
    <2>1. CASE Sync!SyncFails(s)
      <3> DEFINE save == [syncSaves[s] EXCEPT !.pc = "error", !.todo = {}]
      <3>1. save \in Sync!Save /\ save.pc = "error" /\ save.snap = syncSaves[s].snap
        BY <1>0 DEF Sync!Save
      <3>2. GoesOn(s, save) /\ UNCHANGED <<syncRow, syncMuddled, syncUnread>>
        BY <1>0, <2>1 DEF Sync!SyncFails, GoesOn, Sync!ghost, SyncInv, SyncTypes
      <3> QED
        BY <3>1, <3>2
    <2>2. CASE Sync!Saved(s)
      <3> DEFINE save == [syncSaves[s] EXCEPT !.pc = "ok"]
      <3>1. save \in Sync!Save /\ save.pc = "ok" /\ save.snap = syncSaves[s].snap
        BY <1>0 DEF Sync!Save
      <3>2. /\ GoesOn(s, save) /\ UNCHANGED <<syncRow, syncMuddled, syncUnread>>
            /\ syncSaves[s].todo = {}
        BY <1>0, <2>2 DEF Sync!Saved, GoesOn, Sync!ghost, SyncInv, SyncTypes
      <3> QED
        BY <3>1, <3>2
    <2> QED
      BY <2>1, <2>2
  <1>2. \A a \in Apps : save.snap[a].rev <= syncForm[a].rev
    BY <1>0, <1>1 DEF SyncInv, ReadIsOlder, Sync!Free
  <1>3. /\ SyncTypes' /\ ReadIsOlder' /\ Sync!AttemptStays'
        /\ \A o \in Savers : syncSaves'[o] = IF o = s THEN save ELSE syncSaves[o]
    BY <1>1, <1>2, GoesOnOK DEF SyncInv, SyncTypes
  <1>5. ASSUME NoTrouble' PROVE InTurn' /\ RowIsWritten' /\ FormsOK'
    <2>0. save.pc = "ok" /\ syncSaves[s].todo = {}
      BY <1>1, <1>3, <1>5 DEF NoTrouble
    <2>1. NoTrouble
      BY <1>0, <1>1, <1>3, <1>5 DEF NoTrouble
    <2>2. \A o \in Savers : o # s => ~Busy(o)
      BY <1>0, <2>1, OnlyOne DEF Busy
    <2>3. \A o \in Savers : ~Busy(o)'
      BY <1>3, <2>0, <2>2 DEF Busy
    <2>4. \A a \in Followed : Fresh(a)
      BY <1>0, <2>0, <2>1 DEF SyncInv, FormsOK, Pending
    <2>5. \A a \in Followed : Fresh(a)'
      BY <1>1, <2>4 DEF GoesOn, Fresh, PanelIsFresh, Reviewable
    <2>6. FormsOK'
      BY <1>1, <2>3, <2>5 DEF FormsOK, Followed, GoesOn, Busy
    <2>7. InTurn' /\ RowIsWritten'
      BY <2>3 DEF InTurn, RowIsWritten, Busy
    <2> QED
      BY <2>6, <2>7
  <1> QED
    BY <1>3, <1>5 DEF SyncInv

LEMMA SyncOneOK ==
  ASSUME PartsAssumption, SyncInv, NEW s \in Savers, NEW a \in Apps, Sync!SyncOne(s, a)
  PROVE  SyncInv'
  <1> DEFINE save == [syncSaves[s] EXCEPT !.todo = @ \ {a}]
             merged == Sync!Merged(a, s)
  <1>0. /\ syncSaves[s] \in Sync!Save /\ syncSaves[s].pc = "sync" /\ a \in syncSaves[s].todo
        /\ syncForm[a] \in Sync!Form /\ SyncRevisions \in Nat
        /\ Sync!MayRefresh(a, s) => syncForm[a].rev + 1 \in 1..SyncRevisions
    BY DEF Sync!SyncOne, SyncInv, SyncTypes, Sync!Free, Sync!Form, Sync!MayRefresh,
           PartsAssumption, Sync!SyncAssumption
  <1>1. /\ save \in Sync!Save /\ save.pc = "sync" /\ save.fact = syncSaves[s].fact
        /\ save.snap = syncSaves[s].snap /\ save.todo = syncSaves[s].todo \ {a}
    BY <1>0 DEF Sync!Save
  <1>2. /\ syncSaves' = [syncSaves EXCEPT ![s] = save]
        /\ UNCHANGED <<syncRow, syncAttempt, syncPanel, syncEdits, syncSent, syncMuddled>>
        /\ syncFenced' \subseteq Apps /\ syncFenced \subseteq syncFenced'
        /\ syncUnread \ {a} \subseteq syncUnread'
        /\ ~(Sync!MayRefresh(a, s) /\ Sync!Differs(a, s)) => UNCHANGED syncUnread
    BY <1>0 DEF Sync!SyncOne, SyncInv, SyncTypes
  <1>3. \A o \in Savers : syncSaves'[o] = IF o = s THEN save ELSE syncSaves[o]
    BY <1>2 DEF SyncInv, SyncTypes
  <1>4. Sync!MayRefresh(a, s) => /\ merged \in Sync!Form
                                /\ merged.rev = syncForm[a].rev + 1
                                /\ merged.status = "prefilled"
                                /\ merged.answers.fact = syncSaves[s].fact
    <2>1. syncSaves[s].snap[a].answers \in Sync!Answers /\ syncSaves[s].fact \in Facts
      BY <1>0 DEF Sync!Save, Sync!Form
    <2>2. [syncSaves[s].snap[a].answers EXCEPT !.fact = syncSaves[s].fact] \in Sync!Answers
      BY <2>1 DEF Sync!Answers
    <2>3. [syncSaves[s].snap[a].answers EXCEPT !.fact = syncSaves[s].fact].fact = syncSaves[s].fact
      BY <2>1 DEF Sync!Answers
    <2> QED
      BY <1>0, <2>2, <2>3 DEF Sync!Merged, Sync!Form
  <1> HIDE DEF save, merged
  <1>5. \A b \in Apps : b # a => syncForm'[b] = syncForm[b]
    BY DEF Sync!SyncOne, SyncInv, SyncTypes
  <1>6. syncForm'[a] = IF Sync!MayRefresh(a, s) /\ Sync!Differs(a, s) THEN merged ELSE syncForm[a]
    BY DEF Sync!SyncOne, SyncInv, SyncTypes, merged
  <1>7. SyncTypes'
    <2>1. syncForm' \in [Apps -> Sync!Form]
      <3>1. syncForm' = IF Sync!MayRefresh(a, s) /\ Sync!Differs(a, s)
                        THEN [syncForm EXCEPT ![a] = merged] ELSE syncForm
        BY DEF Sync!SyncOne, merged
      <3> QED
        BY <1>4, <3>1 DEF SyncInv, SyncTypes
    <2> QED
      BY <1>1, <1>2, <2>1 DEF SyncInv, SyncTypes
  <1>8. \A b \in Apps : syncForm'[b].rev >= syncForm[b].rev
    <2>1. \A b \in Apps : syncForm[b].rev \in Nat
      BY DEF SyncInv, SyncTypes, Sync!Form
    <2> QED
      BY <1>4, <1>5, <1>6, <2>1
  <1>9. ReadIsOlder'
    <2>1. \A b \in Apps : syncForm[b].rev \in Nat /\ syncForm'[b].rev \in Nat
      BY <1>7 DEF SyncInv, SyncTypes, Sync!Form
    <2>2. ASSUME NEW b \in Apps, syncPanel[b] # Sync!Free
          PROVE  syncPanel[b].rev <= syncForm'[b].rev
      <3>1. syncPanel[b].rev <= syncForm[b].rev /\ syncPanel[b].rev \in Nat
        BY <2>2 DEF SyncInv, SyncTypes, ReadIsOlder
      <3> QED
        BY <1>8, <2>1, <3>1
    <2>3. ASSUME NEW b \in Apps, NEW o \in Savers, syncSaves'[o] # Sync!Free
          PROVE  syncSaves'[o].snap[b].rev <= syncForm'[b].rev
      <3>1. syncSaves[o] # Sync!Free /\ syncSaves'[o].snap = syncSaves[o].snap
        BY <1>0, <1>1, <1>3, <2>3 DEF Sync!Free
      <3>2. syncSaves[o].snap[b].rev \in Nat
        BY <3>1 DEF SyncInv, SyncTypes, Sync!Save, Sync!Form
      <3>3. syncSaves[o].snap[b].rev <= syncForm[b].rev
        BY <3>1 DEF SyncInv, ReadIsOlder
      <3> QED
        BY <1>8, <2>1, <3>1, <3>2, <3>3
    <2> QED
      BY <1>2, <2>2, <2>3 DEF ReadIsOlder
  <1>10. Sync!AttemptStays'
    <2>1. ASSUME NEW b \in Apps, syncAttempt[b] # "none" PROVE syncForm'[b] = syncForm[b]
      BY <1>5, <1>6, <2>1 DEF Sync!MayRefresh
    <2> QED
      BY <1>2, <2>1 DEF SyncInv, Sync!AttemptStays
  <1>11. ASSUME NoTrouble' PROVE InTurn' /\ RowIsWritten' /\ FormsOK'
    <2>1. NoTrouble
      BY <1>0, <1>2, <1>3, <1>11 DEF NoTrouble
    <2>2. \A o \in Savers : o # s => ~Busy(o)
      BY <1>0, <2>1, OnlyOne DEF Busy
    <2>3. \A o \in Savers : o # s => ~Busy(o)'
      BY <1>3, <2>2 DEF Busy
    <2>4. syncRow = syncSaves[s].fact
      BY <1>0, <2>1 DEF SyncInv, RowIsWritten
    <2>5. ASSUME NEW b \in Followed', b # a PROVE Pending(b, s)'
      <3>1. Pending(b, s)
        BY <1>0, <1>2, <2>1, <2>5 DEF SyncInv, FormsOK, Followed
      <3>2. /\ syncForm'[b] = syncForm[b] /\ UNCHANGED <<syncPanel, syncRow>>
            /\ syncSaves'[s] = save
        BY <1>2, <1>3, <1>5, <2>5 DEF Followed
      <3> QED
        BY <1>1, <2>5, <3>1, <3>2 DEF Pending, Fresh, PanelIsFresh, Reviewable
    <2>6. ASSUME a \in Followed' PROVE Pending(a, s)'
      <3>1. ~(Sync!MayRefresh(a, s) /\ Sync!Differs(a, s)) => Pending(a, s)
        BY <1>0, <1>2, <2>1, <2>6 DEF SyncInv, FormsOK, Followed
      <3>2. a \notin save.todo /\ syncSaves'[s] = save /\ UNCHANGED <<syncPanel, syncRow>>
        BY <1>1, <1>2, <1>3
      <3>3. CASE Sync!MayRefresh(a, s) /\ Sync!Differs(a, s)
        <4>1. syncForm'[a] = merged
          BY <1>6, <3>3
        <4>2. syncPanel[a] # Sync!Free => syncPanel[a].rev # merged.rev
          <5>1. syncPanel[a] # Sync!Free => /\ syncPanel[a].rev <= syncForm[a].rev
                                           /\ syncPanel[a].rev \in Nat
            BY DEF SyncInv, SyncTypes, ReadIsOlder
          <5>2. syncForm[a].rev \in Nat /\ merged.rev = syncForm[a].rev + 1
            BY <1>0, <1>4, <3>3 DEF Sync!Form
          <5> QED
            BY <5>1, <5>2
        <4>3. Fresh(a)'
          BY <1>4, <2>4, <3>2, <3>3, <4>1, <4>2 DEF Fresh, PanelIsFresh, Reviewable
        <4> QED
          BY <3>2, <4>3 DEF Pending
      <3>4. CASE syncForm[a].rev # syncSaves[s].snap[a].rev
        <4>1. syncForm'[a] = syncForm[a]
          BY <1>6, <3>4 DEF Sync!MayRefresh
        <4>2. Fresh(a)
          BY <3>1, <3>4 DEF Pending, Sync!MayRefresh
        <4>3. Fresh(a)'
          BY <3>2, <4>1, <4>2 DEF Fresh, PanelIsFresh, Reviewable
        <4> QED
          BY <3>2, <4>3 DEF Pending
      <3>5. CASE syncForm[a].rev = syncSaves[s].snap[a].rev /\ Sync!MayRefresh(a, s)
                 /\ ~Sync!Differs(a, s)
        <4>1. syncForm'[a] = syncForm[a]
          BY <1>6, <3>5
        <4>2. syncSaves[s].snap[a].answers \in Sync!Answers
          BY <1>0 DEF Sync!Save, Sync!Form
        <4>3. syncForm[a].answers.fact = syncSaves[s].fact
          BY <3>5, <4>2 DEF Sync!Differs, Sync!Answers
        <4>4. syncSaves[s].snap[a].answers.fact # syncSaves[s].fact
          BY <1>0, <3>1, <3>5 DEF Pending
        <4>5. syncForm[a].status # "prefilled"
          BY <1>0, <3>1, <3>5, <4>3, <4>4 DEF Pending
        <4>6. Fresh(a)'
          BY <2>4, <3>2, <4>1, <4>3, <4>5 DEF Fresh, PanelIsFresh, Reviewable
        <4> QED
          BY <3>2, <4>6 DEF Pending
      <3>6. CASE syncForm[a].rev = syncSaves[s].snap[a].rev /\ ~Sync!MayRefresh(a, s)
        <4>1. a \in syncFenced'
          <5>1. a \in syncOp \/ syncAttempt[a] # "none" \/ ~(syncForm[a].rev < SyncRevisions)
            BY <3>6 DEF Sync!MayRefresh
          <5>2. syncForm[a].rev \in 1..SyncRevisions
            BY <1>0 DEF Sync!Form
          <5>3. a \in syncOp \/ syncAttempt[a] # "none" \/ syncForm[a].rev = SyncRevisions
            BY <1>0, <5>1, <5>2
          <5> QED
            BY <5>3 DEF Sync!SyncOne
        <4> QED
          BY <2>6, <4>1 DEF Followed
      <3> QED
        BY <3>3, <3>4, <3>5, <3>6
    <2>7. FormsOK'
      <3>1. \A b \in Followed' : Pending(b, s)'
        BY <2>5, <2>6
      <3>2. syncSaves'[s].pc = "sync"
        BY <1>1, <1>3
      <3> QED
        BY <2>3, <3>1, <3>2 DEF FormsOK, Busy
    <2>8. InTurn' /\ RowIsWritten'
      BY <1>1, <1>2, <1>3, <2>3, <2>4 DEF InTurn, RowIsWritten, Busy
    <2> QED
      BY <2>7, <2>8
  <1> QED
    BY <1>7, <1>9, <1>10, <1>11 DEF SyncInv

-----------------------------------------------------------------------------
\* Steps of the form

\* The saves stay as they are, and of the forms only that of a changes, forward.
FormStep(a) ==
    /\ UNCHANGED <<syncRow, syncSaves, syncMuddled, syncFenced>>
    /\ \A b \in Apps : b # a => /\ syncForm'[b] = syncForm[b] /\ syncPanel'[b] = syncPanel[b]
                                 /\ syncAttempt'[b] = syncAttempt[b] /\ syncSent'[b] = syncSent[b]
    /\ syncForm'[a].rev >= syncForm[a].rev
    /\ syncUnread \ {a} \subseteq syncUnread'

\* What a step of the form of a has to show.
LEMMA FormStepOK ==
  ASSUME PartsAssumption, SyncInv, NEW a \in Apps, FormStep(a), SyncTypes',
         syncPanel'[a] # Sync!Free => syncPanel'[a].rev <= syncForm'[a].rev,
         syncAttempt'[a] # "none" => /\ syncSent'[a] = syncForm'[a].rev
                                     /\ syncForm'[a].status = "approved",
         Fresh(a) => Fresh(a)',
         Half(a) => Half(a)',
         \A s \in Savers : (syncSaves[s].pc = "sync" /\ Pending(a, s)
                            /\ syncRow = syncSaves[s].fact) => Pending(a, s)',
         syncUnread \subseteq syncUnread'
         \/ /\ Fresh(a)' /\ Half(a)'
            /\ \A s \in Savers : syncSaves[s].pc = "sync" => Pending(a, s)'
  PROVE  SyncInv'
  <1>1. \A b \in Apps : syncForm[b].rev \in Nat /\ syncForm'[b].rev \in Nat
    BY DEF SyncInv, SyncTypes, Sync!Form
  <1>2. UNCHANGED <<syncRow, syncSaves, syncMuddled, syncFenced>>
    BY DEF FormStep
  <1>3. ReadIsOlder'
    <2>1. ASSUME NEW b \in Apps, NEW s \in Savers, syncSaves[s] # Sync!Free
          PROVE  syncSaves[s].snap[b].rev <= syncForm'[b].rev
      <3>1. syncSaves[s].snap[b].rev <= syncForm[b].rev /\ syncSaves[s].snap[b].rev \in Nat
        BY <2>1 DEF SyncInv, SyncTypes, ReadIsOlder, Sync!Save, Sync!Form
      <3>2. syncForm'[b].rev >= syncForm[b].rev
        BY <1>1 DEF FormStep
      <3> QED
        BY <1>1, <3>1, <3>2
    <2>2. ASSUME NEW b \in Apps, syncPanel'[b] # Sync!Free
          PROVE  syncPanel'[b].rev <= syncForm'[b].rev
      BY <2>2 DEF FormStep, SyncInv, ReadIsOlder
    <2> QED
      BY <1>2, <2>1, <2>2 DEF ReadIsOlder
  <1>4. Sync!AttemptStays'
    BY DEF FormStep, SyncInv, Sync!AttemptStays
  <1>5. ASSUME NoTrouble' PROVE InTurn' /\ RowIsWritten' /\ FormsOK'
    <2>1. NoTrouble /\ InTurn /\ RowIsWritten /\ FormsOK
      BY <1>2, <1>5 DEF NoTrouble, SyncInv
    <2>2. InTurn' /\ RowIsWritten'
      BY <1>2, <2>1 DEF InTurn, RowIsWritten, Busy
    <2>3. ASSUME NEW b \in Apps
          PROVE  /\ Fresh(b) => Fresh(b)'
                 /\ Half(b) => Half(b)'
                 /\ \A s \in Savers : (syncSaves[s].pc = "sync" /\ Pending(b, s)
                                       /\ syncRow = syncSaves[s].fact) => Pending(b, s)'
      <3>1. CASE b = a
        BY <3>1
      <3>2. CASE b # a
        <4>1. syncForm'[b] = syncForm[b] /\ syncPanel'[b] = syncPanel[b]
          BY <3>2 DEF FormStep
        <4> QED
          BY <1>2, <4>1 DEF Fresh, Half, Pending, PanelIsFresh, Reviewable
      <3> QED
        BY <3>1, <3>2
    <2>4. ASSUME NEW b \in Followed', b \notin Followed
          PROVE  /\ Fresh(b)' /\ Half(b)'
                 /\ \A s \in Savers : syncSaves[s].pc = "sync" => Pending(b, s)'
      BY <1>2, <2>4 DEF Followed, FormStep
    <2>5. FormsOK'
      <3>1. ASSUME NEW b \in Followed', b \in Followed
            PROVE  /\ (\A s \in Savers : syncSaves[s].pc \notin {"read", "sync"}) => Fresh(b)'
                   /\ \A s \in Savers : syncSaves[s].pc = "read" => Half(b)'
                   /\ \A s \in Savers : syncSaves[s].pc = "sync" => Pending(b, s)'
        BY <2>1, <2>3, <3>1 DEF FormsOK, RowIsWritten, Followed
      <3> QED
        BY <1>2, <2>4, <3>1 DEF FormsOK
    <2> QED
      BY <2>2, <2>5
  <1> QED
    BY <1>3, <1>4, <1>5 DEF SyncInv

LEMMA OpenOK ==
  ASSUME PartsAssumption, SyncInv, NEW a \in Apps, Sync!OpenForm(a)
  PROVE  SyncInv'
  <1>0. syncForm[a] \in Sync!Form
    BY DEF SyncInv, SyncTypes
  <1>1. /\ UNCHANGED <<syncRow, syncForm, syncAttempt, syncSaves, syncEdits, syncSent, syncMuddled,
                      syncFenced, syncUnread>>
        /\ syncPanel' = [syncPanel EXCEPT ![a] =
                            [rev |-> syncForm[a].rev, answers |-> syncForm[a].answers]]
    BY DEF Sync!OpenForm, Sync!ghost
  <1>2. /\ syncPanel'[a].rev = syncForm[a].rev /\ syncPanel'[a].answers = syncForm[a].answers
        /\ \A b \in Apps : b # a => syncPanel'[b] = syncPanel[b]
    BY <1>1 DEF SyncInv, SyncTypes
  <1>3. SyncTypes'
    <2>1. [rev |-> syncForm[a].rev, answers |-> syncForm[a].answers]
              \in [rev : 1..SyncRevisions, answers : Sync!Answers]
      BY <1>0 DEF Sync!Form
    <2> QED
      BY <1>1, <2>1 DEF SyncInv, SyncTypes
  <1>4. FormStep(a) /\ syncPanel'[a].rev <= syncForm'[a].rev
    BY <1>0, <1>1, <1>2 DEF FormStep, Sync!Form
  <1>5. Fresh(a) => Fresh(a)'
    BY <1>1, <1>2 DEF Fresh, PanelIsFresh
  <1>6. Half(a) => Half(a)'
    BY <1>1, <1>2 DEF Half, PanelIsFresh
  <1>7. \A s \in Savers : Pending(a, s) => Pending(a, s)'
    BY <1>1, <1>5 DEF Pending
  <1>8. syncAttempt'[a] # "none" => /\ syncSent'[a] = syncForm'[a].rev
                                    /\ syncForm'[a].status = "approved"
    BY <1>1 DEF SyncInv, Sync!AttemptStays
  <1> QED
    BY <1>1, <1>3, <1>4, <1>5, <1>6, <1>7, <1>8, FormStepOK

LEMMA SuggestOK ==
  ASSUME PartsAssumption, SyncInv, NEW a \in Apps, Sync!Suggest(a)
  PROVE  SyncInv'
  <1>0. /\ syncPanel[a] \in [rev : 1..SyncRevisions, answers : Sync!Answers]
        /\ syncPanel[a] # Sync!Free /\ syncRow \in Facts
    BY DEF Sync!Suggest, SyncInv, SyncTypes
  <1> DEFINE panel == [syncPanel[a] EXCEPT !.answers.fact = syncRow]
  <1>1. /\ UNCHANGED <<syncRow, syncForm, syncAttempt, syncSaves, syncEdits, syncSent, syncMuddled,
                      syncFenced, syncUnread>>
        /\ syncPanel' = [syncPanel EXCEPT ![a] = panel]
    BY DEF Sync!Suggest, Sync!ghost
  <1>2. /\ panel \in [rev : 1..SyncRevisions, answers : Sync!Answers]
        /\ panel.rev = syncPanel[a].rev /\ panel.answers.fact = syncRow
    BY <1>0 DEF Sync!Answers
  <1> HIDE DEF panel
  <1>3. syncPanel'[a] = panel /\ \A b \in Apps : b # a => syncPanel'[b] = syncPanel[b]
    BY <1>1 DEF SyncInv, SyncTypes
  <1>4. SyncTypes'
    BY <1>1, <1>2 DEF SyncInv, SyncTypes
  <1>5. FormStep(a) /\ syncPanel'[a].rev <= syncForm'[a].rev
    BY <1>0, <1>1, <1>2, <1>3 DEF FormStep, SyncInv, SyncTypes, ReadIsOlder, Sync!Form
  <1>6. (Fresh(a) => Fresh(a)') /\ Half(a)'
    BY <1>1, <1>2, <1>3 DEF Fresh, Half, PanelIsFresh
  <1>7. \A s \in Savers : Pending(a, s) => Pending(a, s)'
    BY <1>1, <1>6 DEF Pending
  <1>8. syncAttempt'[a] # "none" => /\ syncSent'[a] = syncForm'[a].rev
                                    /\ syncForm'[a].status = "approved"
    BY <1>1 DEF SyncInv, Sync!AttemptStays
  <1> QED
    BY <1>1, <1>4, <1>5, <1>6, <1>7, <1>8, FormStepOK

LEMMA ApproveOK ==
  ASSUME PartsAssumption, SyncInv, NEW a \in Apps, Sync!Approve(a)
  PROVE  SyncInv'
  <1>0. /\ syncPanel[a] \in [rev : 1..SyncRevisions, answers : Sync!Answers]
        /\ syncPanel[a] # Sync!Free /\ syncPanel[a].rev = syncForm[a].rev
        /\ syncForm[a] \in Sync!Form /\ syncForm[a].status = "prefilled"
        /\ syncEdits[a] + 1 \in 0..MaxEdits
    BY DEF Sync!Approve, Sync!NewestRevision, SyncInv, SyncTypes,
           PartsAssumption, Sync!SyncAssumption
  <1> DEFINE answers == [fact |-> syncPanel[a].answers.fact, own |-> syncEdits[a] + 1]
             form == [syncForm[a] EXCEPT !.status = "approved", !.answers = answers]
  <1>1. answers \in Sync!Answers
    BY <1>0 DEF Sync!Answers
  <1>2. /\ form \in Sync!Form /\ form.rev = syncForm[a].rev /\ form.status = "approved"
        /\ form.answers.fact = syncPanel[a].answers.fact
    BY <1>0, <1>1 DEF Sync!Form
  <1>3. /\ UNCHANGED <<syncRow, syncAttempt, syncSaves, syncPanel, syncSent, syncMuddled,
                      syncFenced, syncUnread>>
        /\ syncForm' = [syncForm EXCEPT ![a] = form]
        /\ syncEdits' = [syncEdits EXCEPT ![a] = @ + 1]
    BY <1>0 DEF Sync!Approve, SyncInv, SyncTypes, Sync!Form
  <1> HIDE DEF form
  <1>4. syncForm'[a] = form /\ \A b \in Apps : b # a => syncForm'[b] = syncForm[b]
    BY <1>3 DEF SyncInv, SyncTypes
  <1>5. SyncTypes'
    BY <1>0, <1>2, <1>3 DEF SyncInv, SyncTypes
  <1>6. FormStep(a) /\ syncPanel'[a].rev <= syncForm'[a].rev
    BY <1>0, <1>2, <1>3, <1>4 DEF FormStep, Sync!Form
  <1>7. (Fresh(a) => Fresh(a)') /\ Half(a)'
    BY <1>0, <1>2, <1>3, <1>4 DEF Fresh, Half, PanelIsFresh, Reviewable
  <1>8. \A s \in Savers : Pending(a, s) => Pending(a, s)'
    BY <1>2, <1>3, <1>4, <1>7 DEF Pending
  <1>9. syncAttempt[a] = "none"
    BY <1>0 DEF SyncInv, Sync!AttemptStays
  <1> QED
    BY <1>3, <1>5, <1>6, <1>7, <1>8, <1>9, FormStepOK

\* Submission: the form itself stays.
LEMMA SubmitOK ==
  ASSUME PartsAssumption, SyncInv, NEW a \in Apps,
         Sync!EnqueueSubmit(a) \/ Sync!SubmitEnds(a) \/ Sync!EnqueueScan(a)
  PROVE  SyncInv'
  <1>0. syncForm[a] \in Sync!Form /\ 0 \in 0..SyncRevisions
        /\ syncForm[a].rev \in 0..SyncRevisions /\ syncForm[a].rev \in Nat
    BY DEF SyncInv, SyncTypes, Sync!Form, PartsAssumption, Sync!SyncAssumption
  <1>1. UNCHANGED <<syncRow, syncForm, syncSaves, syncPanel, syncEdits, syncMuddled, syncFenced,
                  syncUnread>>
    BY DEF Sync!EnqueueSubmit, Sync!SubmitEnds, Sync!EnqueueScan, Sync!ghost
  <1>2. /\ syncAttempt' \in [Apps -> {"none", "failed", "lasting"}]
        /\ syncSent' \in [Apps -> 0..SyncRevisions]
        /\ \A b \in Apps : b # a => /\ syncAttempt'[b] = syncAttempt[b]
                                     /\ syncSent'[b] = syncSent[b]
        /\ syncAttempt'[a] # "none" => /\ syncSent'[a] = syncForm[a].rev
                                        /\ syncForm[a].status = "approved"
    <2>1. CASE Sync!EnqueueSubmit(a)
      BY <1>0, <2>1 DEF Sync!EnqueueSubmit, SyncInv, SyncTypes
    <2>2. CASE Sync!SubmitEnds(a)
      BY <1>0, <2>2 DEF Sync!SubmitEnds, SyncInv, SyncTypes, Sync!AttemptStays
    <2>3. CASE Sync!EnqueueScan(a)
      BY <2>3 DEF Sync!EnqueueScan, Sync!ghost, SyncInv, SyncTypes, Sync!AttemptStays
    <2> QED
      BY <2>1, <2>2, <2>3
  <1>3. SyncTypes'
    BY <1>1, <1>2 DEF SyncInv, SyncTypes
  <1>4. FormStep(a) /\ (syncPanel'[a] # Sync!Free => syncPanel'[a].rev <= syncForm'[a].rev)
    BY <1>0, <1>1, <1>2 DEF FormStep, SyncInv, ReadIsOlder
  <1>5. /\ Fresh(a) => Fresh(a)'
        /\ Half(a) => Half(a)'
        /\ \A s \in Savers : Pending(a, s) => Pending(a, s)'
    BY <1>1 DEF Fresh, Half, Pending, PanelIsFresh, Reviewable
  <1> QED
    BY <1>1, <1>2, <1>3, <1>4, <1>5, FormStepOK

LEMMA ScanOK ==
  ASSUME PartsAssumption, SyncInv, NEW a \in Apps, Sync!ScanEnds(a)
  PROVE  SyncInv'
  <1> DEFINE form == [Sync!Captured EXCEPT !.rev = syncForm[a].rev + 1]
  <1>0. /\ syncForm[a] \in Sync!Form /\ syncForm[a].rev \in 1..SyncRevisions
        /\ syncForm[a].rev \in Nat
        /\ SyncRevisions \in Nat /\ MaxEdits \in Nat /\ Nil \notin Facts
    BY DEF SyncInv, SyncTypes, Sync!Form, PartsAssumption, Sync!SyncAssumption
  <1>1. UNCHANGED <<syncRow, syncSaves, syncPanel, syncMuddled, syncFenced>>
    BY DEF Sync!ScanEnds
  <1>2. CASE syncForm[a].rev < SyncRevisions
    <2>1. /\ syncForm' = [syncForm EXCEPT ![a] = form]
          /\ syncEdits' = [syncEdits EXCEPT ![a] = 0]
          /\ syncAttempt' = [syncAttempt EXCEPT ![a] = "none"]
          /\ syncSent' = [syncSent EXCEPT ![a] = 0]
          /\ syncUnread' = syncUnread \ {a}
      BY <1>2 DEF Sync!ScanEnds
    <2>2. /\ form.rev = syncForm[a].rev + 1 /\ form.status = "prefilled"
          /\ form.answers = [fact |-> Nil, own |-> 0]
          /\ form = [rev |-> syncForm[a].rev + 1, status |-> "prefilled",
                     answers |-> [fact |-> Nil, own |-> 0]]
      BY DEF Sync!Captured
    <2>3. form \in Sync!Form
      BY <1>0, <1>2, <2>2 DEF Sync!Form, Sync!Answers
    <2> HIDE DEF form
    <2>4. /\ syncForm'[a] = form /\ syncAttempt'[a] = "none"
          /\ \A b \in Apps : b # a => /\ syncForm'[b] = syncForm[b]
                                       /\ syncAttempt'[b] = syncAttempt[b]
                                       /\ syncSent'[b] = syncSent[b]
      BY <2>1 DEF SyncInv, SyncTypes
    <2>5. SyncTypes'
      BY <1>0, <1>1, <2>1, <2>3 DEF SyncInv, SyncTypes
    <2>6. syncPanel[a] # Sync!Free
          => syncPanel[a].rev <= syncForm[a].rev /\ syncPanel[a].rev \in Nat
      BY DEF SyncInv, SyncTypes, ReadIsOlder
    <2>7. syncPanel'[a] # Sync!Free => syncPanel'[a].rev < syncForm'[a].rev
      BY <1>0, <1>1, <2>2, <2>4, <2>6
    <2>8. FormStep(a)
      BY <1>0, <1>1, <2>1, <2>2, <2>4 DEF FormStep
    <2>9. PanelIsFresh(a)'
      BY <1>0, <1>1, <2>2, <2>4, <2>6 DEF PanelIsFresh, Reviewable
    <2>10. Fresh(a)' /\ Half(a)'
      BY <2>2, <2>4, <2>9 DEF Fresh, Half
    <2>11. ASSUME NEW s \in Savers, syncSaves[s].pc = "sync" PROVE Pending(a, s)'
      <3>1. syncSaves[s] # Sync!Free /\ syncSaves[s] \in Sync!Save
        BY <2>11 DEF SyncInv, SyncTypes, Sync!Free
      <3>2. syncSaves[s].snap[a].rev <= syncForm[a].rev /\ syncSaves[s].snap[a].rev \in Nat
        BY <3>1 DEF SyncInv, ReadIsOlder, Sync!Save, Sync!Form
      <3>3. syncForm'[a].rev # syncSaves'[s].snap[a].rev
        BY <1>0, <1>1, <2>2, <2>4, <3>2
      <3> QED
        BY <2>10, <3>3 DEF Pending
    <2>12. syncPanel'[a] # Sync!Free => syncPanel'[a].rev <= syncForm'[a].rev
      BY <1>0, <1>1, <2>2, <2>4, <2>6
    <2> QED
      BY <2>4, <2>5, <2>8, <2>10, <2>11, <2>12, FormStepOK
  <1>3. CASE ~(syncForm[a].rev < SyncRevisions)
    <2>1. UNCHANGED <<syncForm, syncEdits, syncAttempt, syncSent, syncUnread>>
      BY <1>3 DEF Sync!ScanEnds
    <2>2. SyncTypes'
      BY <1>1, <2>1 DEF SyncInv, SyncTypes
    <2>3. /\ FormStep(a)
          /\ syncPanel'[a] # Sync!Free => syncPanel'[a].rev <= syncForm'[a].rev
          /\ syncAttempt'[a] # "none" => /\ syncSent'[a] = syncForm'[a].rev
                                          /\ syncForm'[a].status = "approved"
      BY <1>0, <1>1, <2>1 DEF FormStep, SyncInv, ReadIsOlder, Sync!AttemptStays
    <2>4. /\ Fresh(a) => Fresh(a)'
          /\ Half(a) => Half(a)'
          /\ \A s \in Savers : Pending(a, s) => Pending(a, s)'
      BY <1>1, <2>1 DEF Fresh, Half, Pending, PanelIsFresh, Reviewable
    <2> QED
      BY <2>1, <2>2, <2>3, <2>4, FormStepOK
  <1> QED
    BY <1>2, <1>3

\* A revision of a form that is not modelled leaves these as they are.
LEMMA ElsewhereOK ==
  ASSUME SyncInv, Sync!ScanElsewhere
  PROVE  SyncInv'
  <1>1. UNCHANGED <<syncRow, syncForm, syncAttempt, syncSaves, syncPanel, syncEdits, syncSent,
                  syncMuddled, syncFenced, syncUnread>>
    BY DEF Sync!ScanElsewhere, Sync!ghost
  <1>2. SyncTypes' /\ ReadIsOlder' /\ Sync!AttemptStays'
    BY <1>1 DEF SyncInv, SyncTypes, ReadIsOlder, Sync!AttemptStays
  <1>3. (NoTrouble => InTurn /\ RowIsWritten /\ FormsOK)'
    BY <1>1 DEF SyncInv, NoTrouble, InTurn, Busy, RowIsWritten, FormsOK, Followed, Fresh, Half,
                Pending, PanelIsFresh, Reviewable
  <1> QED
    BY <1>2, <1>3 DEF SyncInv

LEMMA SyncStep ==
  ASSUME PartsAssumption, SyncInv, UnreadIsOld, Sync!Next
  PROVE  SyncInv'
  BY PatchOK, WriteOK, ReadFormsOK, EndOK, SyncOneOK, OpenOK, SuggestOK, ApproveOK, SubmitOK,
     ScanOK, ElsewhereOK
     DEF Sync!Next

LEMMA UnreadStarts == ASSUME Sync!Init PROVE UnreadIsOld
  BY DEF Sync!Init, UnreadIsOld

LEMMA UnreadStep ==
  ASSUME PartsAssumption, UnreadIsOld, Sync!Next
  PROVE  UnreadIsOld'
  <1>0. SyncReads \in Nat
    BY DEF PartsAssumption, Sync!SyncAssumption
  <1>1. ASSUME NEW of \in SUBSET Apps, syncLater' = Sync!After(of), syncUnread' = syncUnread \ of
        PROVE  UnreadIsOld'
    <2>1. \A a \in Apps : syncLater[a] \in 0..SyncReads
      BY DEF UnreadIsOld
    <2>2. syncLater' \in [Apps -> 0..SyncReads]
      BY <1>0, <1>1, <2>1 DEF Sync!After
    <2>3. ASSUME NEW a \in syncUnread' PROVE syncLater'[a] = SyncReads
      <3>1. a \in Apps /\ a \notin of /\ syncLater[a] = SyncReads
        BY <1>1, <2>3 DEF UnreadIsOld
      <3> QED
        BY <1>1, <3>1 DEF Sync!After
    <2> QED
      BY <1>1, <2>2, <2>3 DEF UnreadIsOld
  <1>2. CASE UNCHANGED <<syncLater, syncUnread>>
    BY <1>2 DEF UnreadIsOld
  <1>3. ASSUME NEW s \in Savers, Sync!ReadForms(s) PROVE UnreadIsOld'
    BY <1>3 DEF Sync!ReadForms, UnreadIsOld
  <1>4. ASSUME NEW s \in Savers, NEW a \in Apps, Sync!SyncOne(s, a) PROVE UnreadIsOld'
    BY <1>1, <1>2, <1>4 DEF Sync!SyncOne
  <1>5. ASSUME NEW a \in Apps, Sync!ScanEnds(a) PROVE UnreadIsOld'
    BY <1>1, <1>2, <1>5 DEF Sync!ScanEnds
  <1>6. CASE Sync!ScanElsewhere
    BY <1>1, <1>6 DEF Sync!ScanElsewhere, Sync!ghost
  <1> QED
    BY <1>2, <1>3, <1>4, <1>5, <1>6
       DEF Sync!Next, Sync!PatchProfile, Sync!WriteRow, Sync!SyncFails, Sync!Saved, Sync!OpenForm,
           Sync!Suggest, Sync!Approve, Sync!EnqueueSubmit, Sync!SubmitEnds, Sync!EnqueueScan,
           Sync!ghost

\* An approval ends with the answers it was given for.
LEMMA ApprovalStays ==
  ASSUME PartsAssumption, SyncInv, Sync!Next, NEW a \in Apps,
         syncForm[a].status = "approved", syncForm'[a].status = "approved"
  PROVE  syncForm'[a].answers = syncForm[a].answers
  <1>1. ASSUME NEW s \in Savers, NEW b \in Apps, Sync!SyncOne(s, b)
        PROVE  syncForm'[a].answers = syncForm[a].answers
    <2>1. syncForm' = [syncForm EXCEPT ![b] = Sync!Merged(b, s)] \/ UNCHANGED syncForm
      BY <1>1 DEF Sync!SyncOne
    <2>2. Sync!Merged(b, s).status = "prefilled"
      BY DEF Sync!Merged
    <2> QED
      BY <2>1, <2>2 DEF SyncInv, SyncTypes
  <1>2. ASSUME NEW b \in Apps, Sync!Approve(b)
        PROVE  syncForm'[a].answers = syncForm[a].answers
    <2>1. b # a
      BY <1>2 DEF Sync!Approve
    <2> QED
      BY <1>2, <2>1 DEF Sync!Approve, SyncInv, SyncTypes
  <1>3. ASSUME NEW b \in Apps, Sync!ScanEnds(b)
        PROVE  syncForm'[a].answers = syncForm[a].answers
    <2>1. \/ syncForm' = [syncForm EXCEPT ![b] = [Sync!Captured EXCEPT !.rev = syncForm[b].rev + 1]]
          \/ UNCHANGED syncForm
      BY <1>3 DEF Sync!ScanEnds
    <2>2. [Sync!Captured EXCEPT !.rev = syncForm[b].rev + 1].status = "prefilled"
      BY DEF Sync!Captured
    <2> QED
      BY <2>1, <2>2 DEF SyncInv, SyncTypes
  <1>4. CASE UNCHANGED syncForm
    BY <1>4
  <1> QED
    BY <1>1, <1>2, <1>3, <1>4
       DEF Sync!Next, Sync!PatchProfile, Sync!WriteRow, Sync!ReadForms, Sync!SyncFails, Sync!Saved,
           Sync!OpenForm, Sync!Suggest, Sync!EnqueueSubmit, Sync!SubmitEnds, Sync!EnqueueScan,
           Sync!ScanElsewhere

-----------------------------------------------------------------------------
(* Resumes *)

ResumeCall == [kind : {"none", "parse", "delete"}, step : {1, 2, 3}, id : Nat, slot : UploadSlots,
               sha : FewFiles, data : FewFiles \cup {Nil}]

UploadTypes ==
    /\ resumeObject \in [UploadSlots -> FewFiles \cup {Nil}]
    /\ resumeRow \in [UploadSlots -> Upload!Row \cup {Nil}]
    /\ resumeIds \in 0..UploadIds
    /\ resumePage \in [FewTabs -> Upload!Page]
    /\ resumeCall \in [FewTabs -> ResumeCall]
    /\ resumeLost \in BOOLEAN

\* What is not there is no record.
NilIsNoRow == Nil \notin Upload!Row

HasRow(s) == resumeRow[s] # Nil

IdsAreOwn ==
    /\ \A s \in UploadSlots : HasRow(s) => resumeRow[s].id <= resumeIds
    /\ \A r, s \in UploadSlots :
          HasRow(r) /\ HasRow(s) /\ resumeRow[r].id = resumeRow[s].id => r = s

Agree(s) == (resumeObject[s] = Nil) <=> (resumeRow[s] = Nil)

\* The slot of an upload that is stored and not registered, and of a deletion
\* whose file is gone and whose row is not.
Uploaded(t, s) == resumePage[t].at \in {"register", "remove"} /\ resumePage[t].slot = s
Deleting(t, s) == resumeCall[t].kind = "delete" /\ resumeCall[t].slot = s

TabInv(t) ==
    /\ resumePage[t].at # "idle" => resumeCall[t].kind # "delete"
    /\ \A s \in UploadSlots :
          /\ Uploaded(t, s) => resumeObject[s] # Nil /\ ~HasRow(s)
          /\ Deleting(t, s) =>
                /\ HasRow(s) /\ resumeRow[s].id = resumeCall[t].id
                /\ resumeCall[t].step = 1 => resumeObject[s] # Nil
                /\ resumeCall[t].step = 2 => resumeObject[s] = Nil
                /\ resumeCall[t].step # 3
          /\ ~Uploaded(t, s) /\ ~(Deleting(t, s) /\ resumeCall[t].step = 2) => Agree(s)

UploadInv ==
    /\ UploadTypes
    /\ IdsAreOwn
    /\ Upload!OneActive
    /\ FewTabs = {} => \A s \in UploadSlots : Agree(s)
    /\ (Upload!SingleTab /\ ~resumeLost) => \A t \in FewTabs : TabInv(t)

LEMMA NilIsNone == ASSUME PartsAssumption PROVE NilIsNoRow /\ UploadIds \in Nat
  BY DEF PartsAssumption, Upload!ResumeAssumption, NilIsNoRow

LEMMA UploadHolds ==
  ASSUME UploadInv
  PROVE  Upload!OneActive /\ Upload!NothingLeftBehind
  <1>1. ASSUME Upload!SingleTab, Upload!Quiet, ~resumeLost, NEW s \in UploadSlots
        PROVE  Agree(s)
    <2>1. CASE FewTabs = {}
      BY <2>1 DEF UploadInv
    <2>2. ASSUME NEW t \in FewTabs PROVE Agree(s)
      <3>1. TabInv(t) /\ resumePage[t].at = "idle" /\ resumeCall[t].kind = "none"
        BY <1>1 DEF UploadInv, Upload!Quiet
      <3> QED
        BY <3>1 DEF TabInv, Uploaded, Deleting
    <2> QED
      BY <2>1, <2>2
  <1> QED
    BY <1>1 DEF UploadInv, Upload!NothingLeftBehind, Agree

LEMMA UploadStarts == ASSUME PartsAssumption, Upload!Init PROVE UploadInv
  <1>1. PICK s \in UploadSlots, f \in FewFiles :
          /\ resumePage = [t \in FewTabs |-> [at |-> "idle", slot |-> s, file |-> f]]
          /\ resumeCall = [t \in FewTabs |-> [kind |-> "none", step |-> 1, id |-> 0, slot |-> s,
                                              sha |-> f, data |-> Nil]]
    BY DEF Upload!Init
  <1>2. /\ resumeObject = [z \in UploadSlots |-> Nil] /\ resumeRow = [z \in UploadSlots |-> Nil]
        /\ resumeIds = 0 /\ resumeLost = FALSE
    BY DEF Upload!Init
  <1>3. UploadTypes
    <2>1. 0 \in 0..UploadIds
      BY NilIsNone
    <2>2. /\ [at |-> "idle", slot |-> s, file |-> f] \in Upload!Page
          /\ [kind |-> "none", step |-> 1, id |-> 0, slot |-> s, sha |-> f, data |-> Nil]
                 \in ResumeCall
      BY DEF Upload!Page, ResumeCall
    <2> QED
      BY <1>1, <1>2, <2>1, <2>2 DEF UploadTypes
  <1>4. \A t \in FewTabs : TabInv(t)
    BY <1>1, <1>2 DEF TabInv, Uploaded, Deleting, Agree, HasRow
  <1>5. IdsAreOwn /\ Upload!OneActive /\ \A z \in UploadSlots : Agree(z)
    BY <1>2 DEF IdsAreOwn, HasRow, Upload!OneActive, Agree
  <1> QED
    BY <1>3, <1>4, <1>5 DEF UploadInv

-----------------------------------------------------------------------------
\* Steps that leave the rows alone

LEMMA RowsStay ==
  ASSUME UploadInv, UNCHANGED <<resumeRow, resumeIds>>
  PROVE  IdsAreOwn' /\ Upload!OneActive'
  BY DEF UploadInv, IdsAreOwn, HasRow, Upload!OneActive

\* With one tab there is nobody else.
LEMMA Alone ==
  ASSUME Upload!SingleTab, NEW t \in FewTabs, NEW u \in FewTabs
  PROVE  u = t
  BY DEF Upload!SingleTab

LEMMA ChooseSlotOK ==
  ASSUME PartsAssumption, UploadInv, NEW t \in FewTabs, NEW f \in FewFiles,
         Upload!ChooseSlot(t, f)
  PROVE  UploadInv'
  <1>1. PICK s \in UploadSlots :
          resumePage' = [resumePage EXCEPT ![t] = [at |-> "upload", slot |-> s, file |-> f]]
    BY DEF Upload!ChooseSlot
  <1>2. /\ UNCHANGED <<resumeObject, resumeRow, resumeIds, resumeCall>>
        /\ resumePage[t].at = "idle"
        /\ resumeLost' = (resumeLost \/ \E u \in FewTabs : resumeCall[u].kind = "delete")
    BY DEF Upload!ChooseSlot
  <1>3. UploadTypes'
    BY <1>1, <1>2 DEF UploadInv, UploadTypes, Upload!Page
  <1>4. ASSUME Upload!SingleTab, ~resumeLost', NEW u \in FewTabs PROVE TabInv(u)'
    <2>1. u = t
      BY <1>4, Alone
    <2>2. TabInv(t) /\ resumeCall[t].kind # "delete"
      BY <1>2, <1>4 DEF UploadInv
    <2>3. resumePage'[t].at = "upload"
      BY <1>1 DEF UploadInv, UploadTypes
    <2> QED
      BY <1>2, <2>1, <2>2, <2>3 DEF TabInv, Uploaded, Deleting, Agree, HasRow
  <1> QED
    BY <1>2, <1>3, <1>4, RowsStay DEF UploadInv, Upload!SingleTab, Agree

LEMMA UploadOK ==
  ASSUME PartsAssumption, UploadInv, NEW t \in FewTabs, Upload!Upload(t)
  PROVE  UploadInv'
  <1>a. resumePage[t] \in Upload!Page
    BY DEF UploadInv, UploadTypes
  <1>b. PICK s \in UploadSlots : s = resumePage[t].slot
    BY <1>a DEF Upload!Page
  <1>0. resumePage[t] \in Upload!Page /\ resumePage[t].at = "upload"
        /\ resumePage[t].slot = s /\ resumePage[t].file \in FewFiles
        /\ resumePage[t].file # Nil
    BY <1>a, <1>b DEF Upload!Upload, Upload!Page, PartsAssumption, Upload!ResumeAssumption
  <1>1. UNCHANGED <<resumeRow, resumeIds, resumeCall>>
    BY DEF Upload!Upload
  <1>2. \/ /\ resumeObject[s] = Nil
           /\ resumeObject' = [resumeObject EXCEPT ![s] = resumePage[t].file]
           /\ resumePage' = [resumePage EXCEPT ![t].at = "register"] /\ UNCHANGED resumeLost
        \/ /\ resumeObject' = [resumeObject EXCEPT ![s] = resumePage[t].file]
           /\ resumePage' = [resumePage EXCEPT ![t].at = "idle"] /\ resumeLost' = TRUE
        \/ /\ resumePage' = [resumePage EXCEPT ![t].at = "idle"]
           /\ UNCHANGED <<resumeObject, resumeLost>>
    BY <1>b DEF Upload!Upload
  <1>3. UploadTypes'
    <2>1. resumeObject' \in [UploadSlots -> FewFiles \cup {Nil}]
      BY <1>0, <1>2 DEF UploadInv, UploadTypes
    <2>2. \A at \in {"idle", "register"} : [resumePage[t] EXCEPT !.at = at] \in Upload!Page
      BY <1>0 DEF Upload!Page
    <2>3. resumePage' \in [FewTabs -> Upload!Page]
      BY <1>2, <2>2 DEF UploadInv, UploadTypes
    <2> QED
      BY <1>1, <1>2, <2>1, <2>3 DEF UploadInv, UploadTypes
  <1>4. ASSUME Upload!SingleTab, ~resumeLost', NEW u \in FewTabs PROVE TabInv(u)'
    <2>1. u = t /\ ~resumeLost
      BY <1>2, <1>4, Alone
    <2>2. TabInv(t) /\ resumeCall[t].kind # "delete"
      BY <1>0, <1>4, <2>1 DEF UploadInv, TabInv
    <2>3. \A z \in UploadSlots : Agree(z)
      BY <1>0, <2>2 DEF TabInv, Uploaded, Deleting
    <2>4. CASE /\ resumeObject[s] = Nil
               /\ resumeObject' = [resumeObject EXCEPT ![s] = resumePage[t].file]
               /\ resumePage' = [resumePage EXCEPT ![t].at = "register"]
      <3>1. resumePage'[t].at = "register" /\ resumePage'[t].slot = s
        BY <1>0, <2>4 DEF UploadInv, UploadTypes, Upload!Page
      <3>2. /\ resumeObject'[s] # Nil /\ ~HasRow(s)
            /\ \A z \in UploadSlots : z # s => resumeObject'[z] = resumeObject[z]
        BY <1>0, <2>3, <2>4 DEF UploadInv, UploadTypes, Agree, HasRow
      <3> QED
        BY <1>0, <1>1, <2>1, <2>2, <2>3, <3>1, <3>2 DEF TabInv, Uploaded, Deleting, Agree, HasRow
    <2>5. CASE resumePage' = [resumePage EXCEPT ![t].at = "idle"] /\ UNCHANGED resumeObject
      <3>1. resumePage'[t].at = "idle"
        BY <1>0, <2>5 DEF UploadInv, UploadTypes, Upload!Page
      <3> QED
        BY <1>1, <2>1, <2>2, <2>3, <2>5, <3>1 DEF TabInv, Uploaded, Deleting, Agree, HasRow
    <2> QED
      BY <1>2, <1>4, <2>4, <2>5
  <1>5. FewTabs # {}
    OBVIOUS
  <1> QED
    BY <1>1, <1>3, <1>4, <1>5, RowsStay DEF UploadInv, Upload!SingleTab

LEMMA RegisterOK ==
  ASSUME PartsAssumption, UploadInv, NEW t \in FewTabs, Upload!Register(t)
  PROVE  UploadInv'
  <1>a. resumePage[t] \in Upload!Page
    BY DEF UploadInv, UploadTypes
  <1>b. PICK s \in UploadSlots : s = resumePage[t].slot
    BY <1>a DEF Upload!Page
  <1> DEFINE new == [id |-> Upload!RowId(s), sha |-> resumePage[t].file, parse |-> "uploaded",
                    text |-> Nil, active |-> TRUE]
  <1>0. resumePage[t] \in Upload!Page /\ resumePage[t].at = "register"
        /\ resumePage[t].slot = s /\ resumePage[t].file \in FewFiles
    BY <1>a, <1>b DEF Upload!Register, Upload!Page
  <1>1. UNCHANGED <<resumeObject, resumeCall>>
    BY DEF Upload!Register
  <1>2. CASE /\ Upload!Registers(s, resumePage[t].file)
             /\ \/ resumePage' = [resumePage EXCEPT ![t].at = "idle"] /\ UNCHANGED resumeLost
                \/ resumePage' = [resumePage EXCEPT ![t].at = "remove"] /\ resumeLost' = TRUE
    <2>1. PICK at \in {"idle", "remove"} :
             /\ resumePage' = [resumePage EXCEPT ![t].at = at]
             /\ resumeLost' \in BOOLEAN
             /\ ~resumeLost' => ~resumeLost /\ at = "idle"
      <3>0. resumeLost \in BOOLEAN
        BY DEF UploadInv, UploadTypes
      <3>1. CASE resumePage' = [resumePage EXCEPT ![t].at = "idle"] /\ UNCHANGED resumeLost
        BY <3>0, <3>1
      <3>2. CASE resumePage' = [resumePage EXCEPT ![t].at = "remove"] /\ resumeLost' = TRUE
        BY <3>2
      <3> QED
        BY <1>2, <3>1, <3>2
    <2>2. Upload!RowId(s) \in 1..UploadIds /\ resumeIds' \in 0..UploadIds
      <3>1. HasRow(s) => resumeRow[s] \in Upload!Row
        BY <1>0 DEF UploadInv, UploadTypes, HasRow
      <3>2. resumeIds \in 0..UploadIds /\ (resumeRow[s] = Nil => resumeIds < UploadIds)
        BY <1>2 DEF UploadInv, UploadTypes, Upload!Registers
      <3> QED
        BY <1>2, <3>1, <3>2, NilIsNone DEF Upload!RowId, HasRow, Upload!Row, Upload!Registers
    <2>3. new \in Upload!Row /\ new.id = Upload!RowId(s) /\ new.active
      BY <1>0, <2>2 DEF Upload!Row
    <2>4. /\ resumeRow' = [Upload!OthersInactive(s) EXCEPT ![s] = new]
          /\ resumeIds' = IF resumeRow[s] = Nil THEN resumeIds + 1 ELSE resumeIds
          /\ resumeObject[s] # Nil
      BY <1>2 DEF Upload!Registers
    <2> HIDE DEF new
    <2>5. /\ resumeRow'[s] = new
          /\ \A r \in UploadSlots : r # s =>
                resumeRow'[r] = IF resumeRow[r] # Nil THEN [resumeRow[r] EXCEPT !.active = FALSE]
                                ELSE resumeRow[r]
      BY <1>0, <2>4 DEF Upload!OthersInactive
    <2>6. ASSUME NEW r \in UploadSlots, r # s
          PROVE  /\ resumeRow'[r] \in Upload!Row \cup {Nil}
                 /\ HasRow(r)' <=> HasRow(r)
                 /\ HasRow(r) => resumeRow'[r].id = resumeRow[r].id /\ ~resumeRow'[r].active
      <3>1. CASE resumeRow[r] = Nil
        BY <2>5, <2>6, <3>1 DEF HasRow
      <3>2. CASE resumeRow[r] # Nil
        <4>1. resumeRow[r] \in Upload!Row
          BY <3>2 DEF UploadInv, UploadTypes
        <4>2. resumeRow'[r] = [resumeRow[r] EXCEPT !.active = FALSE]
          BY <2>5, <2>6, <3>2
        <4>3. resumeRow'[r] \in Upload!Row
          BY <4>1, <4>2 DEF Upload!Row
        <4>4. resumeRow'[r].id = resumeRow[r].id /\ ~resumeRow'[r].active
          BY <4>1, <4>2 DEF Upload!Row
        <4> QED
          BY <3>2, <4>3, <4>4, NilIsNone DEF HasRow, NilIsNoRow
      <3> QED
        BY <3>1, <3>2
    <2>7. UploadTypes'
      <3>1. \A r \in UploadSlots : resumeRow'[r] \in Upload!Row \cup {Nil}
        BY <2>3, <2>5, <2>6
      <3>2. resumeRow' = [r \in UploadSlots |-> resumeRow'[r]]
        BY <2>4 DEF Upload!OthersInactive
      <3>3. resumeRow' \in [UploadSlots -> Upload!Row \cup {Nil}]
        BY <3>1, <3>2
      <3>4. resumePage' \in [FewTabs -> Upload!Page]
        BY <2>1 DEF UploadInv, UploadTypes, Upload!Page
      <3> QED
        BY <1>1, <2>1, <2>2, <3>3, <3>4 DEF UploadInv, UploadTypes
    <2>8. HasRow(s)' /\ resumeRow'[s].id <= resumeIds' /\ resumeIds' \in Nat
          /\ resumeIds <= resumeIds'
      <3>1. HasRow(s)'
        BY <2>3, <2>5, NilIsNone DEF HasRow, NilIsNoRow
      <3>2. HasRow(s) => resumeRow[s].id <= resumeIds
        BY <1>0 DEF UploadInv, IdsAreOwn
      <3>3. resumeIds \in Nat
        BY DEF UploadInv, UploadTypes
      <3> QED
        BY <2>3, <2>4, <2>5, <3>1, <3>2, <3>3 DEF HasRow, Upload!RowId
    <2>9. IdsAreOwn'
      <3>1. ASSUME NEW r \in UploadSlots, HasRow(r)' PROVE resumeRow'[r].id <= resumeIds'
        <4>1. CASE r = s
          BY <2>8, <4>1
        <4>2. CASE r # s
          <5>1. HasRow(r) /\ resumeRow'[r].id = resumeRow[r].id
            BY <2>6, <3>1, <4>2
          <5>2. resumeRow[r].id <= resumeIds /\ resumeRow[r].id \in Nat /\ resumeIds \in Nat
            BY <5>1 DEF UploadInv, UploadTypes, IdsAreOwn, HasRow, Upload!Row
          <5> QED
            BY <2>8, <5>1, <5>2
        <4> QED
          BY <4>1, <4>2
      <3>2. ASSUME NEW r \in UploadSlots, r # s, HasRow(r) PROVE resumeRow[r].id # new.id
        <4>1. resumeRow[r].id <= resumeIds /\ resumeRow[r].id \in Nat /\ resumeIds \in Nat
          BY <3>2 DEF UploadInv, UploadTypes, IdsAreOwn, HasRow, Upload!Row
        <4>2. CASE resumeRow[s] = Nil
          BY <2>3, <4>1, <4>2 DEF Upload!RowId
        <4>3. CASE resumeRow[s] # Nil
          BY <1>0, <2>3, <3>2, <4>3 DEF Upload!RowId, UploadInv, IdsAreOwn, HasRow
        <4> QED
          BY <4>2, <4>3
      <3>3. ASSUME NEW r \in UploadSlots, NEW z \in UploadSlots, HasRow(r)', HasRow(z)',
                   resumeRow'[r].id = resumeRow'[z].id
            PROVE  r = z
        <4>1. CASE r = s \/ z = s
          BY <2>5, <2>6, <3>2, <3>3, <4>1
        <4>2. CASE r # s /\ z # s
          BY <2>6, <3>3, <4>2 DEF UploadInv, IdsAreOwn
        <4> QED
          BY <4>1, <4>2
      <3> QED
        BY <3>1, <3>3 DEF IdsAreOwn
    <2>10. Upload!OneActive'
      BY <2>6 DEF Upload!OneActive, HasRow
    <2>11. ASSUME Upload!SingleTab, ~resumeLost', NEW u \in FewTabs PROVE TabInv(u)'
      <3>1. u = t /\ ~resumeLost /\ resumePage'[t].at = "idle"
        BY <1>0, <2>1, <2>11, Alone DEF UploadInv, UploadTypes, Upload!Page
      <3>2. TabInv(t) /\ resumeCall[t].kind # "delete"
        BY <1>0, <2>11, <3>1 DEF UploadInv, TabInv
      <3>3. \A r \in UploadSlots : Agree(r)'
        <4>1. Agree(s)'
          BY <1>0, <1>1, <2>4, <2>8 DEF Agree, HasRow
        <4>2. \A r \in UploadSlots : r # s => Agree(r)
          BY <1>0, <3>2 DEF TabInv, Uploaded, Deleting
        <4>3. \A r \in UploadSlots : r # s => Agree(r)'
          BY <1>1, <2>6, <4>2 DEF Agree, HasRow
        <4> QED
          BY <4>1, <4>3
      <3> QED
        BY <1>1, <3>1, <3>2, <3>3 DEF TabInv, Uploaded, Deleting
    <2> QED
      BY <2>7, <2>9, <2>10, <2>11 DEF UploadInv, Upload!SingleTab
  <1>3. CASE /\ resumePage' = [resumePage EXCEPT ![t].at = "remove"]
             /\ UNCHANGED <<resumeRow, resumeIds, resumeLost>>
    <2>1. UploadTypes'
      BY <1>1, <1>3 DEF UploadInv, UploadTypes, Upload!Page
    <2>2. ASSUME Upload!SingleTab, ~resumeLost', NEW u \in FewTabs PROVE TabInv(u)'
      <3>1. u = t /\ ~resumeLost /\ resumePage'[t].at = "remove" /\ resumePage'[t].slot = s
        BY <1>0, <1>3, <2>2, Alone DEF UploadInv, UploadTypes, Upload!Page
      <3>2. TabInv(t)
        BY <2>2, <3>1 DEF UploadInv
      <3> QED
        BY <1>0, <1>1, <1>3, <3>1, <3>2 DEF TabInv, Uploaded, Deleting, Agree, HasRow
    <2> QED
      BY <1>3, <2>1, <2>2, RowsStay DEF UploadInv, Upload!SingleTab
  <1> QED
    BY <1>b, <1>2, <1>3 DEF Upload!Register, Upload!AfterFailure

LEMMA RemoveOK ==
  ASSUME PartsAssumption, UploadInv, NEW t \in FewTabs, Upload!Remove(t)
  PROVE  UploadInv'
  <1>a. resumePage[t] \in Upload!Page
    BY DEF UploadInv, UploadTypes
  <1>b. PICK s \in UploadSlots : s = resumePage[t].slot
    BY <1>a DEF Upload!Page
  <1>0. /\ resumePage[t].at = "remove" /\ UNCHANGED <<resumeRow, resumeIds, resumeCall>>
        /\ resumePage' = [resumePage EXCEPT ![t].at = "idle"]
    BY DEF Upload!Remove
  <1>1. \/ resumeObject' = [resumeObject EXCEPT ![s] = Nil] /\ UNCHANGED resumeLost
        \/ UNCHANGED resumeObject /\ resumeLost' = TRUE
    BY <1>b DEF Upload!Remove
  <1>2. UploadTypes'
    <2>1. resumeObject' \in [UploadSlots -> FewFiles \cup {Nil}]
      BY <1>1 DEF UploadInv, UploadTypes
    <2>2. resumePage' \in [FewTabs -> Upload!Page]
      BY <1>0 DEF UploadInv, UploadTypes, Upload!Page
    <2> QED
      BY <1>0, <1>1, <2>1, <2>2 DEF UploadInv, UploadTypes
  <1>3. ASSUME Upload!SingleTab, ~resumeLost', NEW u \in FewTabs PROVE TabInv(u)'
    <2>1. u = t /\ ~resumeLost
      BY <1>1, <1>3, Alone
    <2>2. TabInv(t) /\ resumeCall[t].kind # "delete"
      BY <1>0, <1>3, <2>1 DEF UploadInv, TabInv
    <2>3. resumePage'[t].at = "idle"
      BY <1>0, <1>a DEF UploadInv, UploadTypes, Upload!Page
    <2>4. resumeObject' = [resumeObject EXCEPT ![s] = Nil]
      BY <1>1, <1>3
    <2>5. \A r \in UploadSlots : Agree(r)'
      <3>1. Agree(s)'
        BY <1>0, <1>b, <2>2, <2>4 DEF TabInv, Uploaded, Agree, HasRow, UploadInv, UploadTypes
      <3>2. \A r \in UploadSlots : r # s => Agree(r)
        BY <1>b, <2>2 DEF TabInv, Uploaded, Deleting
      <3>3. \A r \in UploadSlots : r # s => Agree(r)'
        BY <1>0, <2>4, <3>2 DEF Agree, UploadInv, UploadTypes
      <3> QED
        BY <3>1, <3>3
    <2> QED
      BY <1>0, <2>1, <2>2, <2>3, <2>5 DEF TabInv, Uploaded, Deleting
  <1> QED
    BY <1>0, <1>2, <1>3, RowsStay DEF UploadInv, Upload!SingleTab

LEMMA AsksOK ==
  ASSUME PartsAssumption, UploadInv, NEW t \in FewTabs, NEW s \in UploadSlots,
         NEW kind \in {"parse", "delete"}, Upload!Asks(t, kind, s)
  PROVE  UploadInv'
  <1>0. /\ UNCHANGED <<resumeObject, resumeRow, resumeIds, resumePage>>
        /\ HasRow(s) /\ resumeCall[t].kind = "none"
        /\ resumeLost' =
              (resumeLost \/ (kind = "delete" /\ \E u \in FewTabs : resumePage[u].at # "idle"))
    BY DEF Upload!Asks, HasRow
  <1>1. resumeCall' = [resumeCall EXCEPT ![t] =
           [kind |-> kind, step |-> 1, id |-> resumeRow[s].id, slot |-> s,
            sha |-> resumeRow[s].sha, data |-> Nil]]
    BY DEF Upload!Asks
  <1>2. resumeRow[s].id \in Nat /\ resumeRow[s].sha \in FewFiles
    BY <1>0 DEF UploadInv, UploadTypes, HasRow, Upload!Row
  <1>3. UploadTypes'
    <2>1. [kind |-> kind, step |-> 1, id |-> resumeRow[s].id, slot |-> s,
           sha |-> resumeRow[s].sha, data |-> Nil] \in ResumeCall
      BY <1>2 DEF ResumeCall
    <2>2. resumeCall' \in [FewTabs -> ResumeCall]
      BY <1>1, <2>1 DEF UploadInv, UploadTypes
    <2>3. resumeLost' \in BOOLEAN
      BY <1>0
    <2> QED
      BY <1>0, <2>2, <2>3 DEF UploadInv, UploadTypes
  <1>4. ASSUME Upload!SingleTab, ~resumeLost', NEW u \in FewTabs PROVE TabInv(u)'
    <2>1. u = t /\ ~resumeLost /\ (kind = "delete" => resumePage[t].at = "idle")
      BY <1>0, <1>4, Alone
    <2>2. TabInv(t)
      BY <1>4, <2>1 DEF UploadInv
    <2>3. /\ resumeCall'[t].kind = kind /\ resumeCall'[t].slot = s /\ resumeCall'[t].step = 1
          /\ resumeCall'[t].id = resumeRow[s].id
      BY <1>1 DEF UploadInv, UploadTypes
    <2>4. CASE kind = "parse"
      BY <1>0, <2>1, <2>2, <2>3, <2>4 DEF TabInv, Uploaded, Deleting, Agree, HasRow
    <2>5. CASE kind = "delete"
      <3>1. \A r \in UploadSlots : Agree(r) /\ ~Uploaded(t, r)
        BY <1>0, <2>1, <2>2, <2>5 DEF TabInv, Uploaded, Deleting
      <3> QED
        BY <1>0, <2>1, <2>3, <2>5, <3>1 DEF TabInv, Uploaded, Deleting, Agree, HasRow
    <2> QED
      BY <2>4, <2>5
  <1> QED
    BY <1>0, <1>3, <1>4, RowsStay DEF UploadInv, Upload!SingleTab

-----------------------------------------------------------------------------
\* A call of the server

\* A parse request changes neither what is stored nor which rows there are.
RowsKept ==
    /\ UNCHANGED <<resumeObject, resumeIds, resumePage>>
    /\ resumeRow' \in [UploadSlots -> Upload!Row \cup {Nil}]
    /\ \A s \in UploadSlots :
          /\ HasRow(s)' <=> HasRow(s)
          /\ HasRow(s) => /\ resumeRow'[s].id = resumeRow[s].id
                          /\ resumeRow'[s].active = resumeRow[s].active

LEMMA ParseOK ==
  ASSUME PartsAssumption, UploadInv, NEW t \in FewTabs, RowsKept,
         resumeCall[t].kind # "delete", resumeCall'[t].kind # "delete",
         \A u \in FewTabs : u # t => resumeCall'[u] = resumeCall[u],
         resumeCall' \in [FewTabs -> ResumeCall],
         resumeLost' \in BOOLEAN, ~resumeLost' => ~resumeLost
  PROVE  UploadInv'
  <1>1. UploadTypes'
    BY DEF UploadInv, UploadTypes, RowsKept
  <1>2. IdsAreOwn' /\ Upload!OneActive'
    <2>1. IdsAreOwn'
      BY DEF UploadInv, IdsAreOwn, RowsKept
    <2>2. Upload!OneActive'
      BY DEF UploadInv, Upload!OneActive, RowsKept, HasRow
    <2> QED
      BY <2>1, <2>2
  <1>3. ASSUME Upload!SingleTab, ~resumeLost', NEW u \in FewTabs PROVE TabInv(u)'
    <2>1. u = t /\ TabInv(t)
      BY <1>3, Alone DEF UploadInv
    <2>2. ASSUME NEW s \in UploadSlots
          PROVE  /\ ~Deleting(t, s) /\ ~Deleting(t, s)'
                 /\ Uploaded(t, s)' <=> Uploaded(t, s)
                 /\ HasRow(s)' <=> HasRow(s)
                 /\ Agree(s)' <=> Agree(s)
                 /\ UNCHANGED resumeObject
      BY DEF RowsKept, Deleting, Uploaded, Agree, HasRow
    <2> QED
      BY <2>1, <2>2 DEF TabInv, RowsKept
  <1> QED
    BY <1>1, <1>2, <1>3 DEF UploadInv, Upload!SingleTab

LEMMA MarkParsingOK ==
  ASSUME PartsAssumption, UploadInv, NEW t \in FewTabs, Upload!MarkParsing(t)
  PROVE  UploadInv'
  <1>0. /\ resumeCall[t].kind = "parse" /\ resumeCall' = [resumeCall EXCEPT ![t].step = 2]
        /\ UNCHANGED <<resumeObject, resumeIds, resumePage, resumeLost>>
    BY DEF Upload!MarkParsing
  <1>1. resumeRow' = [s \in UploadSlots |-> IF s \in Upload!OfCall(t)
                                            THEN [resumeRow[s] EXCEPT !.parse = "parsing"]
                                            ELSE resumeRow[s]]
    BY DEF Upload!MarkParsing
  <1>2. ASSUME NEW s \in UploadSlots
        PROVE  /\ resumeRow'[s] \in Upload!Row \cup {Nil}
               /\ HasRow(s)' <=> HasRow(s)
               /\ HasRow(s) => /\ resumeRow'[s].id = resumeRow[s].id
                               /\ resumeRow'[s].active = resumeRow[s].active
    <2>1. CASE s \in Upload!OfCall(t)
      <3>1. HasRow(s) /\ resumeRow[s] \in Upload!Row
        BY <2>1 DEF Upload!OfCall, UploadInv, UploadTypes, HasRow
      <3>2. resumeRow'[s] = [resumeRow[s] EXCEPT !.parse = "parsing"]
        BY <1>1, <2>1
      <3>3. /\ resumeRow'[s] \in Upload!Row /\ resumeRow'[s].id = resumeRow[s].id
            /\ resumeRow'[s].active = resumeRow[s].active
        BY <3>1, <3>2 DEF Upload!Row
      <3> QED
        BY <3>1, <3>3, NilIsNone DEF NilIsNoRow, HasRow
    <2>2. CASE s \notin Upload!OfCall(t)
      BY <1>1, <2>2 DEF UploadInv, UploadTypes, HasRow
    <2> QED
      BY <2>1, <2>2
  <1>3. RowsKept
    BY <1>0, <1>1, <1>2 DEF RowsKept
  <1>4. /\ resumeCall' \in [FewTabs -> ResumeCall] /\ resumeCall'[t].kind = "parse"
        /\ \A u \in FewTabs : u # t => resumeCall'[u] = resumeCall[u]
    BY <1>0 DEF UploadInv, UploadTypes, ResumeCall
  <1> QED
    BY <1>0, <1>3, <1>4, ParseOK DEF UploadInv, UploadTypes

LEMMA EndedIsNone ==
  ASSUME UploadInv, NEW t \in FewTabs, Upload!Ended(t)
  PROVE  /\ resumeCall' \in [FewTabs -> ResumeCall] /\ resumeCall'[t].kind = "none"
         /\ \A u \in FewTabs : u # t => resumeCall'[u] = resumeCall[u]
  <1> DEFINE new == [resumeCall[t] EXCEPT !.kind = "none", !.step = 1, !.data = Nil]
  <1>1. resumeCall[t] \in ResumeCall /\ resumeCall \in [FewTabs -> ResumeCall]
    BY DEF UploadInv, UploadTypes
  <1>2. new \in ResumeCall /\ new.kind = "none"
    BY <1>1 DEF ResumeCall
  <1>3. resumeCall' = [resumeCall EXCEPT ![t] = new]
    BY <1>1 DEF Upload!Ended
  <1> QED
    BY <1>1, <1>2, <1>3

LEMMA DownloadOK ==
  ASSUME PartsAssumption, UploadInv, NEW t \in FewTabs, Upload!Download(t)
  PROVE  UploadInv'
  <1>0. /\ resumeCall[t].kind = "parse" /\ resumeCall[t] \in ResumeCall
        /\ UNCHANGED <<resumeObject, resumeRow, resumeIds, resumePage, resumeLost>>
    BY DEF Upload!Download, UploadInv, UploadTypes
  <1>1. RowsKept
    BY <1>0 DEF RowsKept, UploadInv, UploadTypes, HasRow
  <1>2. /\ resumeCall' \in [FewTabs -> ResumeCall] /\ resumeCall'[t].kind # "delete"
        /\ \A u \in FewTabs : u # t => resumeCall'[u] = resumeCall[u]
    <2>1. CASE Upload!Ended(t)
      BY <2>1, EndedIsNone
    <2>2. CASE resumeCall' = [resumeCall EXCEPT ![t].step = 3,
                                                ![t].data = resumeObject[resumeCall[t].slot]]
      <3>1. resumeObject[resumeCall[t].slot] \in FewFiles \cup {Nil}
        BY <1>0 DEF ResumeCall, UploadInv, UploadTypes
      <3> DEFINE new == [resumeCall[t] EXCEPT !.step = 3,
                                              !.data = resumeObject[resumeCall[t].slot]]
      <3>2. new \in ResumeCall /\ new.kind = "parse"
        BY <1>0, <3>1 DEF ResumeCall
      <3>3. resumeCall \in [FewTabs -> ResumeCall]
        BY DEF UploadInv, UploadTypes
      <3>4. resumeCall' = [resumeCall EXCEPT ![t] = new]
        BY <2>2, <3>3
      <3> QED
        BY <3>2, <3>3, <3>4
    <2> QED
      BY <2>1, <2>2 DEF Upload!Download
  <1> QED
    BY <1>0, <1>1, <1>2, ParseOK DEF UploadInv, UploadTypes

LEMMA ExtractOK ==
  ASSUME PartsAssumption, UploadInv, NEW t \in FewTabs, Upload!Extract(t)
  PROVE  UploadInv'
  <1>0. /\ resumeCall[t].kind = "parse" /\ resumeCall[t] \in ResumeCall /\ Upload!Ended(t)
        /\ UNCHANGED <<resumeObject, resumeIds, resumePage, resumeLost>>
    BY DEF Upload!Extract, UploadInv, UploadTypes
  <1>1. \/ /\ resumeCall[t].data = resumeCall[t].sha
           /\ resumeRow' = [s \in UploadSlots |-> IF s \in Upload!OfCall(t)
                  THEN [resumeRow[s] EXCEPT !.parse = "parsed", !.text = resumeCall[t].data,
                                            !.sha = resumeCall[t].data]
                  ELSE resumeRow[s]]
        \/ resumeRow' = [s \in UploadSlots |-> IF s \in Upload!OfCall(t)
                  THEN [resumeRow[s] EXCEPT !.parse = "failed"] ELSE resumeRow[s]]
    BY DEF Upload!Extract, Upload!Checksum
  <1>2. ASSUME NEW s \in UploadSlots
        PROVE  /\ resumeRow'[s] \in Upload!Row \cup {Nil}
               /\ HasRow(s)' <=> HasRow(s)
               /\ HasRow(s) => /\ resumeRow'[s].id = resumeRow[s].id
                               /\ resumeRow'[s].active = resumeRow[s].active
    <2>1. CASE s \in Upload!OfCall(t)
      <3>1. HasRow(s) /\ resumeRow[s] \in Upload!Row
        BY <2>1 DEF Upload!OfCall, UploadInv, UploadTypes, HasRow
      <3>2. \/ /\ resumeCall[t].data \in FewFiles
               /\ resumeRow'[s] = [resumeRow[s] EXCEPT !.parse = "parsed",
                                      !.text = resumeCall[t].data, !.sha = resumeCall[t].data]
            \/ resumeRow'[s] = [resumeRow[s] EXCEPT !.parse = "failed"]
        BY <1>0, <1>1, <2>1 DEF ResumeCall
      <3>3. /\ resumeRow'[s] \in Upload!Row /\ resumeRow'[s].id = resumeRow[s].id
            /\ resumeRow'[s].active = resumeRow[s].active
        BY <3>1, <3>2 DEF Upload!Row
      <3> QED
        BY <3>1, <3>3, NilIsNone DEF NilIsNoRow, HasRow
    <2>2. CASE s \notin Upload!OfCall(t)
      BY <1>1, <2>2 DEF UploadInv, UploadTypes, HasRow
    <2> QED
      BY <2>1, <2>2
  <1>3. RowsKept
    BY <1>0, <1>1, <1>2 DEF RowsKept
  <1> QED
    BY <1>0, <1>3, EndedIsNone, ParseOK DEF UploadInv, UploadTypes

LEMMA DeleteObjectOK ==
  ASSUME PartsAssumption, UploadInv, NEW t \in FewTabs, Upload!DeleteObject(t)
  PROVE  UploadInv'
  <1>a. resumeCall[t] \in ResumeCall
    BY DEF UploadInv, UploadTypes
  <1>b. PICK s \in UploadSlots : s = resumeCall[t].slot
    BY <1>a DEF ResumeCall
  <1>0. /\ resumeCall[t].kind = "delete" /\ resumeCall[t].step = 1
        /\ resumeObject' = [resumeObject EXCEPT ![s] = Nil]
        /\ resumeCall' = [resumeCall EXCEPT ![t].step = 2]
        /\ UNCHANGED <<resumeRow, resumeIds, resumePage, resumeLost>>
    BY <1>b DEF Upload!DeleteObject
  <1>1. UploadTypes'
    <2>1. resumeCall' \in [FewTabs -> ResumeCall]
      BY <1>0, <1>a DEF UploadInv, UploadTypes, ResumeCall
    <2> QED
      BY <1>0, <2>1 DEF UploadInv, UploadTypes
  <1>2. ASSUME Upload!SingleTab, ~resumeLost', NEW u \in FewTabs PROVE TabInv(u)'
    <2>1. u = t /\ ~resumeLost
      BY <1>0, <1>2, Alone
    <2>2. TabInv(t) /\ resumePage[t].at = "idle"
      BY <1>0, <1>2, <2>1 DEF UploadInv, TabInv
    <2>3. /\ resumeCall'[t].kind = "delete" /\ resumeCall'[t].slot = s
          /\ resumeCall'[t].id = resumeCall[t].id /\ resumeCall'[t].step = 2
      BY <1>0, <1>a, <1>b DEF UploadInv, UploadTypes, ResumeCall
    <2>4. HasRow(s) /\ resumeRow[s].id = resumeCall[t].id /\ resumeObject'[s] = Nil
      BY <1>0, <1>b, <2>2 DEF TabInv, Deleting, UploadInv, UploadTypes
    <2>5. \A r \in UploadSlots : r # s => Agree(r)'
      <3>1. \A r \in UploadSlots : r # s => Agree(r)
        BY <1>0, <1>b, <2>2 DEF TabInv, Uploaded, Deleting
      <3> QED
        BY <1>0, <3>1 DEF Agree, UploadInv, UploadTypes
    <2> QED
      BY <1>0, <2>1, <2>2, <2>3, <2>4, <2>5 DEF TabInv, Uploaded, Deleting, HasRow
  <1> QED
    BY <1>0, <1>1, <1>2, RowsStay DEF UploadInv, Upload!SingleTab

LEMMA DeleteRowOK ==
  ASSUME PartsAssumption, UploadInv, NEW t \in FewTabs, Upload!DeleteRow(t)
  PROVE  UploadInv'
  <1>0. /\ resumeCall[t].kind = "delete" /\ resumeCall[t].step = 2 /\ Upload!Ended(t)
        /\ UNCHANGED <<resumeObject, resumeIds, resumePage, resumeLost>>
        /\ resumeRow' = [s \in UploadSlots |-> IF s \in Upload!OfCall(t) THEN Nil
                                               ELSE resumeRow[s]]
    BY DEF Upload!DeleteRow
  <1>1. resumeCall[t] \in ResumeCall
    BY DEF UploadInv, UploadTypes
  <1>2. \A s \in UploadSlots : HasRow(s)' => HasRow(s) /\ resumeRow'[s] = resumeRow[s]
    BY <1>0 DEF HasRow
  <1>3. UploadTypes'
    BY <1>0, EndedIsNone DEF UploadInv, UploadTypes
  <1>4. IdsAreOwn'
    BY <1>0, <1>2 DEF UploadInv, IdsAreOwn
  <1>5. Upload!OneActive'
    BY <1>2 DEF UploadInv, Upload!OneActive, HasRow
  <1>6. ASSUME Upload!SingleTab, ~resumeLost', NEW u \in FewTabs PROVE TabInv(u)'
    <2>1. u = t /\ ~resumeLost
      BY <1>0, <1>6, Alone
    <2>2. TabInv(t) /\ resumePage[t].at = "idle" /\ resumePage'[t].at = "idle"
      BY <1>0, <1>6, <2>1 DEF UploadInv, TabInv
    <2>3. PICK s \in UploadSlots : s = resumeCall[t].slot
      BY <1>1 DEF ResumeCall
    <2>4. HasRow(s) /\ resumeRow[s].id = resumeCall[t].id /\ resumeObject[s] = Nil
      BY <1>0, <2>2, <2>3 DEF TabInv, Deleting
    <2>5. \A r \in UploadSlots : r \in Upload!OfCall(t) <=> r = s
      BY <2>4 DEF Upload!OfCall, UploadInv, IdsAreOwn, HasRow
    <2>6. \A r \in UploadSlots : Agree(r)'
      <3>1. Agree(s)'
        BY <1>0, <2>4, <2>5 DEF Agree
      <3>2. \A r \in UploadSlots : r # s => Agree(r)
        BY <1>0, <2>2, <2>3 DEF TabInv, Uploaded, Deleting
      <3>3. \A r \in UploadSlots : r # s => Agree(r)'
        BY <1>0, <2>5, <3>2 DEF Agree
      <3> QED
        BY <3>1, <3>3
    <2>7. resumeCall'[t].kind = "none"
      BY <1>0, EndedIsNone
    <2> QED
      BY <2>1, <2>2, <2>6, <2>7 DEF TabInv, Uploaded, Deleting
  <1> QED
    BY <1>3, <1>4, <1>5, <1>6 DEF UploadInv, Upload!SingleTab

LEMMA DiesOK ==
  ASSUME PartsAssumption, UploadInv, NEW t \in FewTabs, Upload!Dies(t)
  PROVE  UploadInv'
  <1>1. resumeLost' = TRUE /\ UNCHANGED <<resumeObject, resumeRow, resumeIds, resumePage>>
    BY DEF Upload!Dies
  <1>2. UploadTypes'
    BY <1>1, EndedIsNone DEF UploadInv, UploadTypes, Upload!Dies
  <1>3. FewTabs # {}
    OBVIOUS
  <1> QED
    BY <1>1, <1>2, <1>3, RowsStay DEF UploadInv

LEMMA UploadStep == ASSUME PartsAssumption, UploadInv, Upload!Next PROVE UploadInv'
  BY ChooseSlotOK, UploadOK, RegisterOK, RemoveOK, AsksOK, MarkParsingOK, DownloadOK,
     ExtractOK, DeleteObjectOK, DeleteRowOK, DiesOK DEF Upload!Next

-----------------------------------------------------------------------------
\* The other part of the module

\* What a row consists of; a checksum is only ever written together with its text.
IsRow(r) == r = [id |-> r.id, sha |-> r.sha, parse |-> r.parse, text |-> r.text,
                 active |-> r.active]

RowOK(s) == resumeRow[s] # Nil =>
    /\ IsRow(resumeRow[s])
    /\ resumeRow[s].parse = "parsed" => resumeRow[s].text = resumeRow[s].sha

SlotInv == \A s \in BucketSlots : RowOK(s)

LEMMA SlotHolds == SlotInv => Slot!TextMatchesChecksum
  BY DEF SlotInv, RowOK, Slot!TextMatchesChecksum

LEMMA SlotStarts == ASSUME Slot!Init PROVE SlotInv
  BY DEF SlotInv, RowOK, Slot!Init

LEMMA SlotStep == ASSUME SlotInv, Slot!Next PROVE SlotInv'
  <1> SUFFICES ASSUME NEW z \in BucketSlots PROVE RowOK(z)'
    BY DEF SlotInv
  <1>0. PICK t \in Tabs :
          \/ \E f \in Files : Slot!ChooseSlot(t, f)
          \/ Slot!Upload(t) \/ Slot!Register(t) \/ Slot!Remove(t)
          \/ \E s \in BucketSlots : Slot!Asks(t, "parse", s) \/ Slot!Asks(t, "delete", s)
          \/ Slot!MarkParsing(t) \/ Slot!Download(t) \/ Slot!Extract(t)
          \/ Slot!DeleteObject(t) \/ Slot!DeleteRow(t) \/ Slot!Dies(t)
    BY DEF Slot!Next
  <1>1. RowOK(z)
    BY DEF SlotInv
  <1>2. CASE UNCHANGED resumeRow
    BY <1>1, <1>2 DEF RowOK
  <1>3. ASSUME NEW s, NEW f, Slot!Registers(s, f) PROVE RowOK(z)'
    <2>1. CASE z = s
      <3>1. resumeRow'[z] = [id |-> Slot!RowId(s), sha |-> f, parse |-> "uploaded",
                             text |-> Nil, active |-> TRUE]
        BY <1>3, <2>1 DEF Slot!Registers, Slot!OthersInactive
      <3> QED
        BY <3>1 DEF RowOK, IsRow
    <2>2. CASE z # s
      <3>1. resumeRow'[z] = IF resumeRow[z] # Nil THEN [resumeRow[z] EXCEPT !.active = FALSE]
                            ELSE resumeRow[z]
        BY <1>3, <2>2 DEF Slot!Registers, Slot!OthersInactive
      <3> QED
        BY <1>1, <3>1 DEF RowOK, IsRow
    <2> QED
      BY <2>1, <2>2
  <1>4. CASE Slot!MarkParsing(t)
    <2>1. resumeRow'[z] = IF z \in Slot!OfCall(t) THEN [resumeRow[z] EXCEPT !.parse = "parsing"]
                          ELSE resumeRow[z]
      BY <1>4 DEF Slot!MarkParsing
    <2> QED
      BY <1>1, <2>1 DEF RowOK, IsRow, Slot!OfCall
  <1>5. CASE Slot!Extract(t)
    <2>1. CASE z \in Slot!OfCall(t)
      <3>1. \/ resumeRow'[z] = [resumeRow[z] EXCEPT !.parse = "parsed",
                                   !.text = resumeCall[t].data, !.sha = resumeCall[t].data]
            \/ resumeRow'[z] = [resumeRow[z] EXCEPT !.parse = "failed"]
        BY <1>5, <2>1 DEF Slot!Extract, Slot!Checksum
      <3>2. IsRow(resumeRow[z])
        BY <1>1, <2>1 DEF RowOK, Slot!OfCall
      <3> QED
        BY <3>1, <3>2 DEF RowOK, IsRow
    <2>2. CASE z \notin Slot!OfCall(t)
      <3>1. resumeRow'[z] = resumeRow[z]
        BY <1>5, <2>2 DEF Slot!Extract
      <3> QED
        BY <1>1, <3>1 DEF RowOK
    <2> QED
      BY <2>1, <2>2
  <1>6. CASE Slot!DeleteRow(t)
    <2>1. resumeRow'[z] = Nil \/ resumeRow'[z] = resumeRow[z]
      BY <1>6 DEF Slot!DeleteRow
    <2> QED
      BY <1>1, <2>1 DEF RowOK
  <1> QED
    BY <1>0, <1>2, <1>3, <1>4, <1>5, <1>6
       DEF Slot!ChooseSlot, Slot!Upload, Slot!Register, Slot!Remove, Slot!Asks, Slot!Download,
           Slot!DeleteObject, Slot!Dies

-----------------------------------------------------------------------------
(* Workspace *)

\* A row that is there, and one that neither waits nor goes on unstopped.
Present(j) == workPhase[j] # "absent"
Stopped(j) ==
    /\ workPhase[j] \notin {"absent", "queued"}
    /\ workPhase[j] = "running" => workRevoked[j]

\* A status that was true of row j, once.
WasTrue(j, status) ==
    /\ status # "absent" => Present(j)
    /\ status = "cancelled" => Stopped(j)

Refreshing(s) == workRefreshes[s] # NoRefresh

WorkTypes ==
    /\ workPhase \in [Runs -> Work!Statuses]
    /\ workData \in [Tables -> 0..MaxVersion]
    /\ workList \in [Runs -> Work!Statuses]
    /\ workRefreshes \in [Places -> [Work!All -> Work!Answer] \cup {NoRefresh}]
    /\ workCancels \in [Runs -> {"none", "sent", "answered"}]

WorkInv ==
    /\ WorkTypes
    /\ \A j \in Runs :
          /\ WasTrue(j, workList[j])
          /\ workCancels[j] # "none" => Present(j)
          /\ workCancels[j] = "answered" => Stopped(j)
    /\ \A s \in Places :
          Refreshing(s) /\ workRefreshes[s]["activity"] \notin {NotRead, Failed} =>
             /\ workRefreshes[s]["activity"] \in [Runs -> Work!Statuses]
             /\ \A j \in Runs : WasTrue(j, workRefreshes[s]["activity"][j])
    /\ Work!EmptyIsReported

LEMMA WorkHolds == WorkInv => Work!ShownCancelledIsStopped /\ Work!EmptyIsReported
  BY DEF WorkInv, WasTrue, Stopped, Work!ShownCancelledIsStopped

LEMMA NothingIsRead ==
  ASSUME PartsAssumption
  PROVE  /\ Work!NothingRead \in [Work!All -> Work!Answer]
         /\ \A a \in [Work!All -> Work!Answer] : a # NoRefresh
  <1>1. Work!NothingRead \in [Work!All -> Work!Answer]
    BY DEF Work!NothingRead, Work!Answer
  <1>2. NoRefresh \notin [Work!All -> Work!Answer]
    BY DEF PartsAssumption, Work!WorkspaceAssumption
  <1> QED
    BY <1>1, <1>2

LEMMA WorkStarts == ASSUME PartsAssumption, Work!Init PROVE WorkInv
  <1>1. PICK s \in Places :
          workRefreshes = [r \in Places |-> IF r = s THEN Work!NothingRead ELSE NoRefresh]
    BY DEF Work!Init
  <1>2. /\ workPhase = [j \in Runs |-> "absent"] /\ workList = workPhase
        /\ workData = [tb \in Tables |-> 0] /\ workCancels = [j \in Runs |-> "none"]
    BY DEF Work!Init, Work!Queue!Init
  <1>3. WorkTypes
    <2>1. workData \in [Tables -> 0..MaxVersion]
      <3>1. MaxVersion \in Nat
        BY DEF PartsAssumption, Work!WorkspaceAssumption
      <3>2. 0 \in 0..MaxVersion
        BY <3>1
      <3> QED
        BY <1>2, <3>2
    <2>2. workRefreshes \in [Places -> [Work!All -> Work!Answer] \cup {NoRefresh}]
      BY <1>1, NothingIsRead
    <2>3. "absent" \in Work!Statuses
      BY DEF Work!Statuses
    <2>4. workPhase \in [Runs -> Work!Statuses] /\ workList \in [Runs -> Work!Statuses]
      BY <1>2, <2>3
    <2> QED
      BY <1>2, <2>1, <2>2, <2>4 DEF WorkTypes
  <1>4. \A j \in Runs : workList[j] = "absent" /\ workCancels[j] = "none"
    BY <1>2
  <1>5. ASSUME NEW r \in Places, Refreshing(r) PROVE workRefreshes[r]["activity"] = NotRead
    BY <1>1, <1>5 DEF Refreshing, Work!NothingRead, Work!All, Work!Activity
  <1>6. Refreshing(s)
    BY <1>1, NothingIsRead DEF Refreshing
  <1>7. Work!EmptyIsReported
    BY <1>6 DEF Work!EmptyIsReported, Refreshing
  <1> QED
    BY <1>3, <1>4, <1>5, <1>7 DEF WorkInv, WasTrue

-----------------------------------------------------------------------------
\* The server

\* Whatever happens to a row: it is not removed, and once stopped it stays so.
RowMoves(j) ==
    /\ Present(j) => Present(j)'
    /\ Stopped(j) => Stopped(j)'

LEMMA StatusesStay ==
  ASSUME NEW j, NEW status, RowMoves(j), WasTrue(j, status)
  PROVE  WasTrue(j, status)'
  BY DEF RowMoves, WasTrue, Present, Stopped

LEMMA RowsMove ==
  ASSUME WorkInv, workPhase' \in [Runs -> Work!Statuses],
         UNCHANGED <<workList, workRefreshes, workData, workShown, workError>>,
         workCancels' \in [Runs -> {"none", "sent", "answered"}],
         \A j \in Runs : RowMoves(j),
         \A j \in Runs : /\ workCancels'[j] # "none" => workCancels[j] # "none"
                         /\ workCancels'[j] = "answered"
                            => workCancels[j] = "answered" \/ Stopped(j)'
  PROVE  WorkInv'
  <1>1. WorkTypes'
    BY DEF WorkInv, WorkTypes
  <1>2. ASSUME NEW j \in Runs
        PROVE  /\ WasTrue(j, workList[j])'
               /\ workCancels'[j] # "none" => Present(j)'
               /\ workCancels'[j] = "answered" => Stopped(j)'
    BY DEF WorkInv, RowMoves, WasTrue, Present, Stopped
  <1>3. ASSUME NEW s \in Places, Refreshing(s)',
               workRefreshes'[s]["activity"] \notin {NotRead, Failed}
        PROVE  /\ workRefreshes'[s]["activity"] \in [Runs -> Work!Statuses]
               /\ \A j \in Runs : WasTrue(j, workRefreshes[s]["activity"][j])'
    BY <1>3 DEF WorkInv, RowMoves, WasTrue, Present, Stopped, Refreshing
  <1>4. Work!EmptyIsReported'
    BY DEF WorkInv, Work!EmptyIsReported
  <1> QED
    BY <1>1, <1>2, <1>3, <1>4 DEF WorkInv

LEMMA WorkOK == ASSUME WorkInv, Work!Work PROVE WorkInv'
  <1>1. /\ workPhase' \in [Runs -> Work!Statuses]
        /\ UNCHANGED <<workData, workShown, workList, workError, workRefreshes, workCancels>>
        /\ \E j \in Runs : Work!WorkerMoves(j) /\ \A k \in Runs \ {j} : Work!Queue!Stay(k)
    BY DEF Work!Work, Work!QueueStep, Work!page
  <1>2. \A j \in Runs : Work!Queue!Stay(j) => RowMoves(j)
    BY DEF Work!Queue!Stay, Work!Queue!Becomes, RowMoves, Present, Stopped
  <1>3. ASSUME NEW j \in Runs, Work!WorkerMoves(j) PROVE RowMoves(j)
    BY <1>3 DEF Work!WorkerMoves, Work!Queue!Accept, Work!Queue!Run, Work!Queue!PutBack,
         Work!Queue!Finish, Work!Queue!GiveUp, Work!Queue!Cancel, Work!Queue!Becomes,
         RowMoves, Present, Stopped
  <1>4. \A j \in Runs : RowMoves(j)
    BY <1>1, <1>2, <1>3
  <1>5. workCancels \in [Runs -> {"none", "sent", "answered"}]
    BY DEF WorkInv, WorkTypes
  <1> QED
    BY <1>1, <1>4, <1>5, RowsMove

LEMMA CancelArrivesOK ==
  ASSUME WorkInv, NEW j \in Runs, Work!CancelArrives(j) PROVE WorkInv'
  <1>1. /\ workPhase' \in [Runs -> Work!Statuses]
        /\ UNCHANGED <<workData, workShown, workList, workError, workRefreshes>>
        /\ Work!Stops(j) /\ \A k \in Runs \ {j} : Work!Queue!Stay(k)
        /\ workCancels[j] = "sent" /\ workCancels' = [workCancels EXCEPT ![j] = "answered"]
    BY DEF Work!CancelArrives, Work!QueueStep, Work!page
  <1>2. \A k \in Runs : Work!Queue!Stay(k) => RowMoves(k)
    BY DEF Work!Queue!Stay, Work!Queue!Becomes, RowMoves, Present, Stopped
  <1>3. Present(j)
    BY <1>1 DEF WorkInv
  <1>4. RowMoves(j) /\ Stopped(j)'
    <2>1. CASE workPhase[j] = "queued"
      BY <1>1, <2>1 DEF Work!Stops, Work!Queue!Cancel, Work!Queue!Becomes, RowMoves, Present,
           Stopped
    <2>2. CASE workPhase[j] = "running"
      BY <1>1, <2>2 DEF Work!Stops, Work!Queue!Revoke, Work!Queue!Becomes, RowMoves, Present,
           Stopped
    <2>3. CASE workPhase[j] \notin {"queued", "running"}
      BY <1>1, <1>3, <2>3 DEF Work!Stops, Work!Queue!Stay, Work!Queue!Becomes, RowMoves,
           Present, Stopped
    <2> QED
      BY <2>1, <2>2, <2>3
  <1>5. \A k \in Runs : RowMoves(k)
    BY <1>1, <1>2, <1>4
  <1>6. workCancels' \in [Runs -> {"none", "sent", "answered"}]
    BY <1>1 DEF WorkInv, WorkTypes
  <1>7. ASSUME NEW k \in Runs
        PROVE  /\ workCancels'[k] # "none" => workCancels[k] # "none"
               /\ workCancels'[k] = "answered" => workCancels[k] = "answered" \/ Stopped(k)'
    BY <1>1, <1>4 DEF WorkInv, WorkTypes
  <1> QED
    BY <1>1, <1>5, <1>6, <1>7, RowsMove

LEMMA ChangeOK == ASSUME PartsAssumption, WorkInv, NEW tb \in Tables, Work!Change(tb) PROVE WorkInv'
  <1>1. /\ UNCHANGED <<workPhase, workRevoked, workShown, workList, workError, workRefreshes,
                       workCancels>>
        /\ workData[tb] < MaxVersion /\ workData' = [workData EXCEPT ![tb] = @ + 1]
    BY DEF Work!Change, Work!page
  <1>2. workData[tb] \in 0..MaxVersion
    BY DEF WorkInv, WorkTypes
  <1>3. workData' \in [Tables -> 0..MaxVersion]
    <2>1. MaxVersion \in Nat
      BY DEF PartsAssumption, Work!WorkspaceAssumption
    <2>2. workData[tb] + 1 \in 0..MaxVersion
      BY <1>1, <1>2, <2>1
    <2> QED
      BY <1>1, <2>2 DEF WorkInv, WorkTypes
  <1>4. WorkTypes'
    BY <1>1, <1>3 DEF WorkInv, WorkTypes
  <1> QED
    BY <1>1, <1>4 DEF WorkInv, WasTrue, Present, Stopped, Refreshing, Work!EmptyIsReported

-----------------------------------------------------------------------------
\* The page

LEMMA StartRefreshOK == ASSUME PartsAssumption, WorkInv, Work!StartRefresh PROVE WorkInv'
  <1>1. PICK s \in Places : workRefreshes' = [workRefreshes EXCEPT ![s] = Work!NothingRead]
    BY DEF Work!StartRefresh
  <1>2. UNCHANGED <<workPhase, workRevoked, workData, workShown, workList, workCancels>>
    BY DEF Work!StartRefresh, Work!server
  <1>3. WorkTypes'
    BY <1>1, <1>2, NothingIsRead DEF WorkInv, WorkTypes
  <1>4. ASSUME NEW r \in Places, Refreshing(r)',
               workRefreshes'[r]["activity"] \notin {NotRead, Failed}
        PROVE  /\ workRefreshes'[r]["activity"] \in [Runs -> Work!Statuses]
               /\ \A j \in Runs : WasTrue(j, workRefreshes[r]["activity"][j])'
    <2>1. r # s /\ workRefreshes'[r] = workRefreshes[r]
      BY <1>1, <1>4 DEF WorkInv, WorkTypes, Work!NothingRead, Work!All, Work!Activity
    <2> QED
      BY <1>2, <1>4, <2>1 DEF WorkInv, WasTrue, Present, Stopped, Refreshing
  <1>5. workRefreshes'[s] # NoRefresh
    BY <1>1, NothingIsRead DEF WorkInv, WorkTypes
  <1>6. Work!EmptyIsReported'
    BY <1>5 DEF Work!EmptyIsReported
  <1> QED
    BY <1>2, <1>3, <1>4, <1>6 DEF WorkInv, WasTrue, Present, Stopped

LEMMA ReadOK ==
  ASSUME PartsAssumption, WorkInv, NEW s \in Places, NEW tb \in Work!All, Work!Read(s, tb)
  PROVE  WorkInv'
  <1>1. /\ UNCHANGED <<workPhase, workRevoked, workData, workShown, workList, workError,
                       workCancels>>
        /\ workRefreshes[s] # NoRefresh
    BY DEF Work!Read, Work!server, Work!page
  <1>2. PICK a :
          /\ workRefreshes' = [workRefreshes EXCEPT ![s][tb] = a]
          /\ a = Failed \/ a = IF tb = "activity" THEN workPhase ELSE workData[tb]
    BY DEF Work!Read, Work!Activity
  <1>3. a \in Work!Answer
    <2>1. tb = "activity" \/ tb \in Tables
      BY DEF Work!All, Work!Activity
    <2> QED
      BY <1>2, <2>1 DEF WorkInv, WorkTypes, Work!Answer
  <1>4. /\ workRefreshes'[s] = [workRefreshes[s] EXCEPT ![tb] = a]
        /\ \A r \in Places : r # s => workRefreshes'[r] = workRefreshes[r]
        /\ workRefreshes[s] \in [Work!All -> Work!Answer]
    BY <1>1, <1>2 DEF WorkInv, WorkTypes
  <1>5. workRefreshes'[s] \in [Work!All -> Work!Answer]
    BY <1>3, <1>4
  <1>6. WorkTypes'
    BY <1>1, <1>2, <1>5 DEF WorkInv, WorkTypes
  <1>7. workRefreshes'[s] # NoRefresh
    BY <1>5, NothingIsRead
  <1>8. Work!EmptyIsReported'
    BY <1>7 DEF Work!EmptyIsReported
  <1>9. ASSUME NEW r \in Places, Refreshing(r)',
               workRefreshes'[r]["activity"] \notin {NotRead, Failed}
        PROVE  /\ workRefreshes'[r]["activity"] \in [Runs -> Work!Statuses]
               /\ \A j \in Runs : WasTrue(j, workRefreshes[r]["activity"][j])'
    <2>1. CASE r = s /\ tb = "activity"
      <3>1. workRefreshes'[r]["activity"] = a
        BY <1>4, <2>1
      <3>2. a = workPhase
        BY <1>2, <1>9, <2>1, <3>1
      <3> QED
        BY <1>1, <3>1, <3>2 DEF WorkInv, WorkTypes, WasTrue, Present, Stopped
    <2>2. CASE ~(r = s /\ tb = "activity")
      <3>1. workRefreshes'[r]["activity"] = workRefreshes[r]["activity"] /\ Refreshing(r)
        <4>1. "activity" \in Work!All
          BY DEF Work!All, Work!Activity
        <4>2. CASE r = s
          BY <1>1, <1>4, <2>2, <4>1, <4>2 DEF Refreshing
        <4>3. CASE r # s
          BY <1>4, <1>9, <4>3 DEF Refreshing
        <4> QED
          BY <4>2, <4>3
      <3> QED
        BY <1>1, <1>9, <3>1 DEF WorkInv, WasTrue, Present, Stopped
    <2> QED
      BY <2>1, <2>2
  <1> QED
    BY <1>1, <1>6, <1>8, <1>9 DEF WorkInv, WasTrue, Present, Stopped

LEMMA EndRefreshOK ==
  ASSUME PartsAssumption, WorkInv, NEW s \in Places, Work!EndRefresh(s)
  PROVE  WorkInv'
  <1>1. /\ UNCHANGED <<workPhase, workRevoked, workData, workCancels>>
        /\ workRefreshes[s] # NoRefresh
        /\ \A tb \in Work!All : workRefreshes[s][tb] # NotRead
        /\ workShown' = [tb \in Tables |-> IF tb \in Work!Fulfilled(s) THEN workRefreshes[s][tb]
                                           ELSE workShown[tb]]
        /\ workList' = IF "activity" \in Work!Fulfilled(s) THEN workRefreshes[s]["activity"]
                       ELSE workList
        /\ workError' = Work!Warned(s)
        /\ workRefreshes' = [workRefreshes EXCEPT ![s] = NoRefresh]
    BY DEF Work!EndRefresh, Work!server, Work!Activity
  <1>2. /\ workList' \in [Runs -> Work!Statuses]
        /\ \A j \in Runs : WasTrue(j, workList[j])'
    <2>1. CASE "activity" \in Work!Fulfilled(s)
      <3>1. workRefreshes[s]["activity"] \notin {NotRead, Failed}
        BY <1>1, <2>1 DEF Work!Fulfilled
      <3> QED
        BY <1>1, <2>1, <3>1 DEF WorkInv, WasTrue, Present, Stopped, Refreshing
    <2>2. CASE "activity" \notin Work!Fulfilled(s)
      BY <1>1, <2>2 DEF WorkInv, WorkTypes, WasTrue, Present, Stopped
    <2> QED
      BY <2>1, <2>2
  <1>3. WorkTypes'
    BY <1>1, <1>2 DEF WorkInv, WorkTypes
  <1>4. ASSUME NEW r \in Places, Refreshing(r)',
               workRefreshes'[r]["activity"] \notin {NotRead, Failed}
        PROVE  /\ workRefreshes'[r]["activity"] \in [Runs -> Work!Statuses]
               /\ \A j \in Runs : WasTrue(j, workRefreshes[r]["activity"][j])'
    <2>1. r # s /\ workRefreshes'[r] = workRefreshes[r] /\ Refreshing(r)
      BY <1>1, <1>4 DEF Refreshing, WorkInv, WorkTypes
    <2> QED
      BY <1>1, <1>4, <2>1 DEF WorkInv, WasTrue, Present, Stopped
  <1>5. Work!EmptyIsReported'
    <2> SUFFICES ASSUME NEW tb \in Tables, workShown'[tb] = NotRead PROVE workError' # {}
      BY DEF Work!EmptyIsReported
    <2>1. tb \in Work!All
      BY DEF Work!All
    <2>2. tb \notin Work!Fulfilled(s)
      BY <1>1, <2>1
    <2> QED
      BY <1>1, <2>1, <2>2 DEF Work!Warned
  <1> QED
    BY <1>1, <1>2, <1>3, <1>4, <1>5 DEF WorkInv, Present, Stopped

LEMMA CancelsOK ==
  ASSUME WorkInv, NEW j \in Runs,
         Work!Cancel(j) \/ Work!CancelReturns(j) \/ Work!CancelIsLost(j)
  PROVE  WorkInv'
  <1>1. /\ UNCHANGED <<workPhase, workRevoked, workData, workShown, workError, workRefreshes>>
        /\ \/ /\ workList[j] \in {"queued", "running"} /\ UNCHANGED workList
              /\ workCancels' = [workCancels EXCEPT ![j] = "sent"]
           \/ /\ workCancels[j] = "answered" /\ workList' = [workList EXCEPT ![j] = "cancelled"]
              /\ workCancels' = [workCancels EXCEPT ![j] = IF @ = "sent" THEN @ ELSE "none"]
           \/ UNCHANGED workList /\ workCancels' = [workCancels EXCEPT ![j] = "none"]
    BY DEF Work!Cancel, Work!CancelReturns, Work!CancelIsLost, Work!Overlay, Work!server,
           Work!page
  <1>2. WorkTypes'
    <2>1. "cancelled" \in Work!Statuses
      BY DEF Work!Statuses, Work!Queue!Outcomes
    <2> QED
      BY <1>1, <2>1 DEF WorkInv, WorkTypes
  <1>3. ASSUME NEW k \in Runs
        PROVE  /\ WasTrue(k, workList[k])'
               /\ workCancels'[k] # "none" => Present(k)'
               /\ workCancels'[k] = "answered" => Stopped(k)'
    <2>1. CASE k # j
      <3>1. workList'[k] = workList[k] /\ workCancels'[k] = workCancels[k]
        BY <1>1, <2>1 DEF WorkInv, WorkTypes
      <3> QED
        BY <1>1, <3>1 DEF WorkInv, WasTrue, Present, Stopped
    <2>2. CASE k = j
      <3>1. WasTrue(j, workList[j]) /\ (workCancels[j] = "answered" => Stopped(j))
            /\ (workCancels[j] # "none" => Present(j))
        BY DEF WorkInv
      <3>2. CASE /\ workList[j] \in {"queued", "running"} /\ UNCHANGED workList
                 /\ workCancels' = [workCancels EXCEPT ![j] = "sent"]
        <4>1. workCancels'[j] = "sent"
          BY <3>2 DEF WorkInv, WorkTypes
        <4> QED
          BY <1>1, <2>2, <3>1, <3>2, <4>1 DEF WasTrue, Present, Stopped
      <3>3. CASE /\ workCancels[j] = "answered"
                 /\ workList' = [workList EXCEPT ![j] = "cancelled"]
                 /\ workCancels' = [workCancels EXCEPT ![j] = IF @ = "sent" THEN @ ELSE "none"]
        <4>1. workCancels'[j] = "none" /\ workList'[j] = "cancelled"
          BY <3>3 DEF WorkInv, WorkTypes
        <4> QED
          BY <1>1, <2>2, <3>1, <3>3, <4>1 DEF WasTrue, Present, Stopped
      <3>4. CASE UNCHANGED workList /\ workCancels' = [workCancels EXCEPT ![j] = "none"]
        <4>1. workCancels'[j] = "none"
          BY <3>4 DEF WorkInv, WorkTypes
        <4> QED
          BY <1>1, <2>2, <3>1, <3>4, <4>1 DEF WasTrue, Present, Stopped
      <3> QED
        BY <1>1, <3>2, <3>3, <3>4
    <2> QED
      BY <2>1, <2>2
  <1>4. ASSUME NEW r \in Places, Refreshing(r)',
               workRefreshes'[r]["activity"] \notin {NotRead, Failed}
        PROVE  /\ workRefreshes'[r]["activity"] \in [Runs -> Work!Statuses]
               /\ \A k \in Runs : WasTrue(k, workRefreshes[r]["activity"][k])'
    BY <1>1, <1>4 DEF WorkInv, WasTrue, Present, Stopped, Refreshing
  <1>5. Work!EmptyIsReported'
    BY <1>1 DEF WorkInv, Work!EmptyIsReported
  <1> QED
    BY <1>2, <1>3, <1>4, <1>5 DEF WorkInv

LEMMA SetViewOK == ASSUME WorkInv, NEW v, Work!SetView(v) PROVE WorkInv'
  <1>1. UNCHANGED <<workPhase, workRevoked, workData, workShown, workList, workError,
                    workRefreshes, workCancels>>
    BY DEF Work!SetView, Work!server
  <1>2. WorkTypes'
    BY <1>1 DEF WorkInv, WorkTypes
  <1> QED
    BY <1>1, <1>2 DEF WorkInv, WasTrue, Present, Stopped, Refreshing, Work!EmptyIsReported

LEMMA WorkStep == ASSUME PartsAssumption, WorkInv, Work!Next PROVE WorkInv'
  BY WorkOK, CancelArrivesOK, ChangeOK, StartRefreshOK, ReadOK, EndRefreshOK, CancelsOK,
     SetViewOK DEF Work!Next, Work!Timer, Work!Progress

-----------------------------------------------------------------------------
(* Session: the requests of a page, in both of its parts *)

NoRequest == [state |-> "none"]

\* What a request consists of; it has taken effect only if it is answered.
HasFields(c) ==
    c = [state |-> c.state, of |-> c.of, as |-> c.as, valid |-> c.valid,
         again |-> c.again, took |-> c.took, mounted |-> c.mounted]

IsRequest(c) ==
    /\ HasFields(c)
    /\ c.state # "none"
    /\ c.took \in BOOLEAN /\ c.mounted \in BOOLEAN
    /\ c.took => c.state = "done"

RequestsOf(F, TT, KK) ==
    /\ DOMAIN F = TT
    /\ \A t \in TT : /\ DOMAIN F[t] = KK
                     /\ \A k \in KK : F[t][k] = NoRequest \/ IsRequest(F[t][k])

\* What becomes of a request while its page is left alone.
Goes(c, d) ==
    \/ d = NoRequest
    \/ IsRequest(c) /\ IsRequest(d) /\ d.mounted = c.mounted

Kept(F, TT, KK) ==
    /\ RequestsOf(F, TT, KK)
    /\ \A t \in TT, k \in KK : Goes(loginCall[t][k], F[t][k])

Voided(F, TT, KK, u) ==
    [t \in TT |-> [k \in KK |-> IF F[t][k] # NoRequest /\ F[t][k].as = u
                                THEN [F[t][k] EXCEPT !.valid = FALSE] ELSE F[t][k]]]

LEMMA NoneOrRequest == ASSUME NEW c, IsRequest(c) PROVE c # NoRequest
  BY DEF IsRequest, HasFields, NoRequest

LEMMA AllKept ==
  ASSUME NEW TT, NEW KK, RequestsOf(loginCall, TT, KK)
  PROVE  Kept(loginCall, TT, KK)
  BY DEF Kept, RequestsOf, Goes

LEMMA VoidKeeps ==
  ASSUME NEW TT, NEW KK, NEW F, NEW u, Kept(F, TT, KK)
  PROVE  Kept(Voided(F, TT, KK, u), TT, KK)
  <1> DEFINE G == Voided(F, TT, KK, u)
  <1>1. ASSUME NEW t \in TT, NEW k \in KK
        PROVE  /\ G[t][k] = NoRequest \/ IsRequest(G[t][k])
               /\ Goes(loginCall[t][k], G[t][k])
    <2>1. CASE F[t][k] = NoRequest
      BY <2>1 DEF Voided, Goes
    <2>2. CASE F[t][k] # NoRequest
      <3>1. IsRequest(F[t][k]) /\ Goes(loginCall[t][k], F[t][k])
        BY <2>2 DEF Kept, RequestsOf
      <3>2. G[t][k] = F[t][k] \/ G[t][k] = [F[t][k] EXCEPT !.valid = FALSE]
        BY DEF Voided
      <3>3. IsRequest(G[t][k]) /\ G[t][k].mounted = F[t][k].mounted
        BY <3>1, <3>2 DEF IsRequest, HasFields
      <3> QED
        BY <2>2, <3>1, <3>3 DEF Goes
    <2> QED
      BY <2>1, <2>2
  <1>2. DOMAIN G = TT /\ \A t \in TT : DOMAIN G[t] = KK
    BY DEF Voided
  <1> QED
    BY <1>1, <1>2 DEF Kept, RequestsOf

LEMMA OneGoes ==
  ASSUME NEW TT, NEW KK, NEW F, NEW t \in TT, NEW k \in KK, Kept(F, TT, KK), NEW d,
         Goes(loginCall[t][k], d)
  PROVE  Kept([F EXCEPT ![t][k] = d], TT, KK)
  <1> DEFINE G == [F EXCEPT ![t][k] = d]
  <1>1. DOMAIN G = TT /\ \A z \in TT : DOMAIN G[z] = KK
    BY DEF Kept, RequestsOf
  <1>2. ASSUME NEW z \in TT, NEW y \in KK
        PROVE  G[z][y] = IF z = t /\ y = k THEN d ELSE F[z][y]
    BY DEF Kept, RequestsOf
  <1> QED
    BY <1>1, <1>2 DEF Kept, RequestsOf, Goes

\* One field at a time, the provers see what becomes of a record.
LEMMA StateSet ==
  ASSUME NEW c, HasFields(c), NEW x, NEW d, d = [c EXCEPT !.state = x]
  PROVE  HasFields(d) /\ d.state = x /\ d.took = c.took /\ d.mounted = c.mounted
  BY DEF HasFields

LEMMA TookSet ==
  ASSUME NEW c, HasFields(c), NEW x
  PROVE  /\ HasFields([c EXCEPT !.took = x])
         /\ [c EXCEPT !.took = x].state = c.state
         /\ [c EXCEPT !.took = x].took = x
         /\ [c EXCEPT !.took = x].mounted = c.mounted
  BY DEF HasFields

LEMMA MountedSet ==
  ASSUME NEW c, HasFields(c), NEW x, NEW d, d = [c EXCEPT !.mounted = x]
  PROVE  HasFields(d) /\ d.state = c.state /\ d.took = c.took /\ d.mounted = x
  BY DEF HasFields

LEMMA AsSet ==
  ASSUME NEW c, HasFields(c), NEW x, NEW d, d = [c EXCEPT !.as = x]
  PROVE  HasFields(d) /\ d.state = c.state /\ d.took = c.took /\ d.mounted = c.mounted
  BY DEF HasFields

LEMMA ValidSet ==
  ASSUME NEW c, HasFields(c), NEW x, NEW d, d = [c EXCEPT !.valid = x]
  PROVE  HasFields(d) /\ d.state = c.state /\ d.took = c.took /\ d.mounted = c.mounted
  BY DEF HasFields

LEMMA AgainSet ==
  ASSUME NEW c, HasFields(c), NEW x, NEW d, d = [c EXCEPT !.again = x]
  PROVE  HasFields(d) /\ d.state = c.state /\ d.took = c.took /\ d.mounted = c.mounted
  BY DEF HasFields

\* The changes of a single request.
LEMMA Changes ==
  ASSUME NEW c, IsRequest(c), NEW u, NEW v, NEW a, c.state # "done"
  PROVE  /\ Goes(c, [c EXCEPT !.state = "sent", !.as = u, !.valid = v])
         /\ Goes(c, [[c EXCEPT !.state = "sent", !.as = u, !.valid = v]
                         EXCEPT !.valid = TRUE, !.again = a])
         /\ Goes(c, [c EXCEPT !.state = "done", !.took = TRUE])
         /\ Goes(c, [c EXCEPT !.state = "refused"])
  <1>0. HasFields(c) /\ c.took = FALSE
    BY DEF IsRequest
  <1> DEFINE d1 == [c EXCEPT !.state = "sent"]
             d2 == [d1 EXCEPT !.as = u]
             d3 == [d2 EXCEPT !.valid = v]
             d4 == [d3 EXCEPT !.valid = TRUE]
             d5 == [d4 EXCEPT !.again = a]
  <1>1. HasFields(d1) /\ d1.state = "sent" /\ d1.took = FALSE /\ d1.mounted = c.mounted
    BY <1>0, StateSet
  <1>2. HasFields(d2) /\ d2.state = "sent" /\ d2.took = FALSE /\ d2.mounted = c.mounted
    <2> HIDE DEF d1
    <2> QED
      BY <1>1, AsSet
  <1>3. HasFields(d3) /\ d3.state = "sent" /\ d3.took = FALSE /\ d3.mounted = c.mounted
    <2> HIDE DEF d2
    <2> QED
      BY <1>2, ValidSet
  <1>4. HasFields(d4) /\ d4.state = "sent" /\ d4.took = FALSE /\ d4.mounted = c.mounted
    <2> HIDE DEF d3
    <2> QED
      BY <1>3, ValidSet
  <1>5. HasFields(d5) /\ d5.state = "sent" /\ d5.took = FALSE /\ d5.mounted = c.mounted
    <2> HIDE DEF d4
    <2> QED
      BY <1>4, AgainSet
  <1>6. Goes(c, d3) /\ Goes(c, d5)
    <2> HIDE DEF d3, d5
    <2> QED
      BY <1>3, <1>5 DEF Goes, IsRequest
  <1>7. Goes(c, [c EXCEPT !.state = "done", !.took = TRUE])
    <2> DEFINE e1 == [c EXCEPT !.state = "done"]
               e2 == [e1 EXCEPT !.took = TRUE]
    <2>1. HasFields(e1) /\ e1.state = "done" /\ e1.mounted = c.mounted
      BY <1>0, StateSet
    <2>2. HasFields(e2) /\ e2.state = "done" /\ e2.took = TRUE /\ e2.mounted = c.mounted
      <3> HIDE DEF e1
      <3> QED
        BY <2>1, TookSet
    <2>3. Goes(c, e2)
      <3> HIDE DEF e2
      <3> QED
        BY <2>2 DEF Goes, IsRequest
    <2> QED
      BY <2>3
  <1>8. Goes(c, [c EXCEPT !.state = "refused"])
    BY <1>0 DEF Goes, IsRequest, HasFields
  <1> QED
    BY <1>6, <1>7, <1>8

\* The steps that only change one request, the same in both parts.
RequestMoves(t, k) ==
    \/ Login!Send(t, k) \/ Login!Lose(t, k) \/ Login!Refuse(t, k) \/ Login!Retry(t, k)
    \/ Login!GiveUp(t, k)

LEMMA RequestMovesKept ==
  ASSUME NEW TT, NEW KK, NEW t \in TT, NEW k \in KK, RequestsOf(loginCall, TT, KK),
         RequestMoves(t, k)
  PROVE  Kept(loginCall', TT, KK)
  <1> DEFINE c == loginCall[t][k]
  <1>1. c.state # "none" /\ c.state # "done"
    BY DEF RequestMoves, Login!Send, Login!Lose, Login!Refuse, Login!Retry, Login!GiveUp
  <1>2. IsRequest(c)
    BY <1>1 DEF RequestsOf, NoRequest
  <1>3. \E d : Goes(c, d) /\ loginCall' = [loginCall EXCEPT ![t][k] = d]
    <2>1. CASE Login!Send(t, k)
      <3>1. loginCall' = [loginCall EXCEPT ![t][k] =
               [c EXCEPT !.state = "sent", !.as = loginStored.user, !.valid = loginStored.valid]]
        BY <2>1 DEF Login!Send, Login!Sent, RequestsOf
      <3> QED
        BY <1>1, <1>2, <3>1, Changes
    <2>2. CASE Login!Lose(t, k) \/ Login!GiveUp(t, k)
      BY <2>2 DEF Login!Lose, Login!GiveUp, Login!Unanswered, Login!NoCall, NoRequest, Goes
    <2>3. CASE Login!Refuse(t, k)
      <3>1. loginCall' = [loginCall EXCEPT ![t][k] = [c EXCEPT !.state = "refused"]]
        BY <2>3 DEF Login!Refuse, RequestsOf
      <3> QED
        BY <1>1, <1>2, <3>1, Changes
    <2>4. CASE Login!Retry(t, k)
      <3>1. loginCall' = [loginCall EXCEPT ![t][k] =
               [[c EXCEPT !.state = "sent", !.as = loginStored.user,
                          !.valid = loginStored.valid] EXCEPT !.valid = TRUE, !.again = TRUE]]
        BY <2>4 DEF Login!Retry, Login!Sent, RequestsOf
      <3> QED
        BY <1>1, <1>2, <3>1, Changes
    <2> QED
      BY <2>1, <2>2, <2>3, <2>4 DEF RequestMoves
  <1>4. PICK d : Goes(c, d) /\ loginCall' = [loginCall EXCEPT ![t][k] = d]
    BY <1>3
  <1>5. Kept(loginCall, TT, KK)
    BY AllKept
  <1>6. Kept([loginCall EXCEPT ![t][k] = d], TT, KK)
    BY <1>4, <1>5, OneGoes
  <1> QED
    BY <1>4, <1>6

-----------------------------------------------------------------------------
\* The part of several tabs

IsLast(s, u) == s[Len(s)] = u

LoginTypes ==
    /\ loginStored \in [user : Login!Someone, valid : BOOLEAN]
    /\ loginPage \in [Tabs -> {"closed", "booting", "up"}]
    /\ loginHeard \in [Tabs -> Seq(Login!Someone)]
    /\ loginSession \in [Tabs -> Login!Someone]
    /\ DOMAIN loginData = Tabs
    /\ RequestsOf(loginCall, Tabs, LoginKinds)

\* The last change a tab has not heard of yet is the one that is stored.
HeardInv ==
    \A t \in Tabs : loginPage[t] = "up" =>
        IF loginHeard[t] = <<>> THEN loginSession[t] = loginStored.user
        ELSE IsLast(loginHeard[t], loginStored.user)

\* No answer that is still to come finds a Workspace where there is no session.
NoneMounted(t) ==
    \A k \in LoginKinds : loginCall[t][k] = NoRequest \/ ~loginCall[t][k].mounted

UnmountedInv ==
    \A t \in Tabs : loginSession[t] = Nil => loginData[t] = Nil /\ NoneMounted(t)

LoginInv == LoginTypes /\ HeardInv /\ UnmountedInv

LEMMA LoginHolds == LoginInv => Login!ShownIsStored /\ Login!ClearedBySignOut
  BY DEF LoginInv, HeardInv, UnmountedInv, Login!ShownIsStored, Login!ClearedBySignOut

LEMMA LoginStarts == ASSUME Login!Init PROVE LoginInv
  <1>1. RequestsOf(loginCall, Tabs, LoginKinds) /\ \A t \in Tabs : NoneMounted(t)
    BY DEF Login!Init, Login!NoCall, RequestsOf, NoneMounted, NoRequest
  <1>2. LoginTypes
    BY <1>1 DEF LoginTypes, Login!Init, Login!Nobody, Login!Someone
  <1> QED
    BY <1>1, <1>2 DEF LoginInv, HeardInv, UnmountedInv, Login!Init

LEMMA KeptUnmounted ==
  ASSUME LoginInv, Kept(loginCall', Tabs, LoginKinds), UNCHANGED loginSession,
         NEW t \in Tabs, loginSession[t] = Nil
  PROVE  NoneMounted(t)' /\ loginData[t] = Nil
  BY NoneOrRequest DEF LoginInv, UnmountedInv, NoneMounted, Kept, Goes

\* A change that is stored is the last one every tab will hear of.
LEMMA StoreHeard ==
  ASSUME LoginInv, NEW u \in Login!Someone, Login!Store(u),
         \A t \in Tabs : loginPage'[t] = "up" => loginPage[t] = "up"
  PROVE  /\ HeardInv' /\ loginHeard' \in [Tabs -> Seq(Login!Someone)]
         /\ loginStored' \in [user : Login!Someone, valid : BOOLEAN]
  <1>1. /\ loginStored' = [user |-> u, valid |-> u # Nil]
        /\ loginHeard' = [t \in Tabs |-> IF loginPage[t] = "up" THEN Append(loginHeard[t], u)
                                         ELSE loginHeard[t]]
    BY DEF Login!Store
  <1>2. loginHeard \in [Tabs -> Seq(Login!Someone)]
    BY DEF LoginInv, LoginTypes
  <1>3. ASSUME NEW t \in Tabs, loginPage'[t] = "up"
        PROVE  loginHeard'[t] # <<>> /\ IsLast(loginHeard'[t], u)
    <2>1. loginHeard'[t] = Append(loginHeard[t], u) /\ loginHeard[t] \in Seq(Login!Someone)
      BY <1>1, <1>2, <1>3
    <2> QED
      BY <2>1 DEF IsLast
  <1> QED
    BY <1>1, <1>2, <1>3 DEF HeardInv

LEMMA AskedIsRequest ==
  ASSUME NEW u
  PROVE  IsRequest(Login!Asked(u)) /\ Login!Asked(u).mounted
  BY DEF IsRequest, HasFields, Login!Asked

LEMMA ShowOK ==
  ASSUME LoginInv, NEW t \in Tabs, NEW u \in Login!Someone, Login!Show(t, u)
  PROVE  /\ loginSession' = [loginSession EXCEPT ![t] = u]
         /\ loginSession' \in [Tabs -> Login!Someone]
         /\ DOMAIN loginData' = Tabs
         /\ RequestsOf(loginCall', Tabs, LoginKinds)
         /\ UnmountedInv'
  <1>1. /\ loginSession' = [loginSession EXCEPT ![t] = u]
        /\ loginSession' \in [Tabs -> Login!Someone]
    BY DEF Login!Show, LoginInv, LoginTypes
  <1>2. /\ DOMAIN loginData' = Tabs
        /\ u = Nil => loginData'[t] = Nil
        /\ \A z \in Tabs : z # t => loginData'[z] = loginData[z]
    BY DEF Login!Show, LoginInv, LoginTypes
  <1> DEFINE old == loginCall[t]
             unmounted == [k \in LoginKinds |->
                 IF k = "load" \/ old[k] = NoRequest THEN NoRequest
                 ELSE [old[k] EXCEPT !.mounted = FALSE]]
  <1>3. PICK X :
          /\ loginCall' = [loginCall EXCEPT ![t] = X]
          /\ \/ u = Nil /\ X = unmounted
             \/ u # Nil /\ X = [old EXCEPT !["load"] = Login!Asked(Nil)]
             \/ u # Nil /\ X = old
    BY DEF Login!Show, Login!NoCall, NoRequest
  <1>4. DOMAIN old = LoginKinds
        /\ \A k \in LoginKinds : old[k] = NoRequest \/ IsRequest(old[k])
    BY DEF LoginInv, LoginTypes, RequestsOf
  <1>5. /\ DOMAIN X = LoginKinds
        /\ \A k \in LoginKinds : X[k] = NoRequest \/ IsRequest(X[k])
        /\ u = Nil => \A k \in LoginKinds : X[k] = NoRequest \/ ~X[k].mounted
    <2>1. CASE u = Nil /\ X = unmounted
      <3>1. ASSUME NEW k \in LoginKinds
            PROVE  X[k] = NoRequest \/ (IsRequest(X[k]) /\ ~X[k].mounted)
        <4>1. CASE X[k] = NoRequest
          BY <4>1
        <4>2. CASE X[k] # NoRequest
          <5>1. IsRequest(old[k]) /\ X[k] = [old[k] EXCEPT !.mounted = FALSE]
            BY <1>4, <2>1, <4>2
          <5>2. HasFields(X[k]) /\ X[k].state = old[k].state /\ X[k].took = old[k].took
                /\ X[k].mounted = FALSE
            BY <5>1, MountedSet DEF IsRequest
          <5> QED
            BY <5>1, <5>2 DEF IsRequest
        <4> QED
          BY <4>1, <4>2
      <3> QED
        BY <2>1, <3>1
    <2>2. CASE u # Nil /\ X = [old EXCEPT !["load"] = Login!Asked(Nil)]
      BY <1>4, <2>2, AskedIsRequest
    <2>3. CASE u # Nil /\ X = old
      BY <1>4, <2>3
    <2> QED
      BY <1>3, <2>1, <2>2, <2>3
  <1>6. DOMAIN loginCall = Tabs
    BY DEF LoginInv, LoginTypes, RequestsOf
  <1>7. /\ DOMAIN loginCall' = Tabs /\ loginCall'[t] = X
        /\ \A z \in Tabs : z # t => loginCall'[z] = loginCall[z]
    BY <1>3, <1>6
  <1>8. RequestsOf(loginCall', Tabs, LoginKinds)
    <2>1. ASSUME NEW z \in Tabs
          PROVE  /\ DOMAIN loginCall'[z] = LoginKinds
                 /\ \A k \in LoginKinds : loginCall'[z][k] = NoRequest
                                          \/ IsRequest(loginCall'[z][k])
      <3>1. CASE z = t
        BY <1>5, <1>7, <3>1
      <3>2. CASE z # t
        BY <1>7, <3>2 DEF LoginInv, LoginTypes, RequestsOf
      <3> QED
        BY <3>1, <3>2
    <2> QED
      BY <1>7, <2>1 DEF RequestsOf
  <1>9. UnmountedInv'
    <2> SUFFICES ASSUME NEW z \in Tabs, loginSession'[z] = Nil
                 PROVE  loginData'[z] = Nil /\ NoneMounted(z)'
      BY DEF UnmountedInv
    <2>1. CASE z = t
      <3>1. u = Nil
        BY <1>1, <2>1 DEF LoginInv, LoginTypes
      <3> QED
        BY <1>2, <1>5, <1>7, <2>1, <3>1 DEF NoneMounted
    <2>2. CASE z # t
      <3>1. loginSession[z] = Nil
        BY <1>1, <2>2 DEF LoginInv, LoginTypes
      <3> QED
        BY <1>2, <1>7, <2>2, <3>1 DEF LoginInv, UnmountedInv, NoneMounted
    <2> QED
      BY <2>1, <2>2
  <1> QED
    BY <1>1, <1>2, <1>8, <1>9

\* Steps that leave the sessions of the tabs alone, and add nothing to what they hold.
LEMMA SessionsStay ==
  ASSUME LoginInv, UNCHANGED <<loginPage, loginSession, loginData>>,
         Kept(loginCall', Tabs, LoginKinds),
         loginStored' \in [user : Login!Someone, valid : BOOLEAN],
         loginHeard' \in [Tabs -> Seq(Login!Someone)], HeardInv'
  PROVE  LoginInv'
  <1>1. LoginTypes'
    BY DEF LoginInv, LoginTypes, Kept
  <1>2. UnmountedInv'
    BY KeptUnmounted DEF UnmountedInv
  <1> QED
    BY <1>1, <1>2 DEF LoginInv

\* ... and the storage, but for the validity of its token.
LEMMA TokenChanges ==
  ASSUME LoginInv, UNCHANGED <<loginHeard, loginPage, loginSession>>,
         \/ UNCHANGED loginStored
         \/ loginStored' = [loginStored EXCEPT !.valid = FALSE]
         \/ loginStored' = [loginStored EXCEPT !.valid = TRUE]
  PROVE  /\ loginStored' \in [user : Login!Someone, valid : BOOLEAN]
         /\ loginHeard' \in [Tabs -> Seq(Login!Someone)] /\ HeardInv'
  <1>1. loginStored \in [user : Login!Someone, valid : BOOLEAN]
    BY DEF LoginInv, LoginTypes
  <1>2. /\ loginStored' \in [user : Login!Someone, valid : BOOLEAN]
        /\ loginStored'.user = loginStored.user
    BY <1>1
  <1> QED
    BY <1>2 DEF LoginInv, LoginTypes, HeardInv

LEMMA VoidIsKept ==
  ASSUME LoginInv, NEW u
  PROVE  Kept(Login!Void(loginCall, u), Tabs, LoginKinds)
  <1>1. Login!Void(loginCall, u) = Voided(loginCall, Tabs, LoginKinds, u)
    BY DEF Login!Void, Voided, Login!NoCall, NoRequest
  <1>2. Kept(loginCall, Tabs, LoginKinds)
    BY AllKept DEF LoginInv, LoginTypes
  <1> QED
    BY <1>1, <1>2, VoidKeeps

LEMMA ExpireOK == ASSUME LoginInv, Login!Expire PROVE LoginInv'
  BY VoidIsKept, SessionsStay, TokenChanges DEF Login!Expire

LEMMA SignsOK ==
  ASSUME LoginInv, NEW t \in Tabs,
         Login!SignOut(t) \/ \E u \in Users : Login!SignIn(t, u)
  PROVE  LoginInv'
  <1>1. UNCHANGED <<loginPage, loginSession, loginData>>
    BY DEF Login!SignOut, Login!SignIn
  <1>2. PICK u \in Login!Someone : Login!Store(u)
    BY DEF Login!SignOut, Login!SignIn, Login!Someone
  <1>3. Kept(loginCall', Tabs, LoginKinds)
    <2>1. CASE Login!SignOut(t)
      BY <2>1, VoidIsKept DEF Login!SignOut
    <2>2. CASE UNCHANGED loginCall
      BY <2>2, AllKept DEF LoginInv, LoginTypes
    <2> QED
      BY <2>1, <2>2 DEF Login!SignIn
  <1> QED
    BY <1>1, <1>2, <1>3, StoreHeard, SessionsStay

LEMMA BootOK == ASSUME LoginInv, NEW t \in Tabs, Login!Boot(t) PROVE LoginInv'
  <1>1. /\ loginPage[t] = "closed" /\ loginPage' = [loginPage EXCEPT ![t] = "booting"]
        /\ Login!Show(t, loginStored.user) /\ UNCHANGED <<loginStored, loginHeard>>
    BY DEF Login!Boot
  <1>2. loginStored.user \in Login!Someone
    BY DEF LoginInv, LoginTypes
  <1>3. /\ loginSession' = [loginSession EXCEPT ![t] = loginStored.user]
        /\ loginSession' \in [Tabs -> Login!Someone] /\ DOMAIN loginData' = Tabs
        /\ RequestsOf(loginCall', Tabs, LoginKinds) /\ UnmountedInv'
    BY <1>1, <1>2, ShowOK
  <1>4. LoginTypes'
    BY <1>1, <1>3 DEF LoginInv, LoginTypes
  <1>5. HeardInv'
    BY <1>1, <1>3 DEF LoginInv, LoginTypes, HeardInv
  <1> QED
    BY <1>3, <1>4, <1>5 DEF LoginInv

LEMMA BootFromLinkOK ==
  ASSUME LoginInv, NEW t \in Tabs, NEW u \in Users, Login!BootFromLink(t, u)
  PROVE  LoginInv'
  <1>1. /\ loginPage' = [loginPage EXCEPT ![t] = "booting"]
        /\ Login!Store(u) /\ Login!Show(t, u) /\ u \in Login!Someone
    BY DEF Login!BootFromLink, Login!Someone
  <1>2. /\ loginSession' \in [Tabs -> Login!Someone] /\ DOMAIN loginData' = Tabs
        /\ RequestsOf(loginCall', Tabs, LoginKinds) /\ UnmountedInv'
    BY <1>1, ShowOK
  <1>3. \A z \in Tabs : loginPage'[z] = "up" => loginPage[z] = "up"
    BY <1>1 DEF LoginInv, LoginTypes
  <1>4. /\ HeardInv' /\ loginHeard' \in [Tabs -> Seq(Login!Someone)]
        /\ loginStored' \in [user : Login!Someone, valid : BOOLEAN]
    BY <1>1, <1>3, StoreHeard
  <1>5. LoginTypes'
    BY <1>1, <1>2, <1>4 DEF LoginInv, LoginTypes
  <1> QED
    BY <1>2, <1>4, <1>5 DEF LoginInv

LEMMA SubscribeOK == ASSUME LoginInv, NEW t \in Tabs, Login!Subscribe(t) PROVE LoginInv'
  <1>1. /\ loginPage' = [loginPage EXCEPT ![t] = "up"]
        /\ loginHeard' = [loginHeard EXCEPT ![t] = <<loginStored.user>>]
        /\ UNCHANGED <<loginStored, loginSession, loginData, loginCall>>
    BY DEF Login!Subscribe
  <1>2. loginStored.user \in Login!Someone
    BY DEF LoginInv, LoginTypes
  <1>3. LoginTypes'
    BY <1>1, <1>2 DEF LoginInv, LoginTypes
  <1>4. HeardInv'
    <2>1. <<loginStored.user>> # <<>> /\ IsLast(<<loginStored.user>>, loginStored.user)
      BY DEF IsLast
    <2> QED
      BY <1>1, <2>1 DEF LoginInv, LoginTypes, HeardInv
  <1> QED
    BY <1>1, <1>3, <1>4 DEF LoginInv, UnmountedInv, NoneMounted

LEMMA HearOK == ASSUME LoginInv, NEW t \in Tabs, Login!Hear(t) PROVE LoginInv'
  <1> DEFINE s == loginHeard[t]
  <1>1. PICK n \in 1..Len(s) :
          /\ Login!Show(t, s[n])
          /\ loginHeard' = [loginHeard EXCEPT ![t] = SubSeq(s, n + 1, Len(s))]
    BY DEF Login!Hear, LoginInv, LoginTypes
  <1>2. UNCHANGED <<loginStored, loginPage>>
    BY DEF Login!Hear
  <1>3. s \in Seq(Login!Someone) /\ s[n] \in Login!Someone
    BY DEF LoginInv, LoginTypes
  <1>4. /\ loginSession' = [loginSession EXCEPT ![t] = s[n]]
        /\ loginSession' \in [Tabs -> Login!Someone] /\ DOMAIN loginData' = Tabs
        /\ RequestsOf(loginCall', Tabs, LoginKinds) /\ UnmountedInv'
    BY <1>1, <1>3, ShowOK
  <1>5. SubSeq(s, n + 1, Len(s)) \in Seq(Login!Someone)
    BY <1>3
  <1>6. LoginTypes'
    BY <1>1, <1>2, <1>4, <1>5 DEF LoginInv, LoginTypes
  <1>7. HeardInv'
    <2> SUFFICES ASSUME NEW z \in Tabs, loginPage'[z] = "up"
                 PROVE  IF loginHeard'[z] = <<>> THEN loginSession'[z] = loginStored'.user
                        ELSE IsLast(loginHeard'[z], loginStored'.user)
      BY DEF HeardInv
    <2>1. CASE z # t
      <3>1. loginHeard'[z] = loginHeard[z] /\ loginSession'[z] = loginSession[z]
        BY <1>1, <1>4, <2>1 DEF LoginInv, LoginTypes
      <3> QED
        BY <1>2, <3>1 DEF LoginInv, HeardInv
    <2>2. CASE z = t
      <3>1. s # <<>> /\ IsLast(s, loginStored.user)
        BY <1>2, <1>3, <2>2 DEF LoginInv, HeardInv
      <3>2. loginHeard'[t] = SubSeq(s, n + 1, Len(s)) /\ loginSession'[t] = s[n]
        BY <1>1, <1>4 DEF LoginInv, LoginTypes
      <3>3. CASE n = Len(s)
        BY <1>2, <1>3, <2>2, <3>1, <3>2, <3>3 DEF IsLast
      <3>4. CASE n # Len(s)
        <4>1. Len(s) \in Nat /\ n < Len(s)
          BY <1>3, <3>4
        <4>2. /\ Len(SubSeq(s, n + 1, Len(s))) = Len(s) - n
              /\ SubSeq(s, n + 1, Len(s))[Len(s) - n] = s[Len(s)]
          BY <1>3, <4>1
        <4>3. Len(loginHeard'[t]) = Len(s) - n /\ Len(s) - n # 0
          BY <3>2, <4>1, <4>2
        <4>4. loginHeard'[t] # <<>>
          BY <4>3
        <4>5. loginHeard'[t][Len(loginHeard'[t])] = loginStored.user
          BY <3>1, <3>2, <4>2, <4>3 DEF IsLast
        <4> QED
          BY <1>2, <2>2, <4>4, <4>5 DEF IsLast
      <3> QED
        BY <3>3, <3>4
    <2> QED
      BY <2>1, <2>2
  <1> QED
    BY <1>4, <1>6, <1>7 DEF LoginInv

LEMMA AskOK ==
  ASSUME LoginInv, NEW t \in Tabs, NEW k \in LoginKinds, Login!Ask(t, k)
  PROVE  LoginInv'
  <1>1. PICK d : /\ loginCall' = [loginCall EXCEPT ![t][k] = d]
                 /\ IsRequest(d)
    BY AskedIsRequest DEF Login!Ask
  <1>2. /\ UNCHANGED <<loginStored, loginPage, loginHeard, loginSession, loginData>>
        /\ loginSession[t] # Nil
    BY DEF Login!Ask
  <1>3. RequestsOf(loginCall', Tabs, LoginKinds)
    BY <1>1 DEF LoginInv, LoginTypes, RequestsOf
  <1>4. \A z \in Tabs : z # t => loginCall'[z] = loginCall[z]
    BY <1>1 DEF LoginInv, LoginTypes, RequestsOf
  <1>5. UnmountedInv'
    BY <1>2, <1>4 DEF LoginInv, UnmountedInv, NoneMounted
  <1> QED
    BY <1>2, <1>3, <1>5 DEF LoginInv, LoginTypes, HeardInv

LEMMA ServeOK ==
  ASSUME LoginInv, NEW t \in Tabs, NEW k \in LoginKinds, Login!Serve(t, k)
  PROVE  LoginInv'
  <1> DEFINE c == loginCall[t][k]
             calls == IF k = "delete" THEN Login!Void(loginCall, c.as) ELSE loginCall
             served == [c EXCEPT !.state = "done", !.took = TRUE]
  <1>1. /\ UNCHANGED <<loginPage, loginHeard, loginSession, loginData>>
        /\ c.state = "sent"
        /\ loginStored' = IF k = "delete" /\ loginStored.user = c.as
                          THEN [loginStored EXCEPT !.valid = FALSE] ELSE loginStored
    BY DEF Login!Serve
  <1>2. \/ loginCall' = [calls EXCEPT ![t][k] = served]
        \/ loginCall' = [calls EXCEPT ![t][k] = NoRequest]
    BY DEF Login!Serve, Login!Unanswered, Login!NoCall, NoRequest
  <1>3. Kept(calls, Tabs, LoginKinds)
    BY VoidIsKept, AllKept DEF LoginInv, LoginTypes
  <1>4. Goes(c, served) /\ Goes(c, NoRequest)
    <2>1. IsRequest(c)
      BY <1>1 DEF LoginInv, LoginTypes, RequestsOf, NoRequest
    <2>2. Goes(c, served)
      BY <1>1, <2>1, Changes
    <2> QED
      BY <2>2 DEF Goes
  <1>5. Kept(loginCall', Tabs, LoginKinds)
    <2> HIDE DEF calls, served
    <2>1. CASE loginCall' = [calls EXCEPT ![t][k] = served]
      BY <1>3, <1>4, <2>1, OneGoes
    <2>2. CASE loginCall' = [calls EXCEPT ![t][k] = NoRequest]
      BY <1>3, <1>4, <2>2, OneGoes
    <2> QED
      BY <1>2, <2>1, <2>2
  <1> QED
    BY <1>1, <1>5, TokenChanges, SessionsStay

LEMMA TakeOK ==
  ASSUME LoginInv, NEW t \in Tabs, NEW k \in LoginKinds, Login!Take(t, k)
  PROVE  LoginInv'
  <1> DEFINE c == loginCall[t][k]
             taken == [loginCall EXCEPT ![t][k] = NoRequest]
  <1>1. /\ UNCHANGED <<loginPage, loginSession>> /\ c.state = "done"
        /\ loginData' = IF k # "delete" /\ c.mounted THEN [loginData EXCEPT ![t] = c.as]
                        ELSE loginData
        /\ IF k = "delete"
           THEN Login!Store(Nil) /\ loginCall' = Login!Void(taken, loginStored.user)
           ELSE loginCall' = taken /\ UNCHANGED <<loginStored, loginHeard>>
    BY DEF Login!Take, Login!NoCall, NoRequest
  <1>2. IsRequest(c)
    <2>1. c.state = "done"
      BY <1>1
    <2>2. c = NoRequest \/ IsRequest(c)
      BY DEF LoginInv, LoginTypes, RequestsOf
    <2> QED
      BY <2>1, <2>2 DEF NoRequest
  <1>3. Kept(taken, Tabs, LoginKinds)
    <2>1. Kept(loginCall, Tabs, LoginKinds) /\ Goes(c, NoRequest)
      BY AllKept DEF LoginInv, LoginTypes, Goes
    <2> QED
      BY <2>1, OneGoes
  <1>4. Kept(loginCall', Tabs, LoginKinds)
    <2> HIDE DEF taken
    <2>1. Login!Void(taken, loginStored.user) = Voided(taken, Tabs, LoginKinds, loginStored.user)
      BY DEF Login!Void, Voided, Login!NoCall, NoRequest
    <2>2. Kept(Voided(taken, Tabs, LoginKinds, loginStored.user), Tabs, LoginKinds)
      BY <1>3, VoidKeeps
    <2> QED
      BY <1>1, <1>3, <2>1, <2>2
  <1>5. CASE k = "delete"
    <2>1. Nil \in Login!Someone /\ UNCHANGED loginData
      BY <1>1, <1>5 DEF Login!Someone
    <2> QED
      BY <1>1, <1>4, <1>5, <2>1, StoreHeard, SessionsStay
  <1>6. CASE k # "delete"
    <2>1. LoginTypes' /\ HeardInv'
      BY <1>1, <1>4, <1>6 DEF LoginInv, LoginTypes, HeardInv, Kept
    <2>2. UnmountedInv'
      <3> SUFFICES ASSUME NEW z \in Tabs, loginSession'[z] = Nil
                   PROVE  loginData'[z] = Nil /\ NoneMounted(z)'
        BY DEF UnmountedInv
      <3>1. loginSession[z] = Nil /\ NoneMounted(z) /\ NoneMounted(z)' /\ loginData[z] = Nil
        BY <1>1, <1>4, KeptUnmounted DEF LoginInv, UnmountedInv
      <3>2. z = t => ~c.mounted
        BY <1>2, <3>1, NoneOrRequest DEF NoneMounted
      <3>3. loginData'[z] = loginData[z]
        BY <1>1, <3>2 DEF LoginInv, LoginTypes
      <3> QED
        BY <3>1, <3>3
    <2> QED
      BY <2>1, <2>2 DEF LoginInv
  <1> QED
    BY <1>5, <1>6

LEMMA LoginStep == ASSUME LoginInv, Login!Next PROVE LoginInv'
  <1>1. ASSUME NEW t \in Tabs, NEW k \in LoginKinds, RequestMoves(t, k) PROVE LoginInv'
    <2>1. Kept(loginCall', Tabs, LoginKinds)
      BY <1>1, RequestMovesKept DEF LoginInv, LoginTypes
    <2>2. /\ UNCHANGED <<loginPage, loginHeard, loginSession, loginData>>
          /\ \/ UNCHANGED loginStored
             \/ loginStored' = [loginStored EXCEPT !.valid = TRUE]
      BY <1>1 DEF RequestMoves, Login!Send, Login!Lose, Login!Refuse, Login!Retry, Login!GiveUp
    <2> QED
      BY <2>1, <2>2, TokenChanges, SessionsStay
  <1> QED
    BY <1>1, ExpireOK, SignsOK, BootOK, BootFromLinkOK, SubscribeOK, HearOK, AskOK, ServeOK,
       TakeOK DEF Login!Next, Login!Request, RequestMoves

-----------------------------------------------------------------------------
\* The part of one request of every kind: what is said of it is about its requests

RetryInv == RequestsOf(loginCall, FewTabs, RetryKinds) /\ ~loginTwice

LEMMA RetryStarts == ASSUME Retry!Init PROVE RetryInv
  BY DEF RetryInv, RequestsOf, Retry!Init, Retry!NoCall, NoRequest

LEMMA RetryShowOK ==
  ASSUME RetryInv, NEW t \in FewTabs, NEW u, Retry!Show(t, u)
  PROVE  RequestsOf(loginCall', FewTabs, RetryKinds)
  <1> DEFINE old == loginCall[t]
             unmounted == [k \in RetryKinds |->
                 IF k = "load" \/ old[k] = NoRequest THEN NoRequest
                 ELSE [old[k] EXCEPT !.mounted = FALSE]]
  <1>1. PICK X :
          /\ loginCall' = [loginCall EXCEPT ![t] = X]
          /\ \/ X = unmounted
             \/ X = [old EXCEPT !["load"] = Retry!Asked(Nil)]
             \/ X = old
    BY DEF Retry!Show, Retry!NoCall, NoRequest
  <1>2. DOMAIN old = RetryKinds
        /\ \A k \in RetryKinds : old[k] = NoRequest \/ IsRequest(old[k])
    BY DEF RetryInv, RequestsOf
  <1>3. IsRequest(Retry!Asked(Nil))
    BY DEF IsRequest, HasFields, Retry!Asked
  <1>4. DOMAIN X = RetryKinds /\ \A k \in RetryKinds : X[k] = NoRequest \/ IsRequest(X[k])
    <2>1. CASE X = unmounted
      <3>1. ASSUME NEW k \in RetryKinds, X[k] # NoRequest PROVE IsRequest(X[k])
        <4>1. IsRequest(old[k]) /\ X[k] = [old[k] EXCEPT !.mounted = FALSE]
          BY <1>2, <2>1, <3>1
        <4>2. HasFields(X[k]) /\ X[k].state = old[k].state /\ X[k].took = old[k].took
              /\ X[k].mounted = FALSE
          BY <4>1, MountedSet DEF IsRequest
        <4> QED
          BY <4>1, <4>2 DEF IsRequest
      <3> QED
        BY <2>1, <3>1
    <2>2. CASE X = [old EXCEPT !["load"] = Retry!Asked(Nil)]
      BY <1>2, <1>3, <2>2
    <2>3. CASE X = old
      BY <1>2, <2>3
    <2> QED
      BY <1>1, <2>1, <2>2, <2>3
  <1>5. DOMAIN loginCall = FewTabs
    BY DEF RetryInv, RequestsOf
  <1>6. /\ DOMAIN loginCall' = FewTabs /\ loginCall'[t] = X
        /\ \A z \in FewTabs : z # t => loginCall'[z] = loginCall[z]
    BY <1>1, <1>5
  <1>7. ASSUME NEW z \in FewTabs
        PROVE  /\ DOMAIN loginCall'[z] = RetryKinds
               /\ \A k \in RetryKinds : loginCall'[z][k] = NoRequest
                                        \/ IsRequest(loginCall'[z][k])
    <2>1. CASE z = t
      BY <1>4, <1>6, <2>1
    <2>2. CASE z # t
      BY <1>6, <2>2 DEF RetryInv, RequestsOf
    <2> QED
      BY <2>1, <2>2
  <1> QED
    BY <1>6, <1>7 DEF RequestsOf

LEMMA RetryVoidIsKept ==
  ASSUME NEW F, Kept(F, FewTabs, RetryKinds), NEW u
  PROVE  Kept(Retry!Void(F, u), FewTabs, RetryKinds)
  <1>1. Retry!Void(F, u) = Voided(F, FewTabs, RetryKinds, u)
    BY DEF Retry!Void, Voided, Retry!NoCall, NoRequest
  <1> QED
    BY <1>1, VoidKeeps

LEMMA RetryServeOK ==
  ASSUME RetryInv, NEW t \in FewTabs, NEW k \in RetryKinds, Retry!Serve(t, k)
  PROVE  RetryInv'
  <1> DEFINE c == loginCall[t][k]
             calls == IF k = "delete" THEN Retry!Void(loginCall, c.as) ELSE loginCall
             served == [c EXCEPT !.state = "done", !.took = TRUE]
  <1>1. c.state = "sent" /\ loginTwice' = (loginTwice \/ c.took)
    BY DEF Retry!Serve
  <1>2. \/ loginCall' = [calls EXCEPT ![t][k] = served]
        \/ loginCall' = [calls EXCEPT ![t][k] = NoRequest]
    BY DEF Retry!Serve, Retry!Unanswered, Retry!NoCall, NoRequest
  <1>3. Kept(loginCall, FewTabs, RetryKinds)
    BY AllKept DEF RetryInv
  <1>4. Kept(calls, FewTabs, RetryKinds)
    BY <1>3, RetryVoidIsKept
  <1>5. IsRequest(c)
    <2>1. c = NoRequest \/ IsRequest(c)
      BY DEF RetryInv, RequestsOf
    <2> HIDE DEF calls, served
    <2> QED
      BY <1>1, <2>1 DEF NoRequest
  <1>6. Goes(c, served) /\ Goes(c, NoRequest)
    <2>1. Goes(c, served)
      BY <1>1, <1>5, Changes
    <2> QED
      BY <2>1 DEF Goes
  <1>7. Kept(loginCall', FewTabs, RetryKinds)
    <2> HIDE DEF calls, served
    <2>1. CASE loginCall' = [calls EXCEPT ![t][k] = served]
      BY <1>4, <1>6, <2>1, OneGoes
    <2>2. CASE loginCall' = [calls EXCEPT ![t][k] = NoRequest]
      BY <1>4, <1>6, <2>2, OneGoes
    <2> QED
      BY <1>2, <2>1, <2>2
  <1>8. ~loginTwice'
    <2>1. ~c.took
      BY <1>1, <1>5 DEF IsRequest
    <2> QED
      BY <1>1, <2>1 DEF RetryInv
  <1> QED
    BY <1>7, <1>8 DEF RetryInv, Kept

LEMMA RetryStep == ASSUME RetryInv, Retry!Next PROVE RetryInv'
  <1>0. Kept(loginCall, FewTabs, RetryKinds)
    BY AllKept DEF RetryInv
  <1>1. CASE Retry!Expire
    BY <1>0, <1>1, RetryVoidIsKept DEF Retry!Expire, Retry!Rest, RetryInv, Kept
  <1>2. ASSUME NEW t \in FewTabs,
               \/ Retry!Boot(t) \/ Retry!Hear(t)
               \/ \E u \in FewUsers : Retry!BootFromLink(t, u)
        PROVE  RetryInv'
    BY <1>2, RetryShowOK
       DEF Retry!Boot, Retry!Hear, Retry!BootFromLink, Retry!Rest, RetryInv
  <1>3. ASSUME NEW t \in FewTabs,
               Retry!Subscribe(t) \/ \E u \in FewUsers : Retry!SignIn(t, u)
        PROVE  RetryInv'
    BY <1>3 DEF Retry!Subscribe, Retry!SignIn, Retry!Rest, RetryInv
  <1>4. ASSUME NEW t \in FewTabs, Retry!SignOut(t) PROVE RetryInv'
    BY <1>0, <1>4, RetryVoidIsKept DEF Retry!SignOut, Retry!Rest, RetryInv, Kept
  <1>5. ASSUME NEW t \in FewTabs, NEW k \in RetryKinds, Retry!Ask(t, k) PROVE RetryInv'
    <2>0. \A u : IsRequest(Retry!Asked(u))
      BY DEF Retry!Asked, IsRequest, HasFields
    <2>1. PICK d : IsRequest(d) /\ loginCall' = [loginCall EXCEPT ![t][k] = d]
      BY <1>5, <2>0 DEF Retry!Ask
    <2>2. RequestsOf(loginCall', FewTabs, RetryKinds)
      BY <2>1 DEF RetryInv, RequestsOf
    <2> QED
      BY <1>5, <2>2 DEF Retry!Ask, RetryInv
  <1>6. ASSUME NEW t \in FewTabs, NEW k \in RetryKinds,
               \/ Retry!Send(t, k) \/ Retry!Lose(t, k) \/ Retry!Refuse(t, k)
               \/ Retry!Retry(t, k) \/ Retry!GiveUp(t, k)
        PROVE  RetryInv'
    <2>1. CASE RequestMoves(t, k)
      <3>1. RequestsOf(loginCall', FewTabs, RetryKinds)
        BY <2>1, RequestMovesKept DEF RetryInv, Kept
      <3> QED
        BY <1>6, <3>1 DEF RetryInv, Retry!Send, Retry!Lose, Retry!Refuse, Retry!Retry,
             Retry!GiveUp, Retry!Rest
    <2>2. CASE Retry!Retry(t, k)
      <3>1. \E d : Goes(loginCall[t][k], d) /\ loginCall' = [loginCall EXCEPT ![t][k] = d]
        <4> DEFINE c == loginCall[t][k]
        <4>1. loginCall' = [loginCall EXCEPT ![t][k] =
                 [[c EXCEPT !.state = "sent", !.as = loginStored.user,
                            !.valid = loginStored.valid] EXCEPT !.valid = TRUE, !.again = TRUE]]
          BY <2>2 DEF Retry!Retry, Retry!Sent, RetryInv, RequestsOf
        <4>2. c.state = "refused"
          BY <2>2 DEF Retry!Retry
        <4>3. IsRequest(c)
          BY <4>2 DEF RetryInv, RequestsOf, NoRequest
        <4> QED
          BY <4>1, <4>2, <4>3, Changes
      <3>2. RequestsOf(loginCall', FewTabs, RetryKinds)
        <4>1. PICK d : Goes(loginCall[t][k], d) /\ loginCall' = [loginCall EXCEPT ![t][k] = d]
          BY <3>1
        <4>2. Kept([loginCall EXCEPT ![t][k] = d], FewTabs, RetryKinds)
          BY <1>0, <4>1, OneGoes
        <4> QED
          BY <4>1, <4>2 DEF Kept
      <3> QED
        BY <2>2, <3>2 DEF RetryInv, Retry!Retry, Retry!Rest
    <2>3. CASE \/ Retry!Send(t, k) \/ Retry!Lose(t, k) \/ Retry!Refuse(t, k)
               \/ Retry!GiveUp(t, k)
      <3>1. RequestMoves(t, k)
        BY <2>3 DEF RequestMoves, Login!Send, Login!Lose, Login!Refuse, Login!GiveUp,
             Login!Sent, Login!Unanswered, Login!NoCall, Login!Rest, Retry!Send, Retry!Lose,
             Retry!Refuse, Retry!GiveUp, Retry!Sent, Retry!Unanswered, Retry!NoCall,
             Retry!Rest
      <3> QED
        BY <2>1, <3>1
    <2> QED
      BY <1>6, <2>2, <2>3
  <1>7. ASSUME NEW t \in FewTabs, NEW k \in RetryKinds, Retry!Take(t, k) PROVE RetryInv'
    <2> DEFINE taken == [loginCall EXCEPT ![t][k] = NoRequest]
    <2>1. /\ UNCHANGED loginTwice
          /\ loginCall' = taken \/ loginCall' = Retry!Void(taken, loginStored.user)
      BY <1>7 DEF Retry!Take, Retry!NoCall, NoRequest, Retry!Rest
    <2>2. Kept(taken, FewTabs, RetryKinds)
      BY <1>0, OneGoes DEF Goes
    <2>3. RequestsOf(loginCall', FewTabs, RetryKinds)
      <3> HIDE DEF taken
      <3> QED
        BY <2>1, <2>2, RetryVoidIsKept DEF Kept
    <2> QED
      BY <2>1, <2>3 DEF RetryInv
  <1> QED
    BY <1>1, <1>2, <1>3, <1>4, <1>5, <1>6, <1>7, RetryServeOK DEF Retry!Next, Retry!Request

-----------------------------------------------------------------------------
(* The desk's rows move like those of the other part of ReviewDesk *)

LEMMA DeskRowsAre == ASSUME DeskInv PROVE AreRows(deskRow)
  <1>1. \A r \in Desk!Row : "status" \in DOMAIN r
    BY DEF Desk!Row
  <1> QED
    BY <1>1 DEF DeskInv, Desk!TypeOK, AreRows

LEMMA DeskSteps == ASSUME Desk!Next PROVE RowsStep
  <1> USE DEF RowsStep
  <1>1. ASSUME NEW t \in Tabs,
               \/ \E a \in Apps : Desk!Select(t, a)
               \/ \E x \in Texts : Desk!Type(t, x)
               \/ Desk!Save(t) \/ Desk!ClickApprove(t) \/ Desk!ClickSend(t)
               \/ Desk!Refresh(t) \/ Desk!ClickDraft(t)
        PROVE  UNCHANGED Desk!server
    BY <1>1 DEF Desk!Select, Desk!Type, Desk!Save, Desk!ClickApprove, Desk!ClickSend,
                Desk!Refresh, Desk!ClickDraft, Desk!Clicks
  <1>2. ASSUME NEW i \in Desk!Slots, Desk!Land(i) \/ Desk!Fails(i) \/ Desk!NeverArrives(i)
        PROVE  UNCHANGED Desk!server
    BY <1>2 DEF Desk!Land, Desk!Fails, Desk!NeverArrives
  <1>3. ASSUME NEW a \in Apps, NEW outcome \in {"sent", "failed"}, Desk!SendEnds(a, outcome)
        PROVE  RowSent(a)
    BY <1>3 DEF Desk!SendEnds, RowSent
  <1>4. ASSUME NEW i \in Desk!Slots, Desk!Serve(i)
        PROVE  RowsStep
    <2>1. CASE Desk!ServeSave(i)
      BY <2>1 DEF Desk!ServeSave, Desk!server, RowRewritten, Unlocked, Desk!Rewritten
    <2>2. CASE Desk!ServeApprove(i)
      BY <2>2 DEF Desk!ServeApprove, Desk!server, RowApproved, Unlocked, Desk!Approvable
    <2>3. CASE Desk!ServeSend(i)
      BY <2>3 DEF Desk!ServeSend, Desk!server, RowQueued, Desk!Sendable
    <2>4. CASE Desk!ServeList(i) \/ Desk!FindDrafted(i) \/ Desk!NothingDrafted(i)
      BY <2>4 DEF Desk!ServeList, Desk!FindDrafted, Desk!NothingDrafted, Desk!server
    <2>5. CASE Desk!WriteDraft(i)
      BY <2>5 DEF Desk!WriteDraft, Desk!server, Desk!ContentLocked, RowRewritten, Unlocked,
                  Desk!Rewritten
    <2> QED
      BY <1>4, <2>1, <2>2, <2>3, <2>4, <2>5 DEF Desk!Serve
  <1> QED
    BY <1>1, <1>2, <1>3, <1>4 DEF Desk!Next, Desk!server

-----------------------------------------------------------------------------
(* All parts *)

PagesInv ==
    /\ part \in Parts
    /\ part = "desk" => DeskInv
    /\ part = "sends" => SendsInv
    /\ part = "draft" => DraftInv
    /\ part = "search" => SearchInv
    /\ part = "answers" => AnswersInv
    /\ part = "profile" => ProfileInv
    /\ part = "sync" => SyncInv /\ UnreadIsOld
    /\ part = "upload" => UploadInv
    /\ part = "slot" => SlotInv
    /\ part = "work" => WorkInv
    /\ part = "login" => LoginInv
    /\ part = "retry" => RetryInv

LEMMA PagesStart == Init => PagesInv
  BY PartsAssumption, DeskStarts, SendsStarts, DraftStarts, SearchStarts, AnswersStarts,
     ProfileStarts, SyncStarts, UnreadStarts, UploadStarts, SlotStarts, WorkStarts,
     LoginStarts, RetryStarts
     DEF Init, PagesInv, Parts

\* A step in which nothing happens.
LEMMA PagesRest == ASSUME PagesInv, UNCHANGED vars PROVE PagesInv'
  <1>0. /\ part' = part
        /\ UNCHANGED <<deskVars, draftVars, searchVars, answersVars, profileVars, syncVars,
                       resumeVars, workVars, loginVars>>
    BY DEF vars
  <1>1. CASE part = "desk"
    <2>1. UNCHANGED <<deskRow, deskApprovals, deskSends, deskRatified, deskList, deskDraft,
                      deskReq>> /\ DeskInv
      BY <1>0, <1>1 DEF deskVars, PagesInv
    <2>2. DeskInv'
      BY <2>1 DEF DeskInv, Desk!TypeOK, RequestFits, Fits, Desk!ApprovedWasReceived,
                  Desk!Reviewed, Desk!Slots, Desk!Idle
    <2> QED
      BY <1>0, <1>1, <2>2 DEF PagesInv, Parts
  <1>2. CASE part = "sends"
    <2>1. UNCHANGED <<deskRow, deskApprovals, deskSends>> /\ SendsInv
      BY <1>0, <1>2 DEF deskVars, PagesInv
    <2>2. SendsInv'
      BY <2>1 DEF SendsInv, AreRows, Sends!OneSendPerApproval
    <2> QED
      BY <1>0, <1>2, <2>2 DEF PagesInv, Parts
  <1>3. CASE part = "draft"
    <2>1. UNCHANGED <<draftRows, draftPicked, draftRun, draftCalls, draftWanted>> /\ DraftInv
      BY <1>0, <1>3 DEF draftVars, PagesInv
    <2>2. DraftInv'
      BY <2>1 DEF DraftInv
    <2> QED
      BY <1>0, <1>3, <2>2 DEF PagesInv, Parts
  <1>4. CASE part = "search"
    <2>1. UNCHANGED <<searchStatus, searchTarget, searchStored, searchShown, searchPoll>>
          /\ SearchInv
      BY <1>0, <1>4 DEF searchVars, PagesInv
    <2>2. SearchInv'
      BY <2>1 DEF SearchInv, Search!TypeOK, ReadAfterEnd
    <2> QED
      BY <1>0, <1>4, <2>2 DEF PagesInv, Parts
  <1>5. CASE part = "answers"
    <2>1. UNCHANGED <<answersScans, answersLatest, answersSealed, answersSelected,
                      answersPanel, answersAnswers, answersCalls, answersTold>> /\ AnswersInv
      BY <1>0, <1>5 DEF answersVars, PagesInv
    <2>2. AnswersInv'
      BY <2>1 DEF AnswersInv, CallsOK, AnsweredIsSealed, Answers!ToldMeansSealed
    <2> QED
      BY <1>0, <1>5, <2>2 DEF PagesInv, Parts
  <1>6. CASE part = "profile"
    <2>1. UNCHANGED <<profileRow, profileDraft, profileLoaded, profileSuggested,
                      profileReads, profileCall, profileReviewed, profileTyped>> /\ ProfileInv
      BY <1>0, <1>6 DEF profileVars, PagesInv
    <2>2. ProfileInv'
      BY <2>1 DEF ProfileInv, ProfileTypes, SentIsReviewed, WrittenIsShown,
                  Profile!OnlyReviewedIsStored
    <2> QED
      BY <1>0, <1>6, <2>2 DEF PagesInv, Parts
  <1>7. CASE part = "sync"
    <2>1. /\ UNCHANGED <<syncRow, syncForm, syncLater, syncOp, syncAttempt, syncSaves, syncPanel,
                         syncEdits, syncSent, syncMuddled, syncFenced, syncUnread>>
          /\ SyncInv /\ UnreadIsOld
      BY <1>0, <1>7 DEF syncVars, PagesInv
    <2>2. SyncTypes' /\ ReadIsOlder' /\ Sync!AttemptStays'
      BY <2>1 DEF SyncInv, SyncTypes, ReadIsOlder, Sync!AttemptStays
    <2>3. (NoTrouble => InTurn /\ RowIsWritten /\ FormsOK)'
      BY <2>1 DEF SyncInv, NoTrouble, InTurn, Busy, RowIsWritten, FormsOK, Followed, Fresh, Half,
                  Pending, PanelIsFresh, Reviewable
    <2>4. SyncInv' /\ UnreadIsOld'
      BY <2>1, <2>2, <2>3 DEF SyncInv, UnreadIsOld
    <2> QED
      BY <1>0, <1>7, <2>4 DEF PagesInv, Parts
  <1>8. CASE part = "upload"
    <2>1. UNCHANGED <<resumeObject, resumeRow, resumeIds, resumePage, resumeCall, resumeLost>>
          /\ UploadInv
      BY <1>0, <1>8 DEF resumeVars, PagesInv
    <2>2. UploadInv'
      BY <2>1, RowsStay DEF UploadInv, UploadTypes, TabInv, Uploaded, Deleting, Agree, HasRow,
                            Upload!SingleTab
    <2> QED
      BY <1>0, <1>8, <2>2 DEF PagesInv, Parts
  <1>9. CASE part = "slot"
    <2>1. UNCHANGED resumeRow /\ SlotInv
      BY <1>0, <1>9 DEF resumeVars, PagesInv
    <2>2. SlotInv'
      BY <2>1 DEF SlotInv, RowOK
    <2> QED
      BY <1>0, <1>9, <2>2 DEF PagesInv, Parts
  <1>10. CASE part = "work"
    <2>1. UNCHANGED <<workPhase, workRuns, workRevoked, workData, workShown, workList,
                      workRefreshes, workError, workFailures, workView, workCancels>> /\ WorkInv
      BY <1>0, <1>10 DEF workVars, PagesInv
    <2>2. WorkTypes'
      BY <2>1 DEF WorkInv, WorkTypes
    <2>3. WorkInv'
      BY <2>1, <2>2 DEF WorkInv, WasTrue, Present, Stopped, Refreshing, Work!EmptyIsReported
    <2> QED
      BY <1>0, <1>10, <2>3 DEF PagesInv, Parts
  <1>11. CASE part = "login"
    <2>1. UNCHANGED <<loginStored, loginPage, loginHeard, loginSession, loginData, loginCall>>
          /\ LoginInv
      BY <1>0, <1>11 DEF loginVars, PagesInv
    <2>2. LoginInv'
      BY <2>1 DEF LoginInv, LoginTypes, HeardInv, UnmountedInv, NoneMounted
    <2> QED
      BY <1>0, <1>11, <2>2 DEF PagesInv, Parts
  <1>12. CASE part = "retry"
    <2>1. UNCHANGED <<loginCall, loginTwice>> /\ RetryInv
      BY <1>0, <1>12 DEF loginVars, PagesInv
    <2>2. RetryInv'
      BY <2>1 DEF RetryInv
    <2> QED
      BY <1>0, <1>12, <2>2 DEF PagesInv, Parts
  <1> QED
    BY <1>1, <1>2, <1>3, <1>4, <1>5, <1>6, <1>7, <1>8, <1>9, <1>10, <1>11, <1>12
       DEF PagesInv, Parts

LEMMA PagesStep == ASSUME PagesInv, [Next]_vars PROVE PagesInv'
  <1>1. ASSUME Next PROVE PagesInv'
    <2>1. CASE part = "desk"
      BY PartsAssumption, <1>1, <2>1, DeskStep DEF Next, PagesInv
    <2>2. CASE part = "sends"
      BY PartsAssumption, <1>1, <2>2, SendsStep DEF Next, PagesInv
    <2>3. CASE part = "draft"
      BY PartsAssumption, <1>1, <2>3, DraftStep DEF Next, PagesInv
    <2>4. CASE part = "search"
      BY PartsAssumption, <1>1, <2>4, SearchStep DEF Next, PagesInv
    <2>5. CASE part = "answers"
      BY PartsAssumption, <1>1, <2>5, AnswersStep DEF Next, PagesInv
    <2>6. CASE part = "profile"
      BY PartsAssumption, <1>1, <2>6, ProfileStep DEF Next, PagesInv
    <2>7. CASE part = "sync"
      BY PartsAssumption, <1>1, <2>7, SyncStep, UnreadStep DEF Next, PagesInv
    <2>8. CASE part = "upload"
      BY PartsAssumption, <1>1, <2>8, UploadStep DEF Next, PagesInv
    <2>9. CASE part = "slot"
      BY PartsAssumption, <1>1, <2>9, SlotStep DEF Next, PagesInv
    <2>10. CASE part = "work"
      BY PartsAssumption, <1>1, <2>10, WorkStep DEF Next, PagesInv
    <2>11. CASE part = "login"
      BY PartsAssumption, <1>1, <2>11, LoginStep DEF Next, PagesInv
    <2>12. CASE part = "retry"
      BY PartsAssumption, <1>1, <2>12, RetryStep DEF Next, PagesInv
    <2> QED
      BY <2>1, <2>2, <2>3, <2>4, <2>5, <2>6, <2>7, <2>8, <2>9, <2>10, <2>11, <2>12
         DEF PagesInv, Parts
  <1> QED
    BY <1>1, PagesRest

\* In every reachable state, the invariant of the part holds.
THEOREM PartsHold == Spec => []PagesInv
  <1> QED
    BY PagesStart, PagesStep, PTL DEF Spec

\* An approval is of a content its tab had received from the API, queues one send at
\* most, and is reported only if the answers of the form are sealed.
THEOREM ApprovalsStayTrue == Spec => []ApprovalsAreTrue
  <1>1. PagesInv => ApprovalsAreTrue
    BY DEF PagesInv, DeskInv, SendsInv, AnswersInv, ApprovalsAreTrue
  <1> QED
    BY <1>1, PartsHold, PTL

\* Drafts go to the lead that was captured when the run started, and only what was
\* typed or on the screen is stored in the profile.
THEOREM UserAlwaysDecides == Spec => []UserDecides
  <1>1. PagesInv => UserDecides
    BY DraftHolds, ProfileHolds DEF PagesInv, UserDecides
  <1> QED
    BY <1>1, PartsHold, PTL

\* Forms follow the profile, texts their files, and rows the storage.
THEOREM StoredDataAlwaysAgrees == Spec => []StoredDataAgrees
  <1>1. PagesInv => StoredDataAgrees
    BY SyncHolds, SlotHolds, UploadHolds DEF PagesInv, StoredDataAgrees
  <1> QED
    BY <1>1, PartsHold, PTL

\* Sessions, cancellations and warnings are shown as they are, and a retry repeats
\* no effect.
THEOREM ScreenStaysTrue == Spec => []ScreenIsTrue
  <1>1. PagesInv => ScreenIsTrue
    BY LoginHolds, WorkHolds DEF PagesInv, ScreenIsTrue, RetryInv, Retry!RetryRepeatsNothing
  <1> QED
    BY <1>1, PartsHold, PTL

\* Whatever lands late, a queued message is not rewritten, a sent one not revived,
\* and an approved form keeps the answers it was approved with.
THEOREM ApprovedStaysAlone == Spec => ApprovedIsLeftAlone
  <1>1. ASSUME PagesInv, [Next]_vars
        PROVE  [\A a \in Apps :
                  /\ deskRow[a].status = "queued" =>
                        /\ deskRow'[a].status \in {"queued", "sent", "failed"}
                        /\ deskRow'[a].content = deskRow[a].content
                  /\ deskRow[a].status = "sent" => deskRow'[a] = deskRow[a]]_(Sends!vars)
    <2>1. CASE part \in {"desk", "sends"} /\ Next
      <3>1. AreRows(deskRow)
        BY <1>1, <2>1, DeskRowsAre DEF PagesInv, SendsInv
      <3>2. RowsStep
        BY <2>1, DeskSteps, SendsSteps DEF Next
      <3> QED
        BY <3>1, <3>2, QueuedStays
    <2>2. CASE ~(part \in {"desk", "sends"} /\ Next)
      <3>1. UNCHANGED deskVars
        BY <1>1, <2>2 DEF Next, vars
      <3> QED
        BY <3>1 DEF deskVars, Sends!vars, Sends!server, Sends!tabs
    <2> QED
      BY <2>1, <2>2
  <1>2. ASSUME PagesInv, [Next]_vars
        PROVE  [\A a \in Apps :
                  (syncForm[a].status = "approved" /\ syncForm'[a].status = "approved")
                  => syncForm'[a].answers = syncForm[a].answers]_(Sync!vars)
    <2>1. CASE part = "sync" /\ Next
      <3>1. SyncInv /\ Sync!Next
        BY <1>2, <2>1 DEF PagesInv, Next
      <3> QED
        BY PartsAssumption, <3>1, ApprovalStays
    <2>2. CASE ~(part = "sync" /\ Next)
      <3>1. UNCHANGED syncVars
        BY <1>2, <2>2 DEF Next, vars
      <3> QED
        BY <3>1 DEF syncVars, Sync!vars
    <2> QED
      BY <2>1, <2>2
  <1>3. []PagesInv /\ [][Next]_vars => Sends!QueuedIsLeftAlone
    BY <1>1, PTL DEF Sends!QueuedIsLeftAlone
  <1>4. []PagesInv /\ [][Next]_vars => Sync!ApprovalIsOfAnswers
    BY <1>2, PTL DEF Sync!ApprovalIsOfAnswers
  <1> QED
    BY <1>3, <1>4, PartsHold, PTL DEF Spec, ApprovedIsLeftAlone

\* A polling loop that ends because its search has ended has shown every lead that was
\* stored and that it could read.
THEOREM FinishedAlwaysShows == Spec => FinishedShowsEverything
  <1>1. ASSUME PagesInv, [Next]_vars
        PROVE  [\A s \in Places :
                  (searchPoll[s].at = "looping" /\ searchPoll'[s].at = "finished")
                  => \A j \in searchTarget[s] :
                        (searchPoll[s].rows[j] # Failed /\ j \in searchStored[s])
                        => s \in searchShown'[j]]_(Search!vars)
    <2>1. CASE part = "search" /\ Next
      <3>1. SearchInv /\ Search!Next
        BY <1>1, <2>1 DEF PagesInv, Next
      <3> QED
        BY PartsAssumption, <3>1, SearchStep
    <2>2. CASE ~(part = "search" /\ Next)
      <3>1. UNCHANGED searchVars
        BY <1>1, <2>2 DEF Next, vars
      <3> QED
        BY <3>1 DEF searchVars, Search!vars
    <2> QED
      BY <2>1, <2>2
  <1>2. []PagesInv /\ [][Next]_vars => Search!FinishedShowsEverything
    BY <1>1, PTL DEF Search!FinishedShowsEverything
  <1> QED
    BY <1>2, PartsHold, PTL DEF Spec, FinishedShowsEverything

-----------------------------------------------------------------------------
(* The types of drafting *)

\* What DraftInv does not say: the rest of the job, the bound of the rows, and that a
\* loop that waits for a draft has a request of its own.
DraftTypes ==
    /\ draftContact \in [Jobs -> Addresses]
    /\ draftStatus \in [Jobs -> {"saved", "drafting", "ready", "archived"}]
    /\ \A j \in Jobs : Len(draftRows[j]) <= MaxRows
    /\ \A s \in Places : draftCalls[s] # Draft!Free => draftCalls[s].found <= MaxRows
    /\ \A t \in Tabs : draftRun[t].at = "draft" => \E s \in Places : draftCalls[s].tab = t

LEMMA DraftTyped == ASSUME PartsAssumption, DraftInv, DraftTypes PROVE Draft!TypeOK
  <1>1. MaxRows \in Nat
    BY DEF PartsAssumption, Draft!DraftAssumption
  <1>2. ASSUME NEW j \in Jobs
        PROVE  \A i \in DOMAIN draftRows[j] : draftRows[j][i] \in Draft!AppRow
    <2>1. draftRows[j] \in Seq(ChosenRow)
      BY DEF DraftInv
    <2> QED
      BY <2>1 DEF ChosenRow
  <1>3. ASSUME NEW s \in Places
        PROVE  draftCalls[s] \in {Draft!Free} \cup Draft!Call
    <2>1. CASE draftCalls[s] = Draft!Free
      BY <2>1
    <2>2. CASE draftCalls[s] # Draft!Free
      <3>1. draftCalls[s] \in ChosenCall /\ draftCalls[s].found <= MaxRows
        BY <2>2 DEF DraftInv, DraftTypes
      <3>2. draftCalls[s].found \in 0..MaxRows
        BY <1>1, <3>1 DEF ChosenCall
      <3> QED
        BY <3>1, <3>2 DEF ChosenCall, Draft!Call
    <2> QED
      BY <2>1, <2>2
  <1>4. draftCalls \in [Places -> {Draft!Free} \cup Draft!Call]
    BY <1>3 DEF DraftInv
  <1> QED
    BY <1>2, <1>4 DEF DraftInv, DraftTypes, Draft!TypeOK

LEMMA DraftTypesStart == ASSUME PartsAssumption, Draft!Init PROVE DraftTypes
  <1>1. PICK a \in Addresses, j \in Jobs :
        /\ draftContact = [k \in Jobs |-> a]
        /\ draftStatus  = [k \in Jobs |-> "saved"]
        /\ draftRows    = [k \in Jobs |-> <<>>]
        /\ draftRun     = [t \in Tabs |->
              [at |-> "idle", job |-> j, todo |-> {}, to |-> draftContact,
               made |-> {}, failed |-> {}, chosen |-> {}, clicks |-> 0]]
        /\ draftCalls   = [s \in Places |-> Draft!Free]
    BY DEF Draft!Init
  <1>2. MaxRows \in Nat
    BY DEF PartsAssumption, Draft!DraftAssumption
  <1>3. \A k \in Jobs : Len(draftRows[k]) <= MaxRows
    BY <1>1, <1>2
  <1> QED
    BY <1>1, <1>3 DEF DraftTypes

\* Whose requests are under way, and which rows they have found.
LoopsHaveSlots ==
    \A t \in Tabs : draftRun[t].at = "draft" => \E s \in Places : draftCalls[s].tab = t
FoundFits == \A s \in Places : draftCalls[s] # Draft!Free => draftCalls[s].found <= MaxRows

\* A request is sent in a free slot, which is nobody's.
LEMMA SentIsOwn ==
  ASSUME PartsAssumption, DraftInv, FoundFits,
         NEW t, NEW j, NEW a, NEW w, Draft!Send(t, j, a, w)
  PROVE  /\ FoundFits'
         /\ \A u \in Tabs : (\E s \in Places : draftCalls[s].tab = u)
                                => \E s \in Places : draftCalls'[s].tab = u
         /\ \E s \in Places : draftCalls'[s].tab = t
  <1>1. NoOne \notin Tabs /\ MaxRows \in Nat
    BY DEF PartsAssumption, Draft!DraftAssumption
  <1>2. PICK s \in Places :
          /\ draftCalls[s] = Draft!Free
          /\ draftCalls' = [draftCalls EXCEPT ![s] = [step |-> "sent", tab |-> t, job |-> j,
                                            recipient |-> a, wanted |-> w, found |-> 0]]
    BY DEF Draft!Send
  <1>3. /\ draftCalls'[s].tab = t /\ draftCalls'[s].found = 0 /\ draftCalls[s].tab = NoOne
        /\ \A o \in Places : o # s => draftCalls'[o] = draftCalls[o]
    BY <1>2 DEF DraftInv, Draft!Free
  <1> QED
    BY <1>1, <1>3 DEF FoundFits

\* A request that goes on or ends stays its tab's.
LEMMA OwnerStays ==
  ASSUME PartsAssumption, DraftInv, FoundFits, NEW s \in Places,
         \/ \E as \in {"answered", "refused"} : Draft!Ends(s, as)
         \/ \E x \in {"generating", "written"} : draftCalls' = [draftCalls EXCEPT ![s].step = x]
         \/ \E i \in 0..MaxRows :
               draftCalls' = [draftCalls EXCEPT ![s].step = "looked", ![s].found = i],
         draftCalls[s] # Draft!Free
  PROVE  /\ FoundFits'
         /\ \A u \in Tabs : (\E o \in Places : draftCalls[o].tab = u)
                                => \E o \in Places : draftCalls'[o].tab = u
  <1>1. NoOne \notin Tabs /\ MaxRows \in Nat
    BY DEF PartsAssumption, Draft!DraftAssumption
  <1>2. draftCalls[s] \in ChosenCall /\ draftCalls[s].found <= MaxRows
    BY DEF DraftInv, FoundFits
  <1>3. \A o \in Places : o # s => draftCalls'[o] = draftCalls[o]
    BY DEF DraftInv, Draft!Ends
  <1>4. /\ draftCalls[s].tab # NoOne => draftCalls'[s].tab = draftCalls[s].tab
        /\ draftCalls'[s] = Draft!Free \/ draftCalls'[s].found <= MaxRows
    <2>1. ASSUME NEW as \in {"answered", "refused"}, Draft!Ends(s, as)
          PROVE  <1>4!1 /\ <1>4!2
      <3>1. CASE draftCalls[s].tab = NoOne
        BY <2>1, <3>1 DEF Draft!Ends, DraftInv
      <3>2. CASE draftCalls[s].tab # NoOne
        BY <2>1, <1>2, <3>2 DEF Draft!Ends, DraftInv, ChosenCall
      <3> QED
        BY <3>1, <3>2
    <2>2. ASSUME NEW x \in {"generating", "written"}, draftCalls' = [draftCalls EXCEPT ![s].step = x]
          PROVE  <1>4!1 /\ <1>4!2
      BY <2>2, <1>2 DEF DraftInv, ChosenCall
    <2>3. ASSUME NEW i \in 0..MaxRows,
                 draftCalls' = [draftCalls EXCEPT ![s].step = "looked", ![s].found = i]
          PROVE  <1>4!1 /\ <1>4!2
      <3>1. draftCalls'[s] = [draftCalls[s] EXCEPT !.step = "looked", !.found = i]
        BY <2>3 DEF DraftInv
      <3> QED
        BY <1>1, <1>2, <3>1 DEF ChosenCall
    <2> QED
      BY <2>1, <2>2, <2>3
  <1> QED
    BY <1>1, <1>3, <1>4 DEF FoundFits

\* The loop that has its answer waits for no draft.
LEMMA GoesOnWaitsNot ==
  ASSUME NEW r \in Draft!Run, NEW q \in Draft!Onward(r) \cup Draft!AfterFailure(r)
  PROVE  q.at # "draft"
  <1>1. ASSUME NEW p \in Draft!Run, NEW o \in Draft!Onward(p) PROVE o.at # "draft"
    <2>1. CASE p.todo = {}
      BY <2>1 DEF Draft!Onward, Draft!Run
    <2>2. CASE p.todo # {}
      BY <2>2 DEF Draft!Onward, Draft!Run
    <2> QED
      BY <2>1, <2>2
  <1>2. [r EXCEPT !.failed = @ \cup {r.job}] \in Draft!Run
    BY DEF Draft!Run
  <1> QED
    BY <1>1, <1>2 DEF Draft!AfterFailure

LEMMA DraftTypesStep ==
  ASSUME PartsAssumption, DraftInv, DraftTypes, Draft!Next PROVE DraftTypes'
  <1>1. /\ NoOne \notin Tabs /\ MaxRows \in Nat /\ FoundFits /\ LoopsHaveSlots
        /\ MaxClicks \in Nat
    BY DEF PartsAssumption, Draft!DraftAssumption, DraftTypes, FoundFits, LoopsHaveSlots
  <1>2. ASSUME LoopsHaveSlots', FoundFits', UNCHANGED Draft!server PROVE DraftTypes'
    BY <1>2 DEF Draft!server, DraftTypes, LoopsHaveSlots, FoundFits
  <1>3. ASSUME NEW t \in Tabs, NEW j \in Jobs, NEW a \in Addresses, Draft!Pick(t, j, a)
        PROVE  DraftTypes'
    BY <1>3 DEF Draft!Pick, Draft!server, DraftTypes
  <1>4. ASSUME NEW t \in Tabs, NEW chosen \in SUBSET Jobs, Draft!Click(t, chosen) PROVE DraftTypes'
    <2> DEFINE q == [draftRun[t] EXCEPT !.chosen = chosen, !.todo = chosen, !.to = draftPicked[t],
                                      !.made = {}, !.failed = {}, !.clicks = @ + 1]
    <2>1. q \in Draft!Run
      <3>1. draftRun[t] \in Draft!Run /\ draftRun[t].clicks + 1 \in 0..MaxClicks
        BY <1>1, <1>4 DEF Draft!Click, DraftInv, Draft!Run
      <3>2. draftPicked[t] \in [Jobs -> Addresses]
        BY DEF DraftInv
      <3> QED
        BY <3>1, <3>2 DEF Draft!Run
    <2>2. PICK r \in Draft!Onward(q) : draftRun' = [draftRun EXCEPT ![t] = r]
      BY <1>4 DEF Draft!Click
    <2>3. r.at # "draft"
      BY <2>1, GoesOnWaitsNot
    <2> HIDE DEF q
    <2>4. LoopsHaveSlots' /\ FoundFits'
      BY <1>1, <1>4, <2>2, <2>3 DEF LoopsHaveSlots, FoundFits, DraftInv, Draft!Click
    <2> QED
      BY <1>2, <1>4, <2>4 DEF Draft!Click
  <1>5. ASSUME NEW t \in Tabs, Draft!ContactSaved(t) PROVE DraftTypes'
    <2>1. draftRun[t] \in Draft!Run /\ draftRun[t].at = "patch" /\ draftRun[t].to = draftWanted[t]
      BY <1>5 DEF Draft!ContactSaved, DraftInv
    <2>2. Draft!Address(t) \in Addresses
      BY <2>1 DEF Draft!Address, Draft!Run
    <2>3. draftContact' \in [Jobs -> Addresses]
      BY <1>5, <2>2 DEF Draft!ContactSaved, DraftTypes
    <2>4. /\ FoundFits'
          /\ \A u \in Tabs : (\E s \in Places : draftCalls[s].tab = u)
                                 => \E s \in Places : draftCalls'[s].tab = u
          /\ \E s \in Places : draftCalls'[s].tab = t
      BY <1>1, <1>5, SentIsOwn DEF Draft!ContactSaved
    <2>5. \A u \in Tabs : u # t => draftRun'[u] = draftRun[u]
      BY <1>5 DEF Draft!ContactSaved, DraftInv
    <2>6. LoopsHaveSlots'
      BY <1>1, <2>4, <2>5 DEF LoopsHaveSlots
    <2> QED
      BY <1>5, <2>3, <2>4, <2>6 DEF Draft!ContactSaved, DraftTypes, LoopsHaveSlots, FoundFits
  <1>6. ASSUME NEW t \in Tabs, NEW effect \in BOOLEAN, Draft!ContactFails(t, effect)
        PROVE  DraftTypes'
    <2>1. draftRun[t] \in Draft!Run /\ draftRun[t].to = draftWanted[t]
      BY <1>6 DEF Draft!ContactFails, DraftInv
    <2>2. Draft!Address(t) \in Addresses
      BY <2>1 DEF Draft!Address, Draft!Run
    <2>3. draftContact' \in [Jobs -> Addresses]
      BY <1>6, <2>2 DEF Draft!ContactFails, DraftTypes
    <2>4. PICK r \in Draft!AfterFailure(draftRun[t]) : draftRun' = [draftRun EXCEPT ![t] = r]
      BY <1>6 DEF Draft!ContactFails
    <2>5. r.at # "draft"
      BY <2>1, GoesOnWaitsNot
    <2>6. LoopsHaveSlots'
      BY <1>1, <1>6, <2>4, <2>5 DEF LoopsHaveSlots, DraftInv, Draft!ContactFails
    <2> QED
      BY <1>6, <2>3, <2>6 DEF Draft!ContactFails, DraftTypes, LoopsHaveSlots
  <1>7. ASSUME NEW t \in Tabs, NEW s \in Places, Draft!DraftReturns(t, s) PROVE DraftTypes'
    <2> DEFINE q == [draftRun[t] EXCEPT !.made = @ \cup {draftRun[t].job}]
    <2>1. draftRun[t] \in Draft!Run /\ q \in Draft!Run
      BY DEF DraftInv, Draft!Run
    <2>2. PICK r \in Draft!Onward(q) \cup Draft!AfterFailure(draftRun[t]) :
                draftRun' = [draftRun EXCEPT ![t] = r]
      BY <1>7 DEF Draft!DraftReturns
    <2>3. r.at # "draft"
      BY <2>1, GoesOnWaitsNot
    <2> HIDE DEF q
    <2>4. draftCalls[s].tab = t /\ draftCalls[s] \in ChosenCall
      <3>1. draftCalls[s].tab = t
        BY <1>7 DEF Draft!DraftReturns
      <3> QED
        BY <1>1, <3>1 DEF DraftInv, Draft!Free
    <2>5. /\ \A o \in Places : o # s => draftCalls'[o] = draftCalls[o]
          /\ draftCalls'[s] = Draft!Free \/ draftCalls'[s].found = draftCalls[s].found
      BY <1>7, <2>4 DEF Draft!DraftReturns, DraftInv, ChosenCall
    <2>6. FoundFits'
      BY <1>1, <2>4, <2>5 DEF FoundFits, Draft!Free
    <2>7. ASSUME NEW u \in Tabs, draftRun'[u].at = "draft"
          PROVE  \E o \in Places : draftCalls'[o].tab = u
      <3>1. u # t /\ draftRun'[u] = draftRun[u]
        BY <2>2, <2>3, <2>7 DEF DraftInv
      <3>2. PICK o \in Places : draftCalls[o].tab = u
        BY <1>1, <2>7, <3>1 DEF LoopsHaveSlots
      <3> QED
        BY <2>4, <2>5, <3>1, <3>2
    <2> QED
      BY <1>2, <1>7, <2>6, <2>7 DEF Draft!DraftReturns, LoopsHaveSlots
  <1>8. ASSUME NEW t \in Tabs, NEW j \in Jobs, Draft!DraftOne(t, j) PROVE DraftTypes'
    <2>1. /\ FoundFits'
          /\ \A u \in Tabs : (\E s \in Places : draftCalls[s].tab = u)
                                 => \E s \in Places : draftCalls'[s].tab = u
      BY <1>1, <1>8, SentIsOwn DEF Draft!DraftOne
    <2>2. \A u \in Tabs : draftRun'[u].at = draftRun[u].at
      BY <1>8 DEF Draft!DraftOne, DraftInv, Draft!Run
    <2>3. LoopsHaveSlots'
      BY <1>1, <2>1, <2>2 DEF LoopsHaveSlots
    <2> QED
      BY <1>2, <1>8, <2>1, <2>3 DEF Draft!DraftOne
  <1>9. ASSUME NEW j \in Jobs, Draft!Archive(j) PROVE DraftTypes'
    BY <1>9 DEF Draft!Archive, DraftTypes
  <1>10. ASSUME NEW j \in Jobs, NEW i \in DOMAIN draftRows[j], Draft!Review(j, i) PROVE DraftTypes'
    <2>1. draftRows[j] \in Seq(ChosenRow)
      BY DEF DraftInv
    <2>2. PICK x : draftRows' = [draftRows EXCEPT ![j][i].status = x]
      BY <1>10 DEF Draft!Review
    <2>3. DOMAIN draftRows'[j] = DOMAIN draftRows[j] /\ draftRows'[j] \in Seq(ChosenRow)
      <3>1. DOMAIN draftRows'[j] = DOMAIN draftRows[j]
        BY <2>2 DEF DraftInv
      <3>2. DraftInv'
        BY DraftStep
      <3> QED
        BY <3>1, <3>2 DEF DraftInv
    <2>4. Len(draftRows'[j]) = Len(draftRows[j])
      BY <2>1, <2>3
    <2>5. \A k \in Jobs : k # j => draftRows'[k] = draftRows[k]
      BY <2>2 DEF DraftInv
    <2> QED
      BY <1>10, <2>4, <2>5 DEF Draft!Review, DraftTypes
  <1>11. ASSUME NEW s \in Places, Draft!Serve(s), FoundFits',
               \A u \in Tabs : (\E o \in Places : draftCalls[o].tab = u)
                                   => \E o \in Places : draftCalls'[o].tab = u
        PROVE  LoopsHaveSlots'
    <2>1. draftRun' = draftRun
      BY <1>11 DEF Draft!Serve, Draft!Refuses, Draft!Generates, Draft!GenerationFails, Draft!Looks,
                  Draft!Writes, Draft!Finishes, Draft!Dies
    <2> QED
      BY <1>1, <1>11, <2>1 DEF LoopsHaveSlots
  <1>12. ASSUME NEW s \in Places, Draft!Serve(s)
        PROVE  draftCalls[s] # Draft!Free
    BY <1>12 DEF Draft!Serve, Draft!Refuses, Draft!Generates, Draft!GenerationFails, Draft!Looks,
                Draft!Writes, Draft!Finishes, Draft!Dies, Draft!Moves, Draft!Free
  <1>13. ASSUME NEW s \in Places, Draft!Writes(s) PROVE DraftTypes'
    <2>1. draftCalls[s] \in ChosenCall
      BY <1>13, <1>12 DEF Draft!Serve, DraftInv
    <2>2. LoopsHaveSlots' /\ FoundFits'
      BY <1>1, <1>13, <1>12, <1>11, OwnerStays DEF Draft!Serve, Draft!Writes, Draft!Moves
    <2> DEFINE j == draftCalls[s].job
               i == draftCalls[s].found
    <2>3. PICK row :
            IF i # 0 THEN draftRows' = [draftRows EXCEPT ![j][i] = row]
            ELSE Len(draftRows[j]) < MaxRows /\ draftRows' = [draftRows EXCEPT ![j] = Append(@, row)]
      BY <1>13 DEF Draft!Writes
    <2>4. draftRows \in [Jobs -> Seq(ChosenRow)] /\ draftRows' \in [Jobs -> Seq(ChosenRow)]
      BY DraftStep DEF DraftInv
    <2>5. \A k \in Jobs : k # j => draftRows'[k] = draftRows[k]
      BY <2>3, <2>4
    <2>6. ASSUME j \in Jobs PROVE Len(draftRows'[j]) <= MaxRows
      <3>1. draftRows[j] \in Seq(ChosenRow) /\ draftRows'[j] \in Seq(ChosenRow)
        BY <2>4, <2>6
      <3>2. CASE i # 0
        <4>1. DOMAIN draftRows'[j] = DOMAIN draftRows[j]
          BY <2>3, <2>4, <2>6, <3>2
        <4>2. Len(draftRows'[j]) = Len(draftRows[j])
          BY <3>1, <4>1
        <4> QED
          BY <2>6, <4>2 DEF DraftTypes
      <3>3. CASE i = 0
        <4>1. draftRows'[j] = Append(draftRows[j], row) /\ Len(draftRows[j]) < MaxRows
          BY <2>3, <2>4, <2>6, <3>3
        <4>2. Len(draftRows'[j]) = Len(draftRows[j]) + 1 /\ Len(draftRows[j]) \in Nat
          BY <3>1, <4>1
        <4> QED
          BY <1>1, <4>1, <4>2
      <3> QED
        BY <3>2, <3>3
    <2>7. \A k \in Jobs : Len(draftRows'[k]) <= MaxRows
      BY <2>5, <2>6 DEF DraftTypes
    <2> QED
      BY <1>13, <2>2, <2>7 DEF Draft!Writes, DraftTypes, LoopsHaveSlots, FoundFits
  <1>14. ASSUME NEW s \in Places, Draft!Looks(s) PROVE DraftTypes'
    <2>1. draftCalls[s] \in ChosenCall
      BY <1>14, <1>12 DEF Draft!Serve, DraftInv
    <2>2. Draft!Drafted(draftCalls[s].job) \subseteq 0..MaxRows
      <3>1. /\ draftRows[draftCalls[s].job] \in Seq(ChosenRow)
            /\ Len(draftRows[draftCalls[s].job]) <= MaxRows
        BY <2>1 DEF DraftInv, DraftTypes, ChosenCall
      <3> QED
        BY <1>1, <3>1 DEF Draft!Drafted
    <2>3. PICK i \in 0..MaxRows :
                draftCalls' = [draftCalls EXCEPT ![s].step = "looked", ![s].found = i]
      <3>1. PICK i \in IF Draft!Drafted(draftCalls[s].job) = {} THEN {0}
                       ELSE Draft!Drafted(draftCalls[s].job) :
                  draftCalls' = [draftCalls EXCEPT ![s].step = "looked", ![s].found = i]
        BY <1>14 DEF Draft!Looks
      <3>2. i \in 0..MaxRows
        BY <1>1, <2>2, <3>1
      <3> QED
        BY <3>1, <3>2
    <2>4. FoundFits' /\ LoopsHaveSlots'
      BY <1>1, <1>14, <1>12, <1>11, <2>3, OwnerStays DEF Draft!Serve
    <2> QED
      BY <1>2, <1>14, <2>4 DEF Draft!Looks
  <1>15. ASSUME NEW s \in Places, Draft!Generates(s) PROVE DraftTypes'
    <2>1. FoundFits' /\ LoopsHaveSlots'
      BY <1>1, <1>15, <1>12, <1>11, OwnerStays DEF Draft!Serve, Draft!Generates, Draft!Moves
    <2> QED
      BY <1>15, <2>1 DEF Draft!Generates, DraftTypes, LoopsHaveSlots, FoundFits
  <1>16. ASSUME NEW s \in Places,
                \/ Draft!Refuses(s) \/ Draft!GenerationFails(s) \/ Draft!Finishes(s)
                \/ Draft!Dies(s)
         PROVE  DraftTypes'
    <2>1. \E as \in {"answered", "refused"} : Draft!Ends(s, as)
      BY <1>16 DEF Draft!Refuses, Draft!GenerationFails, Draft!Finishes, Draft!Dies
    <2>2. FoundFits' /\ LoopsHaveSlots'
      BY <1>1, <1>16, <1>12, <1>11, <2>1, OwnerStays DEF Draft!Serve
    <2>3. UNCHANGED <<draftContact, draftRows>>
          /\ draftStatus' \in [Jobs -> {"saved", "drafting", "ready", "archived"}]
      BY <1>16 DEF Draft!Refuses, Draft!GenerationFails, Draft!Finishes, Draft!Dies, Draft!server,
                   DraftTypes
    <2> QED
      BY <2>2, <2>3 DEF DraftTypes, LoopsHaveSlots, FoundFits
  <1> QED
    BY <1>3, <1>4, <1>5, <1>6, <1>7, <1>8, <1>9, <1>10, <1>13, <1>14, <1>15, <1>16
       DEF Draft!Next, Draft!Proceed, Draft!Serve

-----------------------------------------------------------------------------
(* The types of the review of captured forms *)

\* No revision is shown that there is not: neither in a panel nor in the answer to an
\* open that is still to land.
IsThere(r) == r # Nil => r[2] <= answersLatest[r[1]]
Opens(call) == call # Answers!Free /\ call.kind = "open"
OpensAreThere == \A s \in Places : Opens(answersCalls[s]) => IsThere(answersCalls[s].rev)
PanelsAreThere == \A t \in FewTabs : IsThere(answersPanel[t])

LEMMA AnswersTyped == ASSUME AnswersInv, PanelsAreThere PROVE Answers!TypeOK
  BY DEF AnswersInv, CallsOK, PanelsAreThere, IsThere, Answers!TypeOK, Answers!App

LEMMA AnswersTypesStart == ASSUME Answers!Init PROVE OpensAreThere /\ PanelsAreThere
  BY DEF Answers!Init, OpensAreThere, PanelsAreThere, IsThere, Opens

\* Revisions are only added.
LEMMA StaysThere ==
  ASSUME PartsAssumption, AnswersInv, Answers!Next, NEW r \in Answers!Revs \cup {Nil}, IsThere(r)
  PROVE  IsThere(r)'
  <1>1. MaxScans \in Nat
    BY DEF PartsAssumption, Answers!ReviewAssumption
  <1>2. \/ UNCHANGED answersLatest
        \/ \E a \in Apps : answersLatest' = [answersLatest EXCEPT ![a] = @ + 1]
    BY DEF Answers!Next, Answers!Scan, Answers!Scanned, Answers!OpenReview, Answers!Edit,
       Answers!Close, Answers!Suggest, Answers!Approve, Answers!ServeOpen, Answers!ServeSuggest,
       Answers!ServeApprove, Answers!OpenLands, Answers!SuggestionsLand, Answers!ApprovalLands,
       Answers!Fails, Answers!server
  <1>3. CASE r # Nil
    <2>1. r[1] \in Apps /\ r[2] \in Nat /\ answersLatest[r[1]] \in Nat
      BY <1>1, <1>3 DEF Answers!Revs, AnswersInv, CallsOK
    <2>2. answersLatest'[r[1]] \in Nat /\ answersLatest'[r[1]] >= answersLatest[r[1]]
      BY <1>1, <1>2, <2>1 DEF AnswersInv, CallsOK
    <2> QED
      BY <1>3, <2>1, <2>2 DEF IsThere
  <1> QED
    BY <1>3 DEF IsThere

\* Of the requests only an open that is answered gets a new revision: the newest one.
LEMMA AskedOpens ==
  ASSUME PartsAssumption, AnswersInv, Answers!Next, NEW s \in Places,
         Opens(answersCalls'[s])
  PROVE  \/ answersCalls'[s].rev = Nil
         \/ Opens(answersCalls[s]) /\ answersCalls'[s].rev = answersCalls[s].rev
         \/ /\ answersCalls'[s].rev = Answers!Newest(answersCalls[s].app)
            /\ answersCalls[s] \in Answers!Call /\ UNCHANGED answersLatest
  <1> DEFINE Goal == \/ answersCalls'[s].rev = Nil
                     \/ Opens(answersCalls[s]) /\ answersCalls'[s].rev = answersCalls[s].rev
                     \/ /\ answersCalls'[s].rev = Answers!Newest(answersCalls[s].app)
                        /\ answersCalls[s] \in Answers!Call /\ UNCHANGED answersLatest
  <1> USE DEF Opens
  <1>1. CASE UNCHANGED answersCalls
    BY <1>1
  <1>2. ASSUME NEW o \in Places, NEW call, Becomes(o, call), o = s => (Opens(call) => Goal)
        PROVE  Goal
    <2>1. CASE o = s
      BY <1>2, <2>1 DEF Becomes, AnswersInv, CallsOK
    <2>2. CASE o # s
      BY <1>2, <2>2 DEF Becomes, AnswersInv, CallsOK
    <2> QED
      BY <2>1, <2>2
  <1>3. ASSUME NEW kind \in {"open", "suggest", "approve"}, NEW t, NEW a, NEW r,
               kind = "open" => r = Nil, Answers!Ask(kind, t, a, r)
        PROVE  Goal
    <2>1. PICK o \in Places :
            answersCalls' = [answersCalls EXCEPT ![o] =
               [kind |-> kind, tab |-> t, app |-> a, rev |-> r,
                answers |-> answersAnswers[t], reply |-> ""]]
      BY <1>3 DEF Answers!Ask
    <2> QED
      BY <1>3, <2>1 DEF AnswersInv, CallsOK
  <1>4. ASSUME NEW t \in FewTabs, NEW a \in Apps, Answers!OpenReview(t, a) PROVE Goal
    BY <1>3, <1>4 DEF Answers!OpenReview
  <1>5. ASSUME NEW t \in FewTabs, Answers!Suggest(t) \/ Answers!Approve(t) PROVE Goal
    BY <1>3, <1>5 DEF Answers!Suggest, Answers!Approve
  <1>6. ASSUME NEW o \in Places, Answers!ServeOpen(o) PROVE Goal
    <2>1. answersCalls[o] \in Answers!Call
      BY <1>6 DEF Answers!ServeOpen, Answers!Arrived, AnswersInv, CallsOK
    <2>2. PICK x : answersCalls' = [answersCalls EXCEPT ![o].reply = "ok",
                      ![o].rev = Answers!Newest(answersCalls[o].app), ![o].answers = x]
      BY <1>6 DEF Answers!ServeOpen
    <2>3. /\ answersCalls'[o].rev = Answers!Newest(answersCalls[o].app)
          /\ o # s => answersCalls'[s] = answersCalls[s]
      BY <2>1, <2>2 DEF Answers!Call, AnswersInv, CallsOK
    <2>4. UNCHANGED answersLatest
      BY <1>6 DEF Answers!ServeOpen, Answers!server
    <2> QED
      BY <2>1, <2>3, <2>4
  <1>7. ASSUME NEW o \in Places, Answers!ServeSuggest(o) \/ Answers!ServeApprove(o) PROVE Goal
    <2>1. answersCalls[o] \in Answers!Call /\ answersCalls[o].kind # "open"
      BY <1>7 DEF Answers!ServeSuggest, Answers!ServeApprove, Answers!Arrived, AnswersInv, CallsOK
    <2>2. \/ \E x : answersCalls' = [answersCalls EXCEPT ![o].reply = x]
          \/ \E x, y : answersCalls' = [answersCalls EXCEPT ![o].reply = x, ![o].answers = y]
      BY <1>7 DEF Answers!ServeSuggest, Answers!ServeApprove, Answers!Answer
    <2>3. answersCalls'[o].kind # "open" /\ (o # s => answersCalls'[s] = answersCalls[s])
      BY <2>1, <2>2 DEF Answers!Call, AnswersInv, CallsOK
    <2> QED
      BY <2>3
  <1>8. ASSUME NEW o \in Places,
               \/ Answers!OpenLands(o) \/ Answers!SuggestionsLand(o) \/ Answers!Fails(o)
        PROVE  Goal
    BY <1>2, <1>8 DEF Answers!OpenLands, Answers!SuggestionsLand, Answers!Fails, Becomes
  <1>9. ASSUME NEW o \in Places, Answers!ApprovalLands(o) PROVE Goal
    <2> DEFINE a == answersSelected[answersCalls[o].tab]
               again == [kind |-> "open", tab |-> answersCalls[o].tab, app |-> a, rev |-> Nil,
                         answers |-> Answers!Blank, reply |-> ""]
               call == IF a = Nil THEN Answers!Free ELSE again
    <2>1. Becomes(o, call) /\ (Opens(call) => call.rev = Nil)
      <3>1. Becomes(o, call)
        BY <1>9 DEF Answers!ApprovalLands, Becomes
      <3>2. again.rev = Nil /\ ~Opens(Answers!Free)
        OBVIOUS
      <3> QED
        BY <3>1, <3>2
    <2> HIDE DEF call
    <2> QED
      BY <2>1 DEF Becomes, AnswersInv, CallsOK
  <1>10. CASE \/ \E a \in Apps : Answers!Scan(a) \/ Answers!Scanned(a)
              \/ \E t \in FewTabs : Answers!Close(t) \/ \E x \in Texts : Answers!Edit(t, x)
    BY <1>1, <1>10 DEF Answers!Scan, Answers!Scanned, Answers!Close, Answers!Edit
  <1> QED
    BY <1>4, <1>5, <1>6, <1>7, <1>8, <1>9, <1>10 DEF Answers!Next

LEMMA AnswersTypesStep ==
  ASSUME PartsAssumption, AnswersInv, OpensAreThere, PanelsAreThere, Answers!Next
  PROVE  OpensAreThere' /\ PanelsAreThere'
  <1>1. MaxScans \in Nat
    BY DEF PartsAssumption, Answers!ReviewAssumption
  <1>2. ASSUME NEW s \in Places, Opens(answersCalls'[s])
        PROVE  IsThere(answersCalls[s].rev)'
    <2>1. CASE answersCalls'[s].rev = Nil
      BY <2>1 DEF IsThere
    <2>2. CASE Opens(answersCalls[s]) /\ answersCalls'[s].rev = answersCalls[s].rev
      <3>1. /\ IsThere(answersCalls[s].rev) 
            /\ answersCalls[s].rev \in Answers!Revs \cup {Nil}
        BY <2>2 DEF OpensAreThere, Opens, AnswersInv, CallsOK, Answers!Call
      <3>2. \A r \in Answers!Revs \cup {Nil} : IsThere(r) => IsThere(r)'
        BY StaysThere
      <3> QED
        BY <2>2, <3>1, <3>2 DEF IsThere
    <2>3. CASE /\ answersCalls'[s].rev = Answers!Newest(answersCalls[s].app)
               /\ answersCalls[s] \in Answers!Call /\ UNCHANGED answersLatest
      <3>1. answersLatest[answersCalls[s].app] \in Nat
        BY <1>1, <2>3 DEF Answers!Call, AnswersInv, CallsOK
      <3> QED
        BY <2>3, <3>1 DEF Answers!Newest, IsThere
    <2> QED
      BY <1>2, <2>1, <2>2, <2>3, AskedOpens
  <1>3. ASSUME NEW t \in FewTabs
        PROVE  IsThere(answersPanel[t])'
    <2>1. \/ answersPanel'[t] = answersPanel[t] \/ answersPanel'[t] = Nil
          \/ \E s \in Places : /\ Opens(answersCalls[s])
                               /\ answersPanel'[t] = answersCalls[s].rev
      <3>1. ASSUME NEW s \in Places, Answers!OpenLands(s) PROVE <2>1
        BY <3>1 DEF Answers!OpenLands, Answers!Landing, Opens, AnswersInv, CallsOK
      <3>2. ASSUME NEW u \in FewTabs, Answers!Close(u) PROVE <2>1
        BY <3>2 DEF Answers!Close, AnswersInv, CallsOK
      <3> QED
        BY <3>1, <3>2 DEF Answers!Next, Answers!Scan, Answers!Scanned, Answers!OpenReview,
           Answers!Edit, Answers!Suggest, Answers!Approve, Answers!ServeOpen,
           Answers!ServeSuggest, Answers!ServeApprove, Answers!SuggestionsLand,
           Answers!ApprovalLands, Answers!Fails, Answers!server, Answers!screen
    <2>2. \A r \in Answers!Revs \cup {Nil} : IsThere(r) => IsThere(r)'
      BY StaysThere
    <2>3. answersPanel[t] \in Answers!Revs \cup {Nil} /\ IsThere(answersPanel[t])
      BY DEF AnswersInv, CallsOK, PanelsAreThere
    <2>4. ASSUME NEW s \in Places, Opens(answersCalls[s])
          PROVE  /\ IsThere(answersCalls[s].rev)
                 /\ answersCalls[s].rev \in Answers!Revs \cup {Nil}
      BY <2>4 DEF OpensAreThere, Opens, AnswersInv, CallsOK, Answers!Call
    <2> QED
      BY <2>1, <2>2, <2>3, <2>4 DEF IsThere
  <1> QED
    BY <1>2, <1>3 DEF OpensAreThere, PanelsAreThere
-----------------------------------------------------------------------------
(* The types of the profile form *)

\* What ProfileInv does not say: a form that holds a row has a value for every field.
ProfileAlso ==
    /\ \A t \in FewTabs : profileLoaded[t] => profileDraft[t] \in Profile!Rows
    /\ profileSaves \in 0..MaxSaves /\ profileRefused \in BOOLEAN
    /\ profileReviewed \subseteq Profile!Fields /\ profileWiped \subseteq Profile!Fields

LEMMA ProfileTyped == ASSUME ProfileInv, ProfileAlso PROVE Profile!TypeOK
  BY DEF ProfileInv, ProfileTypes, ProfileAlso, Profile!TypeOK

LEMMA ProfileTypesStart == ASSUME PartsAssumption, Profile!Init PROVE ProfileAlso
  <1>1. 0 \in 0..MaxSaves
    BY DEF PartsAssumption, Profile!FormAssumption
  <1>2. \A t \in FewTabs : ~profileLoaded[t]
    BY DEF Profile!Init
  <1> QED
    BY <1>1, <1>2 DEF Profile!Init, ProfileAlso

LEMMA ProfileTypesStep ==
  ASSUME PartsAssumption, ProfileInv, ProfileAlso, Profile!Next PROVE ProfileAlso'
  <1>1. MaxSaves \in Nat
    BY DEF PartsAssumption, Profile!FormAssumption
  <1>2. ASSUME NEW t \in FewTabs, Profile!ReadProfile(t) \/ Profile!Parsed(t) PROVE ProfileAlso'
    BY <1>2 DEF Profile!ReadProfile, Profile!Parsed, ProfileAlso
  <1>3. ASSUME NEW t \in FewTabs, NEW r \in Profile!Rows, Profile!TakeRow(t, r),
               UNCHANGED <<profileSaves, profileRefused, profileReviewed, profileWiped>>
        PROVE  ProfileAlso'
    BY <1>3 DEF Profile!TakeRow, ProfileAlso, ProfileInv, ProfileTypes
  <1>4. ASSUME NEW t \in FewTabs, Profile!RefreshLands(t) PROVE ProfileAlso'
    <2>1. profileReads[t].row \in Profile!Rows
      BY <1>4 DEF Profile!RefreshLands, ProfileInv, ProfileTypes
    <2> QED
      BY <1>3, <1>4, <2>1 DEF Profile!RefreshLands
  <1>5. ASSUME NEW t \in FewTabs, Profile!SaveLands(t) PROVE ProfileAlso'
    <2>1. profileCall[t].row \in Profile!Rows
      BY <1>5 DEF Profile!SaveLands, ProfileInv, ProfileTypes, Profile!None
    <2> QED
      BY <1>3, <1>5, <2>1 DEF Profile!SaveLands
  <1>6. ASSUME NEW t \in FewTabs, NEW d, profileDraft' = [profileDraft EXCEPT ![t] = d],
               profileDraft[t] \in Profile!Rows => d \in Profile!Rows,
               UNCHANGED <<profileLoaded, profileSaves, profileRefused, profileReviewed,
                           profileWiped>>
        PROVE  ProfileAlso'
    BY <1>6 DEF ProfileAlso, ProfileInv, ProfileTypes
  <1>7. ASSUME NEW t \in FewTabs, NEW f \in Profile!Fields, Profile!Update(t, f)
        PROVE  ProfileAlso'
    <2>1. PICK v \in {"typed", "zero"} : profileDraft' = [profileDraft EXCEPT ![t][f] = v]
      BY <1>7 DEF Profile!Update
    <2>2. profileDraft' = [profileDraft EXCEPT ![t] = [profileDraft[t] EXCEPT ![f] = v]]
      BY <2>1
    <2>3. profileDraft[t] \in Profile!Rows =>
              [profileDraft[t] EXCEPT ![f] = v] \in Profile!Rows
      BY DEF Profile!Rows, Profile!Values
    <2> QED
      BY <1>6, <1>7, <2>2, <2>3 DEF Profile!Update
  <1>8. ASSUME NEW t \in FewTabs, Profile!ApplySuggestions(t) PROVE ProfileAlso'
    <2> DEFINE d == [f \in Profile!Fields |-> IF f \in profileSuggested[t] \cap Profile!Blank(t)
                                              THEN "resume" ELSE profileDraft[t][f]]
    <2>1. profileDraft[t] \in Profile!Rows => d \in Profile!Rows
      BY DEF Profile!Rows, Profile!Values
    <2>2. profileDraft' = [profileDraft EXCEPT ![t] = d]
      BY <1>8 DEF Profile!ApplySuggestions
    <2> HIDE DEF d
    <2> QED
      BY <1>6, <1>8, <2>1, <2>2 DEF Profile!ApplySuggestions
  <1>9. ASSUME NEW t \in FewTabs, Profile!SaveProfile(t) PROVE ProfileAlso'
    BY <1>1, <1>9 DEF Profile!SaveProfile, ProfileAlso
  <1>10. ASSUME NEW t \in FewTabs, Profile!PatchProfile(t) PROVE ProfileAlso'
    BY <1>10 DEF Profile!PatchProfile, ProfileAlso
  <1> QED
    BY <1>2, <1>4, <1>5, <1>7, <1>8, <1>9, <1>10 DEF Profile!Next

-----------------------------------------------------------------------------
(* The types of the savers and the forms *)

\* What SyncInv does not say.
SyncAlso == syncOp \subseteq Apps /\ syncMuddled \in BOOLEAN

LEMMA SyncTyped == ASSUME SyncInv, UnreadIsOld, SyncAlso PROVE Sync!TypeOK
  BY DEF SyncInv, SyncTypes, UnreadIsOld, SyncAlso, Sync!TypeOK

LEMMA SyncTypesStart == ASSUME Sync!Init PROVE SyncAlso
  BY DEF Sync!Init, SyncAlso

LEMMA SyncTypesStep == ASSUME SyncAlso, Sync!Next PROVE SyncAlso'
  <1>1. ASSUME NEW s \in Savers, NEW f \in Facts, Sync!PatchProfile(s, f) PROVE SyncAlso'
    BY <1>1 DEF Sync!PatchProfile, SyncAlso
  <1>2. ASSUME NEW s \in Savers,
               \/ Sync!WriteRow(s) \/ Sync!ReadForms(s) \/ Sync!SyncFails(s) \/ Sync!Saved(s)
               \/ \E a \in Apps : Sync!SyncOne(s, a)
        PROVE  SyncAlso'
    BY <1>2 DEF Sync!WriteRow, Sync!ReadForms, Sync!SyncFails, Sync!Saved, Sync!SyncOne,
                Sync!ghost, SyncAlso
  <1>3. ASSUME NEW a \in Apps,
               \/ Sync!OpenForm(a) \/ Sync!Suggest(a) \/ Sync!Approve(a) \/ Sync!EnqueueSubmit(a)
               \/ Sync!SubmitEnds(a) \/ Sync!EnqueueScan(a) \/ Sync!ScanEnds(a)
        PROVE  SyncAlso'
    BY <1>3 DEF Sync!OpenForm, Sync!Suggest, Sync!Approve, Sync!EnqueueSubmit, Sync!SubmitEnds,
                Sync!EnqueueScan, Sync!ScanEnds, Sync!ghost, SyncAlso
  <1>4. ASSUME Sync!ScanElsewhere PROVE SyncAlso'
    BY <1>4 DEF Sync!ScanElsewhere, Sync!ghost, SyncAlso
  <1> QED
    BY <1>1, <1>2, <1>3, <1>4 DEF Sync!Next

-----------------------------------------------------------------------------
(* The types of the resumes *)

\* What UploadInv does not say: a request asks for a row that was made.
UploadAlso == \A t \in FewTabs : resumeCall[t].id <= UploadIds

LEMMA UploadTyped == ASSUME PartsAssumption, UploadInv, UploadAlso PROVE Upload!TypeOK
  <1>1. UploadIds \in Nat
    BY NilIsNone
  <1>2. ASSUME NEW t \in FewTabs PROVE resumeCall[t] \in Upload!Call
    <2>1. resumeCall[t] \in ResumeCall /\ resumeCall[t].id <= UploadIds
      BY DEF UploadInv, UploadTypes, UploadAlso
    <2>2. resumeCall[t].id \in 0..UploadIds /\ resumeCall[t].step \in 1..3
      BY <1>1, <2>1 DEF ResumeCall
    <2> QED
      BY <2>1, <2>2 DEF ResumeCall, Upload!Call
  <1>3. resumeCall \in [FewTabs -> Upload!Call]
    BY <1>2 DEF UploadInv, UploadTypes
  <1>4. \A s \in UploadSlots : resumeRow[s] = Nil \/ resumeRow[s] \in Upload!Row
    BY DEF UploadInv, UploadTypes
  <1>5. \A r, s \in UploadSlots :
            r # s /\ resumeRow[r] # Nil /\ resumeRow[s] # Nil => resumeRow[r].id # resumeRow[s].id
    BY DEF UploadInv, IdsAreOwn, HasRow
  <1> QED
    BY <1>3, <1>4, <1>5 DEF UploadInv, UploadTypes, Upload!TypeOK

LEMMA UploadTypesStart == ASSUME PartsAssumption, Upload!Init PROVE UploadAlso
  <1>1. UploadIds \in Nat
    BY NilIsNone
  <1>2. \A t \in FewTabs : resumeCall[t].id = 0
    BY DEF Upload!Init
  <1> QED
    BY <1>1, <1>2 DEF UploadAlso

LEMMA UploadTypesStep ==
  ASSUME PartsAssumption, UploadInv, UploadAlso, Upload!Next PROVE UploadAlso'
  <1>1. UploadIds \in Nat
    BY NilIsNone
  <1>2. PICK t \in FewTabs :
          \/ \E f \in FewFiles : Upload!ChooseSlot(t, f)
          \/ Upload!Upload(t) \/ Upload!Register(t) \/ Upload!Remove(t)
          \/ \E s \in UploadSlots : Upload!Asks(t, "parse", s) \/ Upload!Asks(t, "delete", s)
          \/ Upload!MarkParsing(t) \/ Upload!Download(t) \/ Upload!Extract(t)
          \/ Upload!DeleteObject(t) \/ Upload!DeleteRow(t) \/ Upload!Dies(t)
    BY DEF Upload!Next
  <1>3. ASSUME NEW s \in UploadSlots, NEW kind, Upload!Asks(t, kind, s) PROVE UploadAlso'
    <2>1. resumeRow[s] \in Upload!Row
      BY <1>3 DEF Upload!Asks, UploadInv, UploadTypes
    <2>2. resumeRow[s].id <= UploadIds
      BY <1>1, <2>1 DEF Upload!Row
    <2>3. \A u \in FewTabs : resumeCall'[u].id = IF u = t THEN resumeRow[s].id ELSE resumeCall[u].id
      BY <1>3 DEF Upload!Asks, UploadInv, UploadTypes
    <2> QED
      BY <2>2, <2>3 DEF UploadAlso
  <1>4. ASSUME \A u \in FewTabs : resumeCall'[u].id = resumeCall[u].id PROVE UploadAlso'
    BY <1>4 DEF UploadAlso
  <1>5. CASE UNCHANGED resumeCall
    BY <1>4, <1>5
  <1>6. ASSUME NEW c \in ResumeCall, c.id = resumeCall[t].id,
               resumeCall' = [resumeCall EXCEPT ![t] = c]
        PROVE  UploadAlso'
    BY <1>4, <1>6 DEF UploadInv, UploadTypes
  <1>7. resumeCall[t] \in ResumeCall
    BY DEF UploadInv, UploadTypes
  <1>8. CASE Upload!Ended(t)
    <2>1. [resumeCall[t] EXCEPT !.kind = "none", !.step = 1, !.data = Nil] \in ResumeCall
      BY <1>7 DEF ResumeCall
    <2>2. resumeCall' = [resumeCall EXCEPT
               ![t] = [resumeCall[t] EXCEPT !.kind = "none", !.step = 1, !.data = Nil]]
      BY <1>7, <1>8 DEF Upload!Ended, ResumeCall, UploadInv, UploadTypes
    <2> QED
      BY <1>6, <1>7, <2>1, <2>2 DEF ResumeCall
  <1>9. ASSUME NEW x \in {2}, resumeCall' = [resumeCall EXCEPT ![t].step = x]
        PROVE  UploadAlso'
    BY <1>4, <1>7, <1>9 DEF ResumeCall, UploadInv, UploadTypes
  <1>10. CASE Upload!Download(t)
    <2>1. CASE Upload!Ended(t)
      BY <1>8, <2>1
    <2>2. CASE resumeCall' = [resumeCall EXCEPT ![t].step = 3,
                                                ![t].data = resumeObject[resumeCall[t].slot]]
      <3>1. \A u \in FewTabs : u # t => resumeCall'[u] = resumeCall[u]
        BY <2>2 DEF UploadInv, UploadTypes
      <3>2. resumeCall'[t].id = resumeCall[t].id
        BY <1>7, <2>2 DEF ResumeCall, UploadInv, UploadTypes
      <3> QED
        BY <1>4, <3>1, <3>2
    <2> QED
      BY <1>10, <2>1, <2>2 DEF Upload!Download
  <1> QED
    BY <1>2, <1>3, <1>5, <1>8, <1>9, <1>10
       DEF Upload!ChooseSlot, Upload!Upload, Upload!Register, Upload!Remove, Upload!MarkParsing,
           Upload!Extract, Upload!DeleteObject, Upload!DeleteRow, Upload!Dies

\* The same of the bucket with other constants, in full.
SlotIdsAreOwn ==
    /\ \A s \in BucketSlots : resumeRow[s] # Nil => resumeRow[s].id <= resumeIds
    /\ \A r, s \in BucketSlots :
          resumeRow[r] # Nil /\ resumeRow[s] # Nil /\ resumeRow[r].id = resumeRow[s].id => r = s

SlotTypes ==
    /\ resumeObject \in [BucketSlots -> Files \cup {Nil}]
    /\ resumeRow \in [BucketSlots -> Slot!Row \cup {Nil}]
    /\ resumeIds \in 0..SlotIds
    /\ resumePage \in [Tabs -> Slot!Page]
    /\ resumeCall \in [Tabs -> Slot!Call]
    /\ resumeLost \in BOOLEAN
    /\ SlotIdsAreOwn

LEMMA SlotTyped == ASSUME SlotTypes PROVE Slot!TypeOK
  <1>1. \A s \in BucketSlots : resumeRow[s] = Nil \/ resumeRow[s] \in Slot!Row
    BY DEF SlotTypes
  <1>2. \A r, s \in BucketSlots :
            r # s /\ resumeRow[r] # Nil /\ resumeRow[s] # Nil => resumeRow[r].id # resumeRow[s].id
    BY DEF SlotTypes, SlotIdsAreOwn
  <1> QED
    BY <1>1, <1>2 DEF SlotTypes, Slot!TypeOK

LEMMA SlotTypesStart == ASSUME PartsAssumption, Slot!Init PROVE SlotTypes
  <1>1. PICK s \in BucketSlots, f \in Files :
          /\ resumePage = [t \in Tabs |-> [at |-> "idle", slot |-> s, file |-> f]]
          /\ resumeCall = [t \in Tabs |-> [kind |-> "none", step |-> 1, id |-> 0, slot |-> s,
                                           sha |-> f, data |-> Nil]]
    BY DEF Slot!Init
  <1>2. 0 \in 0..SlotIds /\ 1 \in 1..3
    BY DEF PartsAssumption, Slot!ResumeAssumption
  <1>3. /\ [at |-> "idle", slot |-> s, file |-> f] \in Slot!Page
        /\ [kind |-> "none", step |-> 1, id |-> 0, slot |-> s, sha |-> f, data |-> Nil] \in Slot!Call
    BY <1>2 DEF Slot!Page, Slot!Call
  <1>4. SlotIdsAreOwn
    BY DEF Slot!Init, SlotIdsAreOwn
  <1> QED
    BY <1>1, <1>2, <1>3, <1>4 DEF Slot!Init, SlotTypes

\* Steps that make no row: a row goes, or stays a row with its id.
LEMMA SlotRowsStay ==
  ASSUME SlotTypes, UNCHANGED resumeIds,
         \E rows \in [BucketSlots -> Slot!Row \cup {Nil}] :
            /\ resumeRow' = rows
            /\ \A s \in BucketSlots :
                  rows[s] # Nil => resumeRow[s] # Nil /\ rows[s].id = resumeRow[s].id
  PROVE  /\ resumeRow' \in [BucketSlots -> Slot!Row \cup {Nil}]
         /\ SlotIdsAreOwn'
  BY DEF SlotTypes, SlotIdsAreOwn

LEMMA SlotTypesStep == ASSUME PartsAssumption, SlotTypes, Slot!Next PROVE SlotTypes'
  <1>1. SlotIds \in Nat /\ Nil \notin Files /\ Nil \notin Slot!Row
    BY DEF PartsAssumption, Slot!ResumeAssumption
  <1>2. Slot!Call = [kind : {"none", "parse", "delete"}, step : {1, 2, 3}, id : 0..SlotIds,
                     slot : BucketSlots, sha : Files, data : Files \cup {Nil}]
    <2>1. 1..3 = {1, 2, 3}
      OBVIOUS
    <2> QED
      BY <2>1 DEF Slot!Call
  <1>3. ASSUME NEW c, c \in Slot!Call
        PROVE  /\ c.kind \in {"none", "parse", "delete"} /\ c.id \in 0..SlotIds
               /\ c.slot \in BucketSlots /\ c.sha \in Files /\ c.data \in Files \cup {Nil}
               /\ \A k \in {"none", "parse", "delete"}, n \in 1..3, d \in Files \cup {Nil} :
                     /\ [c EXCEPT !.kind = k, !.step = n, !.data = d] \in Slot!Call
                     /\ [c EXCEPT !.step = n, !.data = d] \in Slot!Call
                     /\ [c EXCEPT !.step = n] \in Slot!Call
    BY <1>3 DEF Slot!Call
  <1>4. \A t \in Tabs : resumeCall[t] \in Slot!Call /\ resumePage[t] \in Slot!Page
    BY DEF SlotTypes
  <1>5. ASSUME NEW p, p \in Slot!Page
        PROVE  /\ p.slot \in BucketSlots /\ p.file \in Files
               /\ \A at \in {"idle", "upload", "register", "remove"} :
                     [p EXCEPT !.at = at] \in Slot!Page
    BY <1>5 DEF Slot!Page
  <1>6. ASSUME NEW t \in Tabs, Slot!Ended(t)
        PROVE  resumeCall' \in [Tabs -> Slot!Call]
    <2>1. [resumeCall[t] EXCEPT !.kind = "none", !.step = 1, !.data = Nil] \in Slot!Call
      BY <1>2, <1>4
    <2>2. resumeCall' = [resumeCall EXCEPT
               ![t] = [resumeCall[t] EXCEPT !.kind = "none", !.step = 1, !.data = Nil]]
      BY <1>6, <1>4 DEF Slot!Ended, Slot!Call, SlotTypes
    <2> QED
      BY <2>1, <2>2 DEF SlotTypes
  <1>7. ASSUME UNCHANGED <<resumeRow, resumeIds>>
        PROVE  /\ resumeRow' \in [BucketSlots -> Slot!Row \cup {Nil}]
               /\ SlotIdsAreOwn' /\ resumeIds' \in 0..SlotIds
    BY <1>7 DEF SlotTypes, SlotIdsAreOwn
  <1>8. ASSUME NEW t \in Tabs, NEW at \in {"idle", "upload", "register", "remove"},
               resumePage' = [resumePage EXCEPT ![t].at = at]
        PROVE  resumePage' \in [Tabs -> Slot!Page]
    BY <1>4, <1>5, <1>8 DEF SlotTypes
  <1>9. ASSUME NEW t \in Tabs, NEW f \in Files, Slot!ChooseSlot(t, f) PROVE SlotTypes'
    <2>1. PICK s \in BucketSlots :
            resumePage' = [resumePage EXCEPT ![t] = [at |-> "upload", slot |-> s, file |-> f]]
      BY <1>9 DEF Slot!ChooseSlot
    <2>2. resumePage' \in [Tabs -> Slot!Page]
      BY <2>1 DEF SlotTypes, Slot!Page
    <2>3. resumeLost' \in BOOLEAN
      BY <1>9 DEF Slot!ChooseSlot, SlotTypes
    <2> QED
      BY <1>7, <1>9, <2>2, <2>3 DEF Slot!ChooseSlot, SlotTypes
  <1>10. ASSUME NEW t \in Tabs, Slot!Upload(t) PROVE SlotTypes'
    <2>1. resumePage' \in [Tabs -> Slot!Page]
      BY <1>8, <1>10 DEF Slot!Upload
    <2>2. /\ resumeObject' \in [BucketSlots -> Files \cup {Nil}]
          /\ resumeLost' \in BOOLEAN
      <3>1. resumePage[t].file \in Files
        BY <1>4, <1>5
      <3> QED
        BY <1>10, <3>1 DEF Slot!Upload, SlotTypes
    <2> QED
      BY <1>7, <1>10, <2>1, <2>2 DEF Slot!Upload, SlotTypes
  <1>11. ASSUME NEW t \in Tabs, Slot!Remove(t) PROVE SlotTypes'
    <2>1. resumePage' \in [Tabs -> Slot!Page]
      BY <1>8, <1>11 DEF Slot!Remove
    <2>2. /\ resumeObject' \in [BucketSlots -> Files \cup {Nil}]
          /\ resumeLost' \in BOOLEAN
      BY <1>11 DEF Slot!Remove, SlotTypes
    <2> QED
      BY <1>7, <1>11, <2>1, <2>2 DEF Slot!Remove, SlotTypes
  <1>12. ASSUME NEW s \in BucketSlots, NEW f \in Files, Slot!Registers(s, f)
         PROVE  /\ resumeRow' \in [BucketSlots -> Slot!Row \cup {Nil}]
                /\ SlotIdsAreOwn' /\ resumeIds' \in 0..SlotIds
    <2> DEFINE new == [id |-> Slot!RowId(s), sha |-> f, parse |-> "uploaded", text |-> Nil,
                       active |-> TRUE]
    <2>1. /\ resumeIds \in 0..SlotIds
          /\ resumeRow[s] # Nil => resumeRow[s] \in Slot!Row
      BY DEF SlotTypes
    <2>2. /\ resumeIds' \in 0..SlotIds /\ resumeIds' >= resumeIds
          /\ Slot!RowId(s) \in 1..SlotIds /\ Slot!RowId(s) <= resumeIds'
          /\ resumeRow[s] # Nil => Slot!RowId(s) = resumeRow[s].id
          /\ resumeRow[s] = Nil => Slot!RowId(s) > resumeIds
      <3>1. /\ resumeRow[s] = Nil => resumeIds < SlotIds
            /\ resumeIds' = IF resumeRow[s] = Nil THEN resumeIds + 1 ELSE resumeIds
        BY <1>12 DEF Slot!Registers
      <3>2. CASE resumeRow[s] = Nil
        BY <1>1, <2>1, <3>1, <3>2 DEF Slot!RowId
      <3>3. CASE resumeRow[s] # Nil
        <4>1. resumeRow[s].id \in 1..SlotIds /\ resumeRow[s].id <= resumeIds
          BY <2>1, <3>3 DEF Slot!Row, SlotTypes, SlotIdsAreOwn
        <4> QED
          BY <1>1, <2>1, <3>1, <3>3, <4>1 DEF Slot!RowId
      <3> QED
        BY <3>2, <3>3
    <2>3. new \in Slot!Row /\ new # Nil
      <3>1. new \in Slot!Row
        BY <2>2 DEF Slot!Row
      <3> QED
        BY <1>1, <3>1
    <2>4. /\ resumeRow'[s] = new /\ DOMAIN resumeRow' = BucketSlots
          /\ \A z \in BucketSlots : z # s => resumeRow'[z] =
                IF resumeRow[z] # Nil THEN [resumeRow[z] EXCEPT !.active = FALSE] ELSE Nil
          /\ resumeRow' = [z \in BucketSlots |-> resumeRow'[z]]
      BY <1>12 DEF Slot!Registers, Slot!OthersInactive
    <2>5. ASSUME NEW z \in BucketSlots, z # s, resumeRow[z] # Nil
          PROVE  /\ resumeRow'[z] \in Slot!Row /\ resumeRow'[z].id = resumeRow[z].id
                 /\ resumeRow[z].id <= resumeIds /\ resumeRow[z].id \in 1..SlotIds
      <3>1. resumeRow[z] \in Slot!Row /\ resumeRow[z].id <= resumeIds
        BY <2>5 DEF SlotTypes, SlotIdsAreOwn
      <3>2. resumeRow'[z] = [resumeRow[z] EXCEPT !.active = FALSE]
        BY <2>4, <2>5
      <3> QED
        BY <3>1, <3>2 DEF Slot!Row
    <2>6. resumeRow'[s].id = Slot!RowId(s)
      BY <2>4
    <2> HIDE DEF new
    <2>7. resumeRow' \in [BucketSlots -> Slot!Row \cup {Nil}]
      BY <2>3, <2>4, <2>5
    <2>8. ASSUME NEW z \in BucketSlots, resumeRow'[z] # Nil
          PROVE  resumeRow'[z].id <= resumeIds'
      <3>1. CASE z = s
        BY <2>2, <2>6, <3>1
      <3>2. CASE z # s
        <4>1. resumeRow[z] # Nil
          BY <2>4, <2>8, <3>2
        <4> QED
          BY <1>1, <2>1, <2>2, <2>5, <3>2, <4>1
      <3> QED
        BY <3>1, <3>2
    <2>9. ASSUME NEW r \in BucketSlots, NEW z \in BucketSlots, r # z,
                 resumeRow'[r] # Nil, resumeRow'[z] # Nil, resumeRow'[r].id = resumeRow'[z].id
          PROVE  FALSE
      <3>1. ASSUME NEW y \in BucketSlots, y # s, resumeRow'[y] # Nil
            PROVE  resumeRow'[y].id # Slot!RowId(s)
        <4>1. resumeRow[y] # Nil /\ resumeRow'[y].id = resumeRow[y].id
              /\ resumeRow[y].id <= resumeIds /\ resumeRow[y].id \in 1..SlotIds
          BY <2>4, <2>5, <3>1
        <4> QED
          BY <1>1, <2>1, <2>2, <3>1, <4>1 DEF SlotTypes, SlotIdsAreOwn
      <3>2. r # s /\ z # s
        BY <2>6, <2>9, <3>1
      <3>3. /\ resumeRow[r] # Nil /\ resumeRow'[r].id = resumeRow[r].id
            /\ resumeRow[z] # Nil /\ resumeRow'[z].id = resumeRow[z].id
        BY <2>4, <2>5, <2>9, <3>2
      <3> QED
        BY <2>9, <3>3 DEF SlotTypes, SlotIdsAreOwn
    <2> QED
      BY <2>2, <2>7, <2>8, <2>9 DEF SlotIdsAreOwn
  <1>13. ASSUME NEW t \in Tabs, Slot!Register(t) PROVE SlotTypes'
    <2>1. resumePage' \in [Tabs -> Slot!Page]
      BY <1>8, <1>13 DEF Slot!Register, Slot!AfterFailure
    <2>2. /\ resumeRow' \in [BucketSlots -> Slot!Row \cup {Nil}]
          /\ SlotIdsAreOwn' /\ resumeIds' \in 0..SlotIds
      BY <1>4, <1>5, <1>7, <1>12, <1>13 DEF Slot!Register
    <2>3. resumeLost' \in BOOLEAN /\ UNCHANGED <<resumeObject, resumeCall>>
      BY <1>13 DEF Slot!Register, SlotTypes
    <2> QED
      BY <2>1, <2>2, <2>3 DEF SlotTypes
  <1>14. ASSUME NEW t \in Tabs, NEW kind \in {"parse", "delete"}, NEW s \in BucketSlots,
                Slot!Asks(t, kind, s)
         PROVE  SlotTypes'
    <2>1. resumeRow[s] \in Slot!Row
      BY <1>14 DEF Slot!Asks, SlotTypes
    <2>2. [kind |-> kind, step |-> 1, id |-> resumeRow[s].id, slot |-> s,
           sha |-> resumeRow[s].sha, data |-> Nil] \in Slot!Call
      BY <1>1, <2>1 DEF Slot!Row, Slot!Call
    <2>3. resumeCall' \in [Tabs -> Slot!Call]
      BY <1>14, <2>2 DEF Slot!Asks, SlotTypes
    <2>4. resumeLost' \in BOOLEAN
      BY <1>14 DEF Slot!Asks, SlotTypes
    <2> QED
      BY <1>7, <1>14, <2>3, <2>4 DEF Slot!Asks, SlotTypes
  <1>15. ASSUME NEW t \in Tabs, NEW n \in 1..3, resumeCall' = [resumeCall EXCEPT ![t].step = n]
         PROVE  resumeCall' \in [Tabs -> Slot!Call]
    BY <1>3, <1>4, <1>15 DEF SlotTypes
  <1>16. ASSUME NEW t \in Tabs, Slot!MarkParsing(t) PROVE SlotTypes'
    <2>1. resumeRow' = [s \in BucketSlots |-> IF s \in Slot!OfCall(t)
                            THEN [resumeRow[s] EXCEPT !.parse = "parsing"] ELSE resumeRow[s]]
      BY <1>16 DEF Slot!MarkParsing
    <2>2. \A s \in BucketSlots : s \in Slot!OfCall(t) =>
              /\ resumeRow[s] # Nil
              /\ [resumeRow[s] EXCEPT !.parse = "parsing"] \in Slot!Row
              /\ [resumeRow[s] EXCEPT !.parse = "parsing"].id = resumeRow[s].id
      BY DEF Slot!OfCall, Slot!Row, SlotTypes
    <2>3. /\ resumeRow' \in [BucketSlots -> Slot!Row \cup {Nil}]
          /\ SlotIdsAreOwn'
      BY <1>16, <2>1, <2>2, SlotRowsStay DEF SlotTypes, Slot!MarkParsing
    <2>4. resumeCall' \in [Tabs -> Slot!Call]
      BY <1>15, <1>16, 2 \in 1..3 DEF Slot!MarkParsing
    <2> QED
      BY <1>16, <2>3, <2>4 DEF Slot!MarkParsing, SlotTypes
  <1>17. ASSUME NEW t \in Tabs, Slot!Download(t) PROVE SlotTypes'
    <2>1. CASE Slot!Ended(t)
      BY <1>6, <1>7, <1>17, <2>1 DEF Slot!Download, SlotTypes
    <2>2. CASE resumeCall' = [resumeCall EXCEPT ![t].step = 3,
                                                ![t].data = resumeObject[resumeCall[t].slot]]
      <3> DEFINE d == resumeObject[resumeCall[t].slot]
      <3>1. d \in Files \cup {Nil}
        BY <1>3, <1>4 DEF SlotTypes
      <3>2. [resumeCall[t] EXCEPT !.step = 3, !.data = d] \in Slot!Call
        BY <1>2, <1>4, <3>1
      <3>3. resumeCall' = [resumeCall EXCEPT ![t] = [resumeCall[t] EXCEPT !.step = 3, !.data = d]]
        BY <1>4, <2>2 DEF SlotTypes, Slot!Call
      <3> HIDE DEF d
      <3>4. resumeCall' \in [Tabs -> Slot!Call]
        BY <3>2, <3>3 DEF SlotTypes
      <3> QED
        BY <1>7, <1>17, <3>4 DEF Slot!Download, SlotTypes
    <2> QED
      BY <1>17, <2>1, <2>2 DEF Slot!Download
  <1>18. ASSUME NEW t \in Tabs, Slot!Extract(t) PROVE SlotTypes'
    <2>1. ASSUME NEW new, resumeRow' = [s \in BucketSlots |->
                             IF s \in Slot!OfCall(t) THEN new[s] ELSE resumeRow[s]],
                 \A s \in Slot!OfCall(t) : new[s] \in Slot!Row /\ new[s].id = resumeRow[s].id
          PROVE  /\ resumeRow' \in [BucketSlots -> Slot!Row \cup {Nil}]
                 /\ SlotIdsAreOwn'
      <3>1. \A s \in Slot!OfCall(t) : resumeRow[s] # Nil
        BY DEF Slot!OfCall
      <3>2. UNCHANGED resumeIds
        BY <1>18 DEF Slot!Extract
      <3>3. resumeRow' \in [BucketSlots -> Slot!Row \cup {Nil}]
        BY <2>1 DEF SlotTypes
      <3>4. \A s \in BucketSlots :
                resumeRow'[s] # Nil => resumeRow[s] # Nil /\ resumeRow'[s].id = resumeRow[s].id
        BY <2>1, <3>1
      <3> QED
        BY <3>2, <3>3, <3>4, SlotRowsStay
    <2>2. /\ resumeRow' \in [BucketSlots -> Slot!Row \cup {Nil}]
          /\ SlotIdsAreOwn'
      <3> DEFINE x == resumeCall[t].sha
                 Parsed == [s \in BucketSlots |->
                              [resumeRow[s] EXCEPT !.parse = "parsed", !.text = x, !.sha = x]]
                 Failure == [s \in BucketSlots |-> [resumeRow[s] EXCEPT !.parse = "failed"]]
      <3>1. x \in Files
        BY <1>3, <1>4
      <3>2. \A s \in Slot!OfCall(t) :
                /\ Parsed[s] \in Slot!Row /\ Parsed[s].id = resumeRow[s].id
                /\ Failure[s] \in Slot!Row /\ Failure[s].id = resumeRow[s].id
        BY <3>1 DEF Slot!OfCall, Slot!Row, SlotTypes
      <3>3. \/ resumeRow' = [s \in BucketSlots |->
                               IF s \in Slot!OfCall(t) THEN Parsed[s] ELSE resumeRow[s]]
            \/ resumeRow' = [s \in BucketSlots |->
                               IF s \in Slot!OfCall(t) THEN Failure[s] ELSE resumeRow[s]]
        BY <1>18 DEF Slot!Extract, Slot!Checksum
      <3> HIDE DEF Parsed, Failure
      <3> QED
        BY <2>1, <3>2, <3>3
    <2> QED
      BY <1>6, <1>18, <2>2 DEF Slot!Extract, SlotTypes
  <1>19. ASSUME NEW t \in Tabs, Slot!DeleteObject(t) PROVE SlotTypes'
    <2>1. resumeObject' \in [BucketSlots -> Files \cup {Nil}]
      BY <1>19 DEF Slot!DeleteObject, SlotTypes
    <2>2. resumeCall' \in [Tabs -> Slot!Call]
      BY <1>15, <1>19, 2 \in 1..3 DEF Slot!DeleteObject
    <2> QED
      BY <1>7, <1>19, <2>1, <2>2 DEF Slot!DeleteObject, SlotTypes
  <1>20. ASSUME NEW t \in Tabs, Slot!DeleteRow(t) PROVE SlotTypes'
    <2>1. resumeRow' = [s \in BucketSlots |-> IF s \in Slot!OfCall(t) THEN Nil ELSE resumeRow[s]]
      BY <1>20 DEF Slot!DeleteRow
    <2>2. /\ resumeRow' \in [BucketSlots -> Slot!Row \cup {Nil}]
          /\ SlotIdsAreOwn'
      BY <1>20, <2>1, SlotRowsStay DEF SlotTypes, Slot!DeleteRow
    <2> QED
      BY <1>6, <1>20, <2>2 DEF Slot!DeleteRow, SlotTypes
  <1>21. ASSUME NEW t \in Tabs, Slot!Dies(t) PROVE SlotTypes'
    BY <1>6, <1>7, <1>21 DEF Slot!Dies, SlotTypes
  <1> QED
    BY <1>9, <1>10, <1>11, <1>13, <1>14, <1>16, <1>17, <1>18, <1>19, <1>20, <1>21 DEF Slot!Next

-----------------------------------------------------------------------------
(* The types of the workspace *)

\* What WorkInv does not say: an answer for a table is a version of it, and so is
\* what the page shows.
Version == 0..MaxVersion

WorkAlso ==
    /\ workRuns \in [Runs -> 0..MaxAttempts] /\ workRevoked \in [Runs -> BOOLEAN]
    /\ workShown \in [Tables -> Version \cup {NotRead}]
    /\ \A s \in Places : Refreshing(s) =>
          \A tb \in Tables : workRefreshes[s][tb] \in Version \cup {NotRead, Failed}
    /\ workError \subseteq Work!All
    /\ workFailures \in 0..MaxFailures
    /\ workView \in {"activity", "other"}

LEMMA WorkTyped == ASSUME PartsAssumption, WorkInv, WorkAlso PROVE Work!TypeOK
  <1>1. ASSUME NEW s \in Places, workRefreshes[s] # NoRefresh,
               NEW tb \in Work!All, workRefreshes[s][tb] \notin {NotRead, Failed}
        PROVE  workRefreshes[s][tb] \in IF tb = Work!Activity THEN [Runs -> Work!Statuses]
                                        ELSE 0..MaxVersion
    <2>1. CASE tb = "activity"
      BY <1>1, <2>1 DEF WorkInv, Refreshing, Work!Activity
    <2>2. CASE tb # "activity"
      BY <1>1, <2>2 DEF WorkAlso, Refreshing, Version, Work!All, Work!Activity
    <2> QED
      BY <2>1, <2>2
  <1> QED
    BY <1>1 DEF WorkInv, WorkTypes, WorkAlso, Version, Work!TypeOK, Work!Activity

LEMMA WorkNumbers ==
  ASSUME PartsAssumption
  PROVE  /\ {MaxAttempts, MaxVersion, MaxFailures} \subseteq Nat
         /\ "activity" \notin Tables /\ Broken \subseteq Tables
  BY DEF PartsAssumption, Work!WorkspaceAssumption, Work!Activity

LEMMA WorkTypesStart == ASSUME PartsAssumption, Work!Init PROVE WorkAlso
  <1>1. \A s \in Places : Refreshing(s) => workRefreshes[s] = Work!NothingRead
    BY DEF Work!Init, Refreshing
  <1>2. 0 \in 0..MaxAttempts /\ 0 \in 0..MaxFailures
    BY WorkNumbers
  <1>3. workRuns \in [Runs -> 0..MaxAttempts] /\ workRevoked \in [Runs -> BOOLEAN]
    BY <1>2 DEF Work!Init, Work!Queue!Init
  <1>4. workShown \in [Tables -> Version \cup {NotRead}]
    BY DEF Work!Init
  <1>5. \A s \in Places : Refreshing(s) => \A tb \in Tables : workRefreshes[s][tb] = NotRead
    BY <1>1 DEF Work!NothingRead, Work!All
  <1> QED
    BY <1>2, <1>3, <1>4, <1>5 DEF Work!Init, Work!Activity, WorkAlso

LEMMA WorkTypesStep == ASSUME PartsAssumption, WorkInv, WorkAlso, Work!Next PROVE WorkAlso'
  <1> USE DEF WorkAlso, Refreshing
  <1>1. CASE UNCHANGED Work!page /\ UNCHANGED <<workRefreshes, workFailures>>
             /\ workRuns' \in [Runs -> 0..MaxAttempts] /\ workRevoked' \in [Runs -> BOOLEAN]
    BY <1>1 DEF Work!page
  <1>2. ASSUME NEW tb \in Tables, Work!Change(tb) PROVE WorkAlso'
    BY <1>1, <1>2 DEF Work!Change
  <1>3. ASSUME NEW j \in Runs,
               \/ Work!Work \/ Work!CancelArrives(j)
               \/ Work!Cancel(j) \/ Work!CancelIsLost(j)
        PROVE  WorkAlso'
    BY <1>1, <1>3 DEF Work!Work, Work!CancelArrives, Work!QueueStep, Work!Cancel,
                      Work!CancelIsLost, Work!server
  <1>4. CASE Work!Work
    BY <1>1, <1>4 DEF Work!Work, Work!QueueStep
  <1>5. ASSUME NEW j \in Runs, Work!CancelReturns(j) PROVE WorkAlso'
    BY <1>5 DEF Work!CancelReturns, Work!server
  <1>6. ASSUME NEW v \in {"activity", "other"}, Work!SetView(v) PROVE WorkAlso'
    BY <1>6 DEF Work!SetView, Work!server
  <1>7. CASE Work!StartRefresh
    <2>1. PICK s \in Places : workRefreshes' = [workRefreshes EXCEPT ![s] = Work!NothingRead]
      BY <1>7 DEF Work!StartRefresh
    <2>2. \A tb \in Tables : Work!NothingRead[tb] = NotRead
      BY DEF Work!NothingRead, Work!All
    <2>3. ASSUME NEW r \in Places, workRefreshes'[r] # NoRefresh, NEW tb \in Tables
          PROVE  workRefreshes'[r][tb] \in Version \cup {NotRead, Failed}
      <3>1. workRefreshes'[r] = IF r = s THEN Work!NothingRead ELSE workRefreshes[r]
        BY <2>1 DEF WorkInv, WorkTypes
      <3> QED
        BY <2>2, <2>3, <3>1
    <2> QED
      BY <1>7, <2>3 DEF Work!StartRefresh, Work!server
  <1>8. ASSUME NEW s \in Places, NEW tb \in Work!All, Work!Read(s, tb) PROVE WorkAlso'
    <2>1. PICK a :
            /\ workRefreshes' = [workRefreshes EXCEPT ![s][tb] = a]
            /\ a = Failed \/ a = IF tb = "activity" THEN workPhase ELSE workData[tb]
      BY <1>8 DEF Work!Read, Work!Activity
    <2>2. workRefreshes[s] \in [Work!All -> Work!Answer] /\ Refreshing(s)
      BY <1>8 DEF Work!Read, WorkInv, WorkTypes
    <2>3. tb \in Tables => a \in Version \cup {Failed}
      BY <2>1, WorkNumbers DEF WorkInv, WorkTypes, Version
    <2>4. ASSUME NEW r \in Places, workRefreshes'[r] # NoRefresh, NEW u \in Tables
          PROVE  workRefreshes'[r][u] \in Version \cup {NotRead, Failed}
      <3>1. CASE r = s
        <4>1. workRefreshes'[r] = [workRefreshes[s] EXCEPT ![tb] = a]
          BY <2>1, <3>1 DEF WorkInv, WorkTypes
        <4>2. u \in Work!All
          BY DEF Work!All
        <4>3. workRefreshes'[r][u] = IF u = tb THEN a ELSE workRefreshes[s][u]
          BY <2>2, <4>1, <4>2
        <4> QED
          BY <2>2, <2>3, <4>3
      <3>2. CASE r # s
        <4>1. workRefreshes'[r] = workRefreshes[r]
          BY <2>1, <3>2 DEF WorkInv, WorkTypes
        <4> QED
          BY <2>4, <4>1
      <3> QED
        BY <3>1, <3>2
    <2>5. workFailures' \in 0..MaxFailures
      BY <1>8, WorkNumbers DEF Work!Read
    <2> QED
      BY <1>8, <2>4, <2>5 DEF Work!Read, Work!server, Work!page
  <1>9. ASSUME NEW s \in Places, Work!EndRefresh(s) PROVE WorkAlso'
    <2>1. ASSUME NEW tb \in Tables, tb \in Work!Fulfilled(s)
          PROVE  workRefreshes[s][tb] \in Version
      <3>1. workRefreshes[s][tb] \notin {NotRead, Failed}
        BY <1>9, <2>1 DEF Work!EndRefresh, Work!Fulfilled, Work!All
      <3> QED
        BY <1>9, <3>1 DEF Work!EndRefresh
    <2>2. workShown' \in [Tables -> Version \cup {NotRead}]
      <3>1. workShown' = [tb \in Tables |-> IF tb \in Work!Fulfilled(s) THEN workRefreshes[s][tb]
                                            ELSE workShown[tb]]
        BY <1>9 DEF Work!EndRefresh
      <3> QED
        BY <2>1, <3>1
    <2>3. workError' \subseteq Work!All
      BY <1>9 DEF Work!EndRefresh, Work!Warned
    <2>4. ASSUME NEW r \in Places, workRefreshes'[r] # NoRefresh
          PROVE  workRefreshes[r] # NoRefresh /\ workRefreshes'[r] = workRefreshes[r]
      BY <1>9, <2>4 DEF Work!EndRefresh, WorkInv, WorkTypes
    <2> QED
      BY <1>9, <2>2, <2>3, <2>4 DEF Work!EndRefresh, Work!server
  <1> QED
    BY <1>2, <1>3, <1>4, <1>5, <1>6, <1>7, <1>8, <1>9
    DEF Work!Next, Work!Timer, Work!Progress, Work!Activity

-----------------------------------------------------------------------------
(* The types of the sends from the review desk *)

\* A request carries what its kind and its stage ask for.
Whole == {r \in Sends!Request :
    /\ r.kind \in Sends!Saves \cup Sends!Approvals => r.text \in OtherTexts
    /\ r.kind \in Sends!Approvals => r.base \in Sends!Row
    /\ r.stage = "answered" => r.rows \in [Apps -> Sends!Row]}

StoredTypes ==
    /\ deskRow \in [Apps -> Sends!Row]
    /\ deskApprovals \in [Apps -> 0..MaxApprovals]
    /\ deskSends \in [Apps -> Nat]
    /\ deskRatified \in [Apps -> [base : Sends!Contents, screen : OtherTexts]]

TabTypes ==
    /\ deskList \in [FewTabs -> [Apps -> Sends!Row]]
    /\ deskDraft \in [FewTabs -> Sends!Draft \cup {NoDraft}]

RequestTypes == deskReq \in [Sends!Slots -> Whole \cup {Sends!Idle}]

SendsTypes == StoredTypes /\ TabTypes /\ RequestTypes

LEMMA SendsTyped == SendsTypes => Sends!TypeOK
  BY DEF SendsTypes, StoredTypes, TabTypes, RequestTypes, Whole, Sends!TypeOK

LEMMA SendsParts ==
  ASSUME PartsAssumption
  PROVE  /\ \A r \in Sends!Row : /\ r.revision \in 1..MaxRevision
                                 /\ r.content \in Sends!Contents
                                 /\ r.content.text \in OtherTexts
         /\ MaxRevision \in Nat \ {0} /\ MaxApprovals \in Nat
  <1>1. MaxRevision \in Nat \ {0} /\ MaxApprovals \in Nat
    BY DEF PartsAssumption, Sends!DeskAssumption
  <1> QED
    BY <1>1 DEF Sends!Row, Sends!Contents

LEMMA SendsTypesStart == ASSUME PartsAssumption, Sends!Init PROVE SendsTypes
  <1>1. deskRow \in [Apps -> Sends!Row]
    BY DEF Sends!Init
  <1>2. \A a \in Apps : deskRow[a].content \in Sends!Contents
                        /\ deskRow[a].content.text \in OtherTexts
    BY <1>1, SendsParts
  <1>3. 0 \in 0..MaxApprovals /\ 0 \in Nat
    BY SendsParts
  <1> QED
    BY <1>1, <1>2, <1>3 DEF Sends!Init, SendsTypes, StoredTypes, TabTypes, RequestTypes

\* Rows and requests that are new.
LEMMA RowSet ==
  ASSUME StoredTypes, NEW a \in Apps, NEW r \in Sends!Row, deskRow' = [deskRow EXCEPT ![a] = r]
  PROVE  deskRow' \in [Apps -> Sends!Row]
  BY DEF StoredTypes

LEMMA RequestSet ==
  ASSUME RequestTypes, NEW i \in Sends!Slots, NEW r \in Whole \cup {Sends!Idle},
         deskReq' = [deskReq EXCEPT ![i] = r]
  PROVE  RequestTypes'
  BY DEF RequestTypes, Whole, Sends!Request, Sends!Row, Sends!Contents, Sends!Statuses,
         Sends!Saves, Sends!Approvals, Sends!Slots, Sends!Idle

LEMMA RequestIsWhole ==
  ASSUME RequestTypes, NEW i \in Sends!Slots, deskReq[i] # Sends!Idle
  PROVE  deskReq[i] \in Whole /\ deskReq[i].app \in Apps
  BY DEF RequestTypes, Whole, Sends!Request

LEMMA SendsClicks ==
  ASSUME SendsTypes, NEW t \in FewTabs,
         NEW kind \in {"save", "save and approve", "approve", "send", "list", "draft"},
         Sends!Clicks(t, kind)
  PROVE  SendsTypes'
  <1> DEFINE r == [stage |-> "sent", tab |-> t, kind |-> kind, app |-> deskDraft[t].app,
                   base |-> IF kind \in Sends!Approvals THEN Sends!Copy(t) ELSE Nil,
                   text |-> IF kind \in Sends!Approvals \cup Sends!Saves
                            THEN deskDraft[t].text ELSE Nil,
                   rows |-> Nil]
  <1>1. /\ UNCHANGED Sends!server /\ UNCHANGED Sends!tabs /\ deskDraft[t] # NoDraft
        /\ \E i \in Sends!Slots : deskReq' = [deskReq EXCEPT ![i] = r]
    BY DEF Sends!Clicks
  <1>2. deskDraft[t].app \in Apps /\ deskDraft[t].text \in OtherTexts
    BY <1>1 DEF SendsTypes, TabTypes, Sends!Draft
  <1>3. Sends!Copy(t) \in Sends!Row
    BY <1>2 DEF Sends!Copy, SendsTypes, TabTypes
  <1>4. r \in Sends!Request
    BY <1>2, <1>3 DEF Sends!Request
  <1>5. r \in Whole
    BY <1>2, <1>3, <1>4 DEF Whole
  <1> HIDE DEF r
  <1>6. RequestTypes'
    BY <1>1, <1>5, RequestSet DEF SendsTypes
  <1> QED
    BY <1>1, <1>6 DEF SendsTypes, StoredTypes, TabTypes, Sends!server, Sends!tabs

LEMMA SendsTyping ==
  ASSUME PartsAssumption, SendsTypes, NEW t \in FewTabs,
         \/ \E a \in Apps : Sends!Select(t, a)
         \/ \E x \in OtherTexts : Sends!Type(t, x)
  PROVE  SendsTypes'
  <1>1. \E d \in Sends!Draft : deskDraft' = [deskDraft EXCEPT ![t] = d]
    <2>1. ASSUME NEW a \in Apps, Sends!Select(t, a)
          PROVE  \E d \in Sends!Draft : deskDraft' = [deskDraft EXCEPT ![t] = d]
      <3>1. [app |-> a, text |-> deskList[t][a].content.text] \in Sends!Draft
        BY SendsParts DEF SendsTypes, TabTypes, Sends!Draft
      <3> QED
        BY <2>1, <3>1 DEF Sends!Select
    <2>2. ASSUME NEW x \in OtherTexts, Sends!Type(t, x)
          PROVE  \E d \in Sends!Draft : deskDraft' = [deskDraft EXCEPT ![t] = d]
      <3>1. deskDraft[t] \in Sends!Draft /\ deskDraft' = [deskDraft EXCEPT ![t].text = x]
        BY <2>2 DEF Sends!Type, SendsTypes, TabTypes
      <3>2. [deskDraft[t] EXCEPT !.text = x] \in Sends!Draft
        BY <3>1 DEF Sends!Draft
      <3> QED
        BY <3>1, <3>2
    <2> QED
      BY <2>1, <2>2
  <1>2. deskDraft' \in [FewTabs -> Sends!Draft \cup {NoDraft}]
    BY <1>1 DEF SendsTypes, TabTypes
  <1>3. UNCHANGED <<Sends!server, deskList, deskReq>>
    BY DEF Sends!Select, Sends!Type
  <1> QED
    BY <1>2, <1>3 DEF SendsTypes, StoredTypes, TabTypes, RequestTypes, Sends!server,
                      Whole, Sends!Idle, Sends!Slots

\* A request whose tab has gone.
LEMMA SendsLosesRequest ==
  ASSUME SendsTypes, NEW i \in Sends!Slots, Sends!Fails(i) \/ Sends!NeverArrives(i)
  PROVE  SendsTypes'
  <1>1. UNCHANGED <<Sends!server, deskList, deskDraft>>
    BY DEF Sends!Fails, Sends!NeverArrives, Sends!tabs
  <1>2. \/ deskReq' = [deskReq EXCEPT ![i] = Sends!Idle]
        \/ deskReq' = [deskReq EXCEPT ![i] = [deskReq[i] EXCEPT !.tab = Gone]]
           /\ deskReq[i] # Sends!Idle
    BY DEF Sends!Fails, Sends!NeverArrives, SendsTypes, RequestTypes
  <1>3. RequestTypes'
    <2>1. CASE deskReq' = [deskReq EXCEPT ![i] = Sends!Idle]
      BY <2>1, RequestSet DEF SendsTypes
    <2>2. CASE deskReq' = [deskReq EXCEPT ![i] = [deskReq[i] EXCEPT !.tab = Gone]]
               /\ deskReq[i] # Sends!Idle
      <3> DEFINE r == [deskReq[i] EXCEPT !.tab = Gone]
      <3>1. deskReq[i] \in Whole
        BY <2>2, RequestIsWhole DEF SendsTypes
      <3>2. /\ r \in Sends!Request /\ r.kind = deskReq[i].kind /\ r.text = deskReq[i].text
            /\ r.base = deskReq[i].base /\ r.stage = deskReq[i].stage
            /\ r.rows = deskReq[i].rows
        BY <3>1 DEF Whole, Sends!Request
      <3> HIDE DEF r
      <3>3. r \in Whole
        BY <3>1, <3>2 DEF Whole
      <3>4. deskReq' = [deskReq EXCEPT ![i] = r]
        BY <2>2 DEF r
      <3> QED
        BY <3>3, <3>4, RequestSet DEF SendsTypes
    <2> QED
      BY <1>2, <2>1, <2>2
  <1> QED
    BY <1>1, <1>3 DEF SendsTypes, StoredTypes, TabTypes, Sends!server

LEMMA SendsReceives ==
  ASSUME PartsAssumption, TabTypes, NEW t, NEW copies, Sends!Receives(t, copies),
         t \in FewTabs => copies \in [Apps -> Sends!Row]
  PROVE  TabTypes'
  <1>1. /\ deskList' = [deskList EXCEPT ![t] = copies]
        /\ deskDraft' = [deskDraft EXCEPT ![t] = Sends!Redrawn(t, copies)]
    BY DEF Sends!Receives
  <1>2. ASSUME t \in FewTabs PROVE Sends!Redrawn(t, copies) \in Sends!Draft \cup {NoDraft}
    <2>1. CASE deskDraft[t] = NoDraft
      BY <2>1 DEF Sends!Redrawn
    <2>2. CASE deskDraft[t] # NoDraft
      <3>1. deskDraft[t] \in Sends!Draft /\ deskDraft[t].app \in Apps
        BY <1>2, <2>2 DEF TabTypes, Sends!Draft
      <3>2. copies[deskDraft[t].app].content.text \in OtherTexts
        BY <1>2, <3>1, SendsParts
      <3>3. [deskDraft[t] EXCEPT !.text = copies[deskDraft[t].app].content.text] \in Sends!Draft
        BY <3>1, <3>2 DEF Sends!Draft
      <3> QED
        BY <2>2, <3>3 DEF Sends!Redrawn
    <2> QED
      BY <2>1, <2>2
  <1>3. deskDraft' \in [FewTabs -> Sends!Draft \cup {NoDraft}]
    BY <1>1, <1>2 DEF TabTypes
  <1>4. deskList' \in [FewTabs -> [Apps -> Sends!Row]]
    BY <1>1 DEF TabTypes
  <1> QED
    BY <1>3, <1>4 DEF TabTypes, Sends!Draft, Sends!Row, Sends!Contents, Sends!Statuses

LEMMA SendsLands ==
  ASSUME PartsAssumption, SendsTypes, NEW i \in Sends!Slots, Sends!Land(i)
  PROVE  SendsTypes'
  <1> DEFINE r == deskReq[i]
             t == r.tab
  <1>1. UNCHANGED Sends!server /\ r.stage \in {"refused", "answered"}
    BY DEF Sends!Land
  <1>2. r \in Whole /\ r.app \in Apps
    <2>1. r # Sends!Idle
      BY <1>1 DEF Sends!Idle
    <2> QED
      BY <2>1, RequestIsWhole DEF SendsTypes
  <1>3. ASSUME r.stage = "answered"
        PROVE  /\ r.rows \in [Apps -> Sends!Row]
               /\ t \in FewTabs =>
                     [deskList[t] EXCEPT ![r.app] = r.rows[r.app]] \in [Apps -> Sends!Row]
    BY <1>2, <1>3 DEF Whole, SendsTypes, TabTypes
  <1>4. StoredTypes'
    BY <1>1 DEF SendsTypes, StoredTypes, Sends!server
  <1>5. TabTypes'
    <2>1. CASE UNCHANGED <<deskList, deskDraft>>
      BY <2>1 DEF SendsTypes, TabTypes
    <2>2. CASE r.stage = "answered"
               /\ Sends!Receives(t, [deskList[t] EXCEPT ![r.app] = r.rows[r.app]])
      BY <1>3, <2>2, SendsReceives DEF SendsTypes
    <2>3. CASE r.stage = "answered" /\ Sends!Receives(t, r.rows)
      BY <1>3, <2>3, SendsReceives DEF SendsTypes
    <2> QED
      BY <2>1, <2>2, <2>3 DEF Sends!Land, Sends!tabs
  <1>6. RequestTypes'
    <2>1. CASE deskReq' = [deskReq EXCEPT ![i] = Sends!Idle]
      BY <2>1, RequestSet DEF SendsTypes
    <2>2. CASE /\ r.stage = "answered" /\ r.kind = "save and approve"
               /\ deskReq' = [deskReq EXCEPT ![i].stage = "sent", ![i].kind = "approve",
                                             ![i].base = r.rows[r.app], ![i].rows = Nil]
      <3> DEFINE q == [r EXCEPT !.stage = "sent", !.kind = "approve", !.base = r.rows[r.app],
                                !.rows = Nil]
      <3>1. deskReq' = [deskReq EXCEPT ![i] = q]
        BY <2>2 DEF SendsTypes, RequestTypes
      <3>2. /\ q \in Sends!Request /\ q.stage = "sent" /\ q.kind = "approve"
            /\ q.base \in Sends!Row /\ q.text = r.text
        BY <1>2, <1>3, <2>2 DEF Whole, Sends!Request
      <3>3. r.text \in OtherTexts
        BY <1>2, <2>2 DEF Whole, Sends!Saves
      <3> HIDE DEF q
      <3>4. q \in Whole
        BY <3>2, <3>3 DEF Whole
      <3> QED
        BY <3>1, <3>4, RequestSet DEF SendsTypes
    <2>3. CASE deskReq' = [deskReq EXCEPT ![i].stage = "sent", ![i].kind = "list", ![i].rows = Nil]
      <3> DEFINE q == [r EXCEPT !.stage = "sent", !.kind = "list", !.rows = Nil]
      <3>1. deskReq' = [deskReq EXCEPT ![i] = q]
        BY <2>3 DEF SendsTypes, RequestTypes
      <3>2. q \in Sends!Request /\ q.stage = "sent" /\ q.kind = "list"
        BY <1>2 DEF Whole, Sends!Request
      <3> HIDE DEF q
      <3>3. q \in Whole
        BY <3>2 DEF Whole, Sends!Saves, Sends!Approvals
      <3> QED
        BY <3>1, <3>3, RequestSet DEF SendsTypes
    <2> QED
      BY <2>1, <2>2, <2>3 DEF Sends!Land
  <1> QED
    BY <1>4, <1>5, <1>6 DEF SendsTypes

\* An answer brings the rows as they are after the step.
LEMMA SendsAnswers ==
  ASSUME RequestTypes, deskRow' \in [Apps -> Sends!Row],
         NEW i \in Sends!Slots, deskReq[i] # Sends!Idle,
         NEW stage \in {"answered", "refused"}, Sends!Answers(i, stage)
  PROVE  RequestTypes'
  <1> DEFINE r == deskReq[i]
             q == IF r.tab = Gone THEN Sends!Idle
                  ELSE [r EXCEPT !.stage = stage,
                                 !.rows = IF stage = "answered" THEN deskRow' ELSE r.rows]
  <1>1. deskReq' = [deskReq EXCEPT ![i] = q]
    BY DEF Sends!Answers, RequestTypes
  <1>2. r \in Whole
    BY RequestIsWhole
  <1>3. q \in Whole \cup {Sends!Idle}
    <2>1. CASE r.tab = Gone
      BY <2>1
    <2>2. CASE r.tab # Gone
      <3>1. /\ q \in Sends!Request /\ q.stage = stage /\ q.kind = r.kind /\ q.text = r.text
            /\ q.base = r.base /\ q.rows = IF stage = "answered" THEN deskRow' ELSE r.rows
        BY <1>2, <2>2 DEF Whole, Sends!Request
      <3> HIDE DEF q
      <3> QED
        BY <1>2, <3>1 DEF Whole
    <2> QED
      BY <2>1, <2>2
  <1> HIDE DEF q
  <1> QED
    BY <1>1, <1>3, RequestSet

LEMMA NothingServed ==
  ASSUME SendsTypes, UNCHANGED Sends!tabs, UNCHANGED Sends!server,
         NEW i \in Sends!Slots, deskReq[i] # Sends!Idle,
         NEW stage \in {"answered", "refused"}, Sends!Answers(i, stage)
  PROVE  SendsTypes'
  <1>1. deskRow' \in [Apps -> Sends!Row]
    BY DEF SendsTypes, StoredTypes, Sends!server
  <1>2. RequestTypes'
    BY <1>1, SendsAnswers DEF SendsTypes
  <1> QED
    BY <1>2 DEF SendsTypes, StoredTypes, TabTypes, Sends!server, Sends!tabs

\* A save or a written draft.
LEMMA SendsRewrites ==
  ASSUME PartsAssumption, SendsTypes, UNCHANGED Sends!tabs,
         NEW i \in Sends!Slots, deskReq[i] # Sends!Idle, Sends!Answers(i, "answered"),
         NEW a \in Apps, NEW x \in OtherTexts, deskRow[a].revision < MaxRevision,
         deskRow' = [deskRow EXCEPT ![a] = Sends!Rewritten(deskRow[a], Sends!OnScreen(x))],
         UNCHANGED <<deskApprovals, deskSends, deskRatified>>
  PROVE  SendsTypes'
  <1> DEFINE new == Sends!Rewritten(deskRow[a], Sends!OnScreen(x))
  <1>1. deskRow[a].revision \in 1..MaxRevision
    BY SendsParts DEF SendsTypes, StoredTypes
  <1>2. deskRow[a].revision + 1 \in 1..MaxRevision /\ 0 \in 0..MaxRevision
    BY <1>1, SendsParts
  <1>3. Sends!OnScreen(x) \in Sends!Contents
    BY DEF Sends!OnScreen, Sends!Contents
  <1>4. new \in Sends!Row
    BY <1>2, <1>3 DEF Sends!Rewritten, Sends!Row, Sends!Statuses
  <1> HIDE DEF new
  <1>5. deskRow' = [deskRow EXCEPT ![a] = new]
    BY DEF new
  <1>6. deskRow' \in [Apps -> Sends!Row]
    BY <1>4, <1>5, RowSet DEF SendsTypes
  <1>7. RequestTypes'
    BY <1>6, SendsAnswers DEF SendsTypes
  <1> QED
    BY <1>6, <1>7 DEF SendsTypes, StoredTypes, TabTypes, Sends!tabs

LEMMA SendsApproves ==
  ASSUME PartsAssumption, SendsTypes, UNCHANGED Sends!tabs, NEW i \in Sends!Slots,
         deskReq[i] # Sends!Idle, deskReq[i].kind = "approve", Sends!ServeApprove(i)
  PROVE  SendsTypes'
  <1> DEFINE a == deskReq[i].app
             q == deskReq[i]
             r == [deskRow[a] EXCEPT !.status = "approved", !.approved = deskRow[a].revision]
  <1>1. /\ a \in Apps /\ q.base \in Sends!Row /\ q.text \in OtherTexts
        /\ deskRow[a] \in Sends!Row
    BY RequestIsWhole DEF SendsTypes, StoredTypes, Whole, Sends!Approvals
  <1>2. CASE ~Sends!Approvable(deskRow[a], Sends!ExpectedRevision(q.base))
    BY <1>2, NothingServed DEF Sends!ServeApprove
  <1>3. CASE Sends!Approvable(deskRow[a], Sends!ExpectedRevision(q.base))
    <2>1. /\ deskApprovals[a] < MaxApprovals
          /\ deskApprovals' = [deskApprovals EXCEPT ![a] = @ + 1]
          /\ deskRow' = [deskRow EXCEPT ![a] = r]
          /\ deskRatified' =
               [deskRatified EXCEPT ![a] = [base |-> q.base.content, screen |-> q.text]]
          /\ Sends!Answers(i, "answered") /\ deskSends' = deskSends
      BY <1>1, <1>3 DEF Sends!ServeApprove, SendsTypes, StoredTypes
    <2>2. r \in Sends!Row
      <3>1. deskRow[a].revision \in 0..MaxRevision
        BY <1>1, SendsParts
      <3> QED
        BY <1>1, <3>1 DEF Sends!Row, Sends!Statuses
    <2> HIDE DEF r
    <2>3. deskRow' \in [Apps -> Sends!Row]
      BY <1>1, <2>1, <2>2, RowSet DEF SendsTypes
    <2>4. deskApprovals' \in [Apps -> 0..MaxApprovals]
      <3>1. deskApprovals[a] + 1 \in 0..MaxApprovals
        BY <1>1, <2>1, SendsParts DEF SendsTypes, StoredTypes
      <3> QED
        BY <2>1, <3>1 DEF SendsTypes, StoredTypes
    <2>5. deskRatified' \in [Apps -> [base : Sends!Contents, screen : OtherTexts]]
      <3>1. q.base.content \in Sends!Contents
        BY <1>1, SendsParts
      <3> QED
        BY <1>1, <2>1, <3>1 DEF SendsTypes, StoredTypes
    <2>6. RequestTypes'
      BY <2>1, <2>3, SendsAnswers DEF SendsTypes
    <2> QED
      BY <2>1, <2>3, <2>4, <2>5, <2>6 DEF SendsTypes, StoredTypes, TabTypes, Sends!tabs
  <1> QED
    BY <1>2, <1>3

LEMMA StatusMoves ==
  ASSUME StoredTypes, NEW a \in Apps, NEW x \in Sends!Statuses,
         deskRow' = [deskRow EXCEPT ![a].status = x]
  PROVE  deskRow' \in [Apps -> Sends!Row]
  <1>1. deskRow[a] \in Sends!Row
    BY DEF StoredTypes
  <1>2. [deskRow[a] EXCEPT !.status = x] \in Sends!Row
    BY <1>1 DEF Sends!Row
  <1>3. deskRow' = [deskRow EXCEPT ![a] = [deskRow[a] EXCEPT !.status = x]]
    BY DEF StoredTypes
  <1> QED
    BY <1>2, <1>3, RowSet

LEMMA SendsQueues ==
  ASSUME SendsTypes, UNCHANGED Sends!tabs, NEW i \in Sends!Slots, deskReq[i] # Sends!Idle,
         Sends!ServeSend(i)
  PROVE  SendsTypes'
  <1> DEFINE a == deskReq[i].app
  <1>1. a \in Apps
    BY RequestIsWhole DEF SendsTypes
  <1>2. CASE UNCHANGED Sends!server /\ Sends!Answers(i, "refused")
    BY <1>2, NothingServed
  <1>3. CASE ~ (UNCHANGED Sends!server /\ Sends!Answers(i, "refused"))
    <2>1. /\ deskRow' = [deskRow EXCEPT ![a].status = "queued"]
          /\ deskSends' = [deskSends EXCEPT ![a] = @ + 1]
          /\ Sends!Answers(i, "answered")
          /\ UNCHANGED <<deskApprovals, deskRatified>>
      BY <1>3 DEF Sends!ServeSend
    <2>2. "queued" \in Sends!Statuses
      BY DEF Sends!Statuses
    <2>3. deskRow' \in [Apps -> Sends!Row]
      BY <1>1, <2>1, <2>2, StatusMoves DEF SendsTypes
    <2>4. deskSends' \in [Apps -> Nat]
      BY <2>1, OneMore DEF SendsTypes, StoredTypes
    <2>5. RequestTypes'
      BY <2>1, <2>3, SendsAnswers DEF SendsTypes
    <2> QED
      BY <2>1, <2>3, <2>4, <2>5 DEF SendsTypes, StoredTypes, TabTypes, Sends!tabs
  <1> QED
    BY <1>2, <1>3

LEMMA SendsFinds ==
  ASSUME SendsTypes, UNCHANGED Sends!tabs, NEW i \in Sends!Slots, deskReq[i] # Sends!Idle,
         Sends!FindDrafted(i), deskReq[i].kind = "draft"
  PROVE  SendsTypes'
  <1> DEFINE r == [deskReq[i] EXCEPT !.stage = "drafting"]
  <1>1. deskReq' = [deskReq EXCEPT ![i] = r] /\ UNCHANGED Sends!server
    BY DEF Sends!FindDrafted
  <1>2. deskReq[i] \in Sends!Request
    BY RequestIsWhole DEF SendsTypes, Whole
  <1>3. r \in Sends!Request /\ r.stage = "drafting" /\ r.kind = "draft"
    BY <1>2 DEF Sends!Request
  <1> HIDE DEF r
  <1>4. r \in Whole
    BY <1>3 DEF Whole, Sends!Saves, Sends!Approvals
  <1>5. RequestTypes'
    BY <1>1, <1>4, RequestSet DEF SendsTypes
  <1> QED
    BY <1>1, <1>5 DEF SendsTypes, StoredTypes, TabTypes, Sends!server, Sends!tabs

LEMMA SendsServes ==
  ASSUME PartsAssumption, SendsTypes, NEW i \in Sends!Slots, Sends!Serve(i)
  PROVE  SendsTypes'
  <1> DEFINE a == deskReq[i].app
  <1>1. UNCHANGED Sends!tabs /\ deskReq[i] # Sends!Idle
    BY DEF Sends!Serve, Sends!Idle
  <1>2. a \in Apps
    BY <1>1, RequestIsWhole DEF SendsTypes
  <1>3. CASE deskReq[i].kind \in Sends!Saves /\ Sends!ServeSave(i)
    <2>1. deskReq[i].text \in OtherTexts
      BY <1>1, <1>3, RequestIsWhole DEF SendsTypes, Whole
    <2>2. CASE deskRow[a].status \in {"queued", "sent"}
      BY <1>1, <1>3, <2>2, NothingServed DEF Sends!ServeSave
    <2>3. CASE deskRow[a].status \notin {"queued", "sent"}
      BY <1>1, <1>2, <1>3, <2>1, <2>3, SendsRewrites DEF Sends!ServeSave
    <2> QED
      BY <2>2, <2>3
  <1>4. CASE deskReq[i].kind = "draft" /\ Sends!FindDrafted(i)
    BY <1>1, <1>4, SendsFinds
  <1>5. CASE Sends!NothingDrafted(i) \/ Sends!ServeList(i)
    BY <1>1, <1>5, NothingServed DEF Sends!NothingDrafted, Sends!ServeList
  <1>6. CASE Sends!WriteDraft(i)
    <2>1. CASE Sends!ContentLocked(deskRow[a])
      BY <1>1, <1>6, <2>1, NothingServed DEF Sends!WriteDraft
    <2>2. CASE ~Sends!ContentLocked(deskRow[a])
      <3>1. PICK x \in OtherTexts :
               deskRow' = [deskRow EXCEPT ![a] = Sends!Rewritten(deskRow[a], Sends!OnScreen(x))]
        BY <1>6, <2>2 DEF Sends!WriteDraft
      <3>2. /\ deskRow[a].revision < MaxRevision /\ Sends!Answers(i, "answered")
            /\ UNCHANGED <<deskApprovals, deskSends, deskRatified>>
        BY <1>6, <2>2 DEF Sends!WriteDraft
      <3> QED
        BY <1>1, <1>2, <3>1, <3>2, SendsRewrites
    <2> QED
      BY <2>1, <2>2
  <1> QED
    BY <1>1, <1>3, <1>4, <1>5, <1>6, SendsApproves, SendsQueues DEF Sends!Serve

LEMMA SendsTypesStep == ASSUME PartsAssumption, SendsTypes, Sends!Next PROVE SendsTypes'
  <1>1. ASSUME NEW t \in FewTabs,
               \/ Sends!Save(t) \/ Sends!ClickApprove(t) \/ Sends!ClickSend(t)
               \/ Sends!Refresh(t) \/ Sends!ClickDraft(t)
        PROVE  SendsTypes'
    BY <1>1, SendsClicks DEF Sends!Save, Sends!ClickApprove, Sends!ClickSend, Sends!Refresh,
                             Sends!ClickDraft
  <1>2. ASSUME NEW a \in Apps, NEW outcome \in {"sent", "failed"}, Sends!SendEnds(a, outcome)
        PROVE  SendsTypes'
    <2>1. /\ deskRow' = [deskRow EXCEPT ![a].status = outcome]
          /\ UNCHANGED <<deskApprovals, deskSends, deskRatified, deskList, deskDraft, deskReq>>
      BY <1>2 DEF Sends!SendEnds, Sends!tabs
    <2>2. deskRow' \in [Apps -> Sends!Row]
      <3>1. outcome \in Sends!Statuses
        BY DEF Sends!Statuses
      <3> QED
        BY <2>1, <3>1, StatusMoves DEF SendsTypes
    <2> QED
      BY <2>1, <2>2 DEF SendsTypes, StoredTypes, TabTypes, RequestTypes
  <1> QED
    BY <1>1, <1>2, SendsTyping, SendsServes, SendsLands, SendsLosesRequest DEF Sends!Next

-----------------------------------------------------------------------------
(* The types of the sessions, of both parts at once: of any tabs, users, *)
(* mailed links, kinds of requests and bound of the changes not heard of *)

Any(TT, UU, LL, KK, P) == INSTANCE Session WITH
    Tabs <- TT, Users <- UU, MailedLinks <- LL, Kinds <- KK, MaxPending <- P, None <- Nil,
    stored <- loginStored, links <- loginLinks, page <- loginPage,
    heard <- loginHeard, session <- loginSession, data <- loginData,
    call <- loginCall, written <- loginWritten, deleted <- loginDeleted,
    typed <- loginTyped, twice <- loginTwice

OrNone(UU) == UU \cup {Nil}

Requests(UU) ==
    [state : {"asked", "sent", "refused", "done"}, of : OrNone(UU), as : OrNone(UU),
     valid : BOOLEAN, again : BOOLEAN, took : BOOLEAN, mounted : BOOLEAN]

\* A valid token is that of a user, and what is saved was loaded for one.
Sound(c, k, UU) ==
    /\ c \in Requests(UU)
    /\ c.valid => c.as # Nil
    /\ k = "save" => c.of # Nil

\* The requests F of the tabs: where there is no session, nothing is loaded.
Fine(F, TT, UU, KK) ==
    /\ F = [t \in TT |-> [k \in KK |-> F[t][k]]]
    /\ \A t \in TT, k \in KK : F[t][k] = NoRequest \/ Sound(F[t][k], k, UU)
    /\ \A t \in TT : loginSession[t] = Nil => F[t]["load"] = NoRequest

AccountTypes(UU, LL) ==
    /\ loginLinks \subseteq LL
    /\ loginWritten \in [UU -> SUBSET UU] /\ loginDeleted \subseteq UU
    /\ loginTyped \subseteq UU /\ loginTwice \in BOOLEAN

StorageTypes(UU) ==
    /\ loginStored \in [user : OrNone(UU), valid : BOOLEAN]
    /\ loginStored.valid => loginStored.user # Nil

HeardTypes(TT, UU, P) ==
    /\ loginHeard \in [TT -> Seq(OrNone(UU))]
    /\ \A t \in TT : Len(loginHeard[t]) <= P

ShownTypes(TT, UU) ==
    loginSession \in [TT -> OrNone(UU)] /\ loginData \in [TT -> OrNone(UU)]

PageTypes(TT) == loginPage \in [TT -> {"closed", "booting", "up"}]

TypesOf(TT, UU, LL, KK, P) ==
    /\ AccountTypes(UU, LL) /\ StorageTypes(UU) /\ HeardTypes(TT, UU, P)
    /\ ShownTypes(TT, UU) /\ PageTypes(TT) /\ Fine(loginCall, TT, UU, KK)

LEMMA SessionTyped ==
  ASSUME NEW TT, NEW UU, NEW LL, NEW KK, NEW P, TypesOf(TT, UU, LL, KK, P)
  PROVE  Any(TT, UU, LL, KK, P)!TypeOK
  <1>1. loginCall \in [TT -> [KK -> Any(TT, UU, LL, KK, P)!Calls]]
    <2>1. \A t \in TT, k \in KK : loginCall[t][k] \in Any(TT, UU, LL, KK, P)!Calls
      BY DEF TypesOf, Fine, Sound, Requests, OrNone, NoRequest, Any!Calls, Any!Someone,
             Any!NoCall
    <2>2. loginCall = [t \in TT |-> [k \in KK |-> loginCall[t][k]]]
      BY DEF TypesOf, Fine
    <2> HIDE DEF Any!Calls
    <2> QED
      BY <2>1, <2>2
  <1> QED
    BY <1>1 DEF TypesOf, AccountTypes, StorageTypes, HeardTypes, ShownTypes, PageTypes, Fine,
       OrNone, NoRequest, Any!TypeOK, Any!Someone, Any!NoCall

LEMMA SessionTypesStart ==
  ASSUME NEW TT, NEW UU, NEW LL, NEW KK, NEW P, P \in Nat \ {0},
         "load" \in KK, Any(TT, UU, LL, KK, P)!Init
  PROVE  TypesOf(TT, UU, LL, KK, P)
  <1>1. HeardTypes(TT, UU, P)
    BY DEF Any!Init, HeardTypes
  <1>2. Fine(loginCall, TT, UU, KK)
    BY DEF Any!Init, Any!NoCall, NoRequest, Fine
  <1> QED
    BY <1>1, <1>2 DEF Any!Init, Any!Nobody, TypesOf, AccountTypes, StorageTypes, ShownTypes,
       PageTypes, OrNone

\* Requests that are sound, one of them changed, and some tokens no longer valid.
LEMMA SoundIsThere ==
  ASSUME NEW c, NEW k, NEW UU, Sound(c, k, UU)
  PROVE  c # NoRequest /\ c.state # "none"
  BY DEF Sound, Requests, NoRequest

LEMMA OneFine ==
  ASSUME NEW TT, NEW UU, NEW KK, "load" \in KK, NEW F, Fine(F, TT, UU, KK),
         NEW t \in TT, NEW k \in KK, NEW d,
         \/ d = NoRequest
         \/ Sound(d, k, UU) /\ (F[t][k] # NoRequest \/ loginSession[t] # Nil)
  PROVE  Fine([F EXCEPT ![t][k] = d], TT, UU, KK)
  <1> DEFINE G == [F EXCEPT ![t][k] = d]
  <1>1. /\ G = [s \in TT |-> [l \in KK |-> G[s][l]]]
        /\ \A s \in TT, l \in KK : G[s][l] = IF s = t /\ l = k THEN d ELSE F[s][l]
    <2>1. G = [F EXCEPT ![t] = [F[t] EXCEPT ![k] = d]]
      BY DEF Fine
    <2>2. F = [s \in TT |-> F[s]] /\ \A s \in TT : F[s] = [l \in KK |-> F[s][l]]
      BY DEF Fine
    <2> QED
      BY <2>1, <2>2
  <1> HIDE DEF G
  <1> QED
    BY <1>1 DEF Fine, G

LEMMA VoidFine ==
  ASSUME NEW TT, NEW UU, NEW KK, "load" \in KK, NEW F, Fine(F, TT, UU, KK), NEW u
  PROVE  /\ Fine(Voided(F, TT, KK, u), TT, UU, KK)
         /\ \A t \in TT, k \in KK : F[t][k] # NoRequest => Voided(F, TT, KK, u)[t][k] # NoRequest
  <1> DEFINE G == Voided(F, TT, KK, u)
  <1>1. G = [s \in TT |-> [l \in KK |-> G[s][l]]]
    BY DEF Voided
  <1>2. ASSUME NEW s \in TT, NEW l \in KK
        PROVE  \/ G[s][l] = F[s][l]
               \/ (F[s][l] # NoRequest /\ Sound(G[s][l], l, UU))
    <2>1. \/ G[s][l] = F[s][l]
          \/ (F[s][l] # NoRequest /\ G[s][l] = [F[s][l] EXCEPT !.valid = FALSE])
      BY DEF Voided
    <2>2. ASSUME Sound(F[s][l], l, UU), G[s][l] = [F[s][l] EXCEPT !.valid = FALSE]
          PROVE  Sound(G[s][l], l, UU)
      BY <2>2 DEF Sound, Requests
    <2> QED
      BY <2>1, <2>2 DEF Fine
  <1>3. \A s \in TT, l \in KK : F[s][l] # NoRequest => G[s][l] # NoRequest
    BY <1>2, SoundIsThere
  <1>4. \A s \in TT : F[s]["load"] = NoRequest => G[s]["load"] = NoRequest
    BY <1>2
  <1> HIDE DEF G
  <1>5. Fine(G, TT, UU, KK)
    BY <1>1, <1>2, <1>4 DEF Fine
  <1> QED
    BY <1>3, <1>5 DEF G

LEMMA AnyVoid ==
  ASSUME NEW TT, NEW UU, NEW LL, NEW KK, NEW P, NEW F, NEW u
  PROVE  Any(TT, UU, LL, KK, P)!Void(F, u) = Voided(F, TT, KK, u)
  BY DEF Any!Void, Voided, Any!NoCall, NoRequest

\* The storage has a new session.
LEMMA StoreTypes ==
  ASSUME NEW TT, NEW UU, NEW LL, NEW KK, NEW P, P \in Nat \ {0},
         HeardTypes(TT, UU, P), NEW u \in OrNone(UU), Any(TT, UU, LL, KK, P)!Store(u)
  PROVE  StorageTypes(UU)' /\ HeardTypes(TT, UU, P)'
  <1>1. /\ \A t \in TT : Len(loginHeard[t]) < P
        /\ loginStored' = [user |-> u, valid |-> u # Nil]
        /\ loginHeard' = [t \in TT |-> IF loginPage[t] = "up" THEN Append(loginHeard[t], u)
                                       ELSE loginHeard[t]]
    BY DEF Any!Store
  <1>2. ASSUME NEW t \in TT
        PROVE  loginHeard'[t] \in Seq(OrNone(UU)) /\ Len(loginHeard'[t]) <= P
    <2>1. loginHeard[t] \in Seq(OrNone(UU)) /\ Len(loginHeard[t]) < P
      BY <1>1 DEF HeardTypes
    <2>2. /\ Append(loginHeard[t], u) \in Seq(OrNone(UU))
          /\ Len(Append(loginHeard[t], u)) = Len(loginHeard[t]) + 1
      BY <2>1
    <2> QED
      BY <1>1, <2>1, <2>2
  <1>3. loginHeard' \in [TT -> Seq(OrNone(UU))]
    BY <1>1, <1>2
  <1> QED
    BY <1>1, <1>2, <1>3 DEF StorageTypes, HeardTypes

LEMMA AskedIsSound ==
  ASSUME NEW TT, NEW UU, NEW LL, NEW KK, NEW P, NEW u \in OrNone(UU), NEW k,
         k = "save" => u # Nil
  PROVE  Sound(Any(TT, UU, LL, KK, P)!Asked(u), k, UU)
  BY DEF Any!Asked, Sound, Requests, OrNone

\* A tab shows another session, or none.
LEMMA ShowTypes ==
  ASSUME NEW TT, NEW UU, NEW LL, NEW KK, NEW P, "load" \in KK,
         ShownTypes(TT, UU), Fine(loginCall, TT, UU, KK),
         NEW t \in TT, NEW u \in OrNone(UU), Any(TT, UU, LL, KK, P)!Show(t, u)
  PROVE  ShownTypes(TT, UU)' /\ Fine(loginCall, TT, UU, KK)'
  <1> DEFINE old == loginCall[t]
             unmounted == [k \in KK |-> IF k = "load" \/ old[k] = NoRequest THEN NoRequest
                                        ELSE [old[k] EXCEPT !.mounted = FALSE]]
  <1>1. /\ loginSession' = [loginSession EXCEPT ![t] = u]
        /\ \E v \in {Nil, loginData[t]} : loginData' = [loginData EXCEPT ![t] = v]
    BY DEF Any!Show, ShownTypes
  <1>2. PICK X :
          /\ loginCall' = [loginCall EXCEPT ![t] = X]
          /\ \/ u = Nil /\ X = unmounted
             \/ u # Nil /\ X = [old EXCEPT !["load"] = Any(TT, UU, LL, KK, P)!Asked(Nil)]
             \/ u # Nil /\ X = old
    BY DEF Any!Show, Any!NoCall, NoRequest
  <1>3. old = [k \in KK |-> old[k]] /\ \A k \in KK : old[k] = NoRequest \/ Sound(old[k], k, UU)
    BY DEF Fine
  <1>4. /\ X = [k \in KK |-> X[k]]
        /\ \A k \in KK : X[k] = NoRequest \/ Sound(X[k], k, UU)
        /\ u = Nil => X["load"] = NoRequest
    <2>1. CASE u = Nil /\ X = unmounted
      <3>1. ASSUME NEW k \in KK, X[k] # NoRequest PROVE Sound(X[k], k, UU)
        <4>1. Sound(old[k], k, UU) /\ X[k] = [old[k] EXCEPT !.mounted = FALSE]
          BY <1>3, <2>1, <3>1
        <4> QED
          BY <4>1 DEF Sound, Requests
      <3> QED
        BY <2>1, <3>1
    <2>2. CASE u # Nil /\ X = [old EXCEPT !["load"] = Any(TT, UU, LL, KK, P)!Asked(Nil)]
      <3>1. Sound(Any(TT, UU, LL, KK, P)!Asked(Nil), "load", UU)
        BY AskedIsSound DEF OrNone
      <3> QED
        BY <1>3, <2>2, <3>1
    <2>3. CASE u # Nil /\ X = old
      BY <1>3, <2>3
    <2> QED
      BY <1>2, <2>1, <2>2, <2>3
  <1>5. /\ loginCall' = [s \in TT |-> loginCall'[s]] /\ loginCall'[t] = X
        /\ \A s \in TT : s # t => loginCall'[s] = loginCall[s]
    BY <1>2 DEF Fine
  <1>6. \A s \in TT : loginSession'[s] = IF s = t THEN u ELSE loginSession[s]
    BY <1>1 DEF ShownTypes
  <1>7. ShownTypes(TT, UU)'
    BY <1>1 DEF ShownTypes, OrNone
  <1>8. Fine(loginCall, TT, UU, KK)'
    <2>1. \A s \in TT : loginCall'[s] = [k \in KK |-> loginCall'[s][k]]
      BY <1>4, <1>5 DEF Fine
    <2>2. loginCall' = [s \in TT |-> [k \in KK |-> loginCall'[s][k]]]
      BY <1>5, <2>1
    <2>3. \A s \in TT, k \in KK : loginCall'[s][k] = NoRequest \/ Sound(loginCall'[s][k], k, UU)
      BY <1>4, <1>5 DEF Fine
    <2>4. \A s \in TT : loginSession'[s] = Nil => loginCall'[s]["load"] = NoRequest
      BY <1>4, <1>5, <1>6 DEF Fine
    <2> QED
      BY <2>2, <2>3, <2>4 DEF Fine
  <1> QED
    BY <1>7, <1>8

\* Where the sessions of the tabs stay, new requests are as fine as before.
LEMMA FineStays ==
  ASSUME NEW TT, NEW UU, NEW KK, UNCHANGED loginSession, Fine(loginCall', TT, UU, KK)
  PROVE  Fine(loginCall, TT, UU, KK)'
  BY DEF Fine

LEMMA TokenTypes ==
  ASSUME NEW UU, StorageTypes(UU),
         \/ UNCHANGED loginStored
         \/ loginStored' = [loginStored EXCEPT !.valid = FALSE]
         \/ loginStored' = [loginStored EXCEPT !.valid = TRUE] /\ loginStored.user # Nil
  PROVE  StorageTypes(UU)'
  BY DEF StorageTypes

\* The changes of a single request.
LEMMA SoundChanges ==
  ASSUME NEW UU, StorageTypes(UU), NEW k, NEW c, Sound(c, k, UU)
  PROVE  /\ Sound([c EXCEPT !.state = "sent", !.as = loginStored.user,
                            !.valid = loginStored.valid], k, UU)
         /\ loginStored.user # Nil =>
              Sound([[c EXCEPT !.state = "sent", !.as = loginStored.user,
                               !.valid = loginStored.valid]
                        EXCEPT !.valid = TRUE, !.again = TRUE], k, UU)
         /\ Sound([c EXCEPT !.state = "done", !.took = TRUE], k, UU)
         /\ Sound([c EXCEPT !.state = "refused"], k, UU)
  <1>1. Sound([c EXCEPT !.state = "sent", !.as = loginStored.user,
                        !.valid = loginStored.valid], k, UU)
    BY DEF Sound, Requests, StorageTypes
  <1>2. ASSUME NEW d, Sound(d, k, UU), d.as # Nil
        PROVE  Sound([d EXCEPT !.valid = TRUE, !.again = TRUE], k, UU)
    BY <1>2 DEF Sound, Requests
  <1>3. [c EXCEPT !.state = "sent", !.as = loginStored.user, !.valid = loginStored.valid].as
        = loginStored.user
    BY DEF Sound, Requests
  <1>4. Sound([c EXCEPT !.state = "done", !.took = TRUE], k, UU)
    BY DEF Sound, Requests
  <1>5. Sound([c EXCEPT !.state = "refused"], k, UU)
    BY DEF Sound, Requests
  <1> QED
    BY <1>1, <1>2, <1>3, <1>4, <1>5

LEMMA SessionTypesStep ==
  ASSUME NEW TT, NEW UU, NEW LL, NEW KK, NEW P, P \in Nat \ {0}, "load" \in KK, Nil \notin UU,
         TypesOf(TT, UU, LL, KK, P), Any(TT, UU, LL, KK, P)!Next
  PROVE  TypesOf(TT, UU, LL, KK, P)'
  <1> USE DEF TypesOf
  <1>1. UNCHANGED <<loginWritten, loginDeleted, loginTyped, loginTwice>>
        /\ loginLinks' \subseteq loginLinks
        => AccountTypes(UU, LL)'
    BY DEF AccountTypes
  <1>2. UNCHANGED loginStored => StorageTypes(UU)'
    BY DEF StorageTypes
  <1>3. UNCHANGED loginHeard => HeardTypes(TT, UU, P)'
    BY DEF HeardTypes
  <1>4. UNCHANGED <<loginSession, loginData>> => ShownTypes(TT, UU)'
    BY DEF ShownTypes
  <1>5. UNCHANGED loginPage => PageTypes(TT)'
    BY DEF PageTypes
  <1>6. ASSUME NEW F, Fine(F, TT, UU, KK), NEW u, loginCall' = Any(TT, UU, LL, KK, P)!Void(F, u),
               UNCHANGED loginSession
        PROVE  Fine(loginCall, TT, UU, KK)'
    BY <1>6, AnyVoid, VoidFine, FineStays
  <1>7. CASE Any(TT, UU, LL, KK, P)!Expire
    <2>1. StorageTypes(UU)'
      BY <1>7, TokenTypes DEF Any!Expire
    <2>2. Fine(loginCall, TT, UU, KK)'
      BY <1>6, <1>7 DEF Any!Expire
    <2> QED
      BY <1>1, <1>3, <1>4, <1>5, <1>7, <2>1, <2>2 DEF Any!Expire, Any!Rest
  <1>8. ASSUME NEW t \in TT,
               \/ Any(TT, UU, LL, KK, P)!Boot(t)
               \/ \E u \in UU : Any(TT, UU, LL, KK, P)!BootFromLink(t, u)
        PROVE  TypesOf(TT, UU, LL, KK, P)'
    <2>1. /\ loginPage' = [loginPage EXCEPT ![t] = "booting"] /\ loginLinks' \subseteq loginLinks
          /\ UNCHANGED <<loginWritten, loginDeleted, loginTyped, loginTwice>>
      BY <1>8 DEF Any!Boot, Any!BootFromLink, Any!Rest
    <2>2. \E u \in OrNone(UU) : Any(TT, UU, LL, KK, P)!Show(t, u)
      BY <1>8 DEF Any!Boot, Any!BootFromLink, StorageTypes, OrNone
    <2>3. ShownTypes(TT, UU)' /\ Fine(loginCall, TT, UU, KK)'
      BY <2>2, ShowTypes
    <2>4. StorageTypes(UU)' /\ HeardTypes(TT, UU, P)'
      <3>1. CASE Any(TT, UU, LL, KK, P)!Boot(t)
        BY <1>2, <1>3, <3>1 DEF Any!Boot
      <3>2. ASSUME NEW u \in UU, Any(TT, UU, LL, KK, P)!BootFromLink(t, u)
            PROVE  StorageTypes(UU)' /\ HeardTypes(TT, UU, P)'
        <4>1. u \in OrNone(UU) /\ Any(TT, UU, LL, KK, P)!Store(u)
          BY <3>2 DEF Any!BootFromLink, OrNone
        <4> QED
          BY <4>1, StoreTypes
      <3> QED
        BY <1>8, <3>1, <3>2
    <2>5. PageTypes(TT)'
      BY <2>1 DEF PageTypes
    <2> QED
      BY <1>1, <2>1, <2>3, <2>4, <2>5
  <1>9. ASSUME NEW t \in TT, Any(TT, UU, LL, KK, P)!Subscribe(t)
        PROVE  TypesOf(TT, UU, LL, KK, P)'
    <2>1. /\ loginPage' = [loginPage EXCEPT ![t] = "up"]
          /\ loginHeard' = [loginHeard EXCEPT ![t] = <<loginStored.user>>]
          /\ UNCHANGED <<loginStored, loginLinks, loginSession, loginData, loginCall,
                         loginWritten, loginDeleted, loginTyped, loginTwice>>
      BY <1>9 DEF Any!Subscribe, Any!Rest
    <2>2. HeardTypes(TT, UU, P)'
      <3>1. /\ <<loginStored.user>> \in Seq(OrNone(UU)) /\ Len(<<loginStored.user>>) = 1
            /\ 1 <= P
        BY DEF StorageTypes
      <3> QED
        BY <2>1, <3>1 DEF HeardTypes
    <2>3. PageTypes(TT)'
      BY <2>1 DEF PageTypes
    <2>4. Fine(loginCall, TT, UU, KK)'
      BY <2>1, FineStays
    <2> QED
      BY <1>1, <1>2, <1>4, <2>1, <2>2, <2>3, <2>4
  <1>10. ASSUME NEW t \in TT, Any(TT, UU, LL, KK, P)!Hear(t) PROVE TypesOf(TT, UU, LL, KK, P)'
    <2> DEFINE s == loginHeard[t]
    <2>1. PICK n \in 1..Len(s) :
            /\ Any(TT, UU, LL, KK, P)!Show(t, s[n])
            /\ loginHeard' = [loginHeard EXCEPT ![t] = SubSeq(s, n + 1, Len(s))]
      BY <1>10 DEF Any!Hear, HeardTypes
    <2>2. s \in Seq(OrNone(UU)) /\ s[n] \in OrNone(UU) /\ Len(s) <= P
      BY DEF HeardTypes
    <2>3. ShownTypes(TT, UU)' /\ Fine(loginCall, TT, UU, KK)'
      BY <2>1, <2>2, ShowTypes
    <2>4. HeardTypes(TT, UU, P)'
      <3>1. /\ SubSeq(s, n + 1, Len(s)) \in Seq(OrNone(UU))
            /\ Len(SubSeq(s, n + 1, Len(s))) <= P
        BY <2>2
      <3> QED
        BY <2>1, <3>1 DEF HeardTypes
    <2> QED
      BY <1>1, <1>2, <1>5, <1>10, <2>3, <2>4 DEF Any!Hear, Any!Rest
  <1>11. ASSUME NEW t \in TT,
                \/ Any(TT, UU, LL, KK, P)!SignOut(t)
                \/ \E u \in UU : Any(TT, UU, LL, KK, P)!SignIn(t, u)
         PROVE  TypesOf(TT, UU, LL, KK, P)'
    <2>1. \E u \in OrNone(UU) : Any(TT, UU, LL, KK, P)!Store(u)
      BY <1>11 DEF Any!SignOut, Any!SignIn, OrNone
    <2>2. StorageTypes(UU)' /\ HeardTypes(TT, UU, P)'
      BY <2>1, StoreTypes
    <2>3. UNCHANGED <<loginLinks, loginPage, loginSession, loginData, loginWritten,
                      loginDeleted, loginTyped, loginTwice>>
      BY <1>11 DEF Any!SignOut, Any!SignIn, Any!Rest
    <2>4. Fine(loginCall, TT, UU, KK)'
      <3>1. CASE Any(TT, UU, LL, KK, P)!SignOut(t)
        BY <1>6, <2>3, <3>1 DEF Any!SignOut
      <3>2. CASE UNCHANGED loginCall
        BY <2>3, <3>2, FineStays
      <3> QED
        BY <1>11, <3>1, <3>2 DEF Any!SignIn
    <2> QED
      BY <1>1, <1>4, <1>5, <2>2, <2>3, <2>4
  <1>12. ASSUME NEW t \in TT, NEW k \in KK, Any(TT, UU, LL, KK, P)!Ask(t, k)
         PROVE  TypesOf(TT, UU, LL, KK, P)'
    <2> DEFINE of == IF k = "save" THEN loginData[t] ELSE Nil
    <2>1. /\ loginSession[t] # Nil /\ (k = "save" => loginData[t] # Nil)
          /\ loginCall' = [loginCall EXCEPT ![t][k] = Any(TT, UU, LL, KK, P)!Asked(of)]
          /\ loginTyped' = IF k = "delete" THEN loginTyped \cup {loginSession[t]} ELSE loginTyped
          /\ UNCHANGED <<loginStored, loginLinks, loginPage, loginHeard, loginSession,
                         loginData, loginWritten, loginDeleted, loginTwice>>
      BY <1>12 DEF Any!Ask
    <2>2. of \in OrNone(UU) /\ loginSession[t] \in UU
      BY <2>1 DEF ShownTypes, OrNone
    <2>3. Sound(Any(TT, UU, LL, KK, P)!Asked(of), k, UU)
      BY <2>1, <2>2, AskedIsSound
    <2>4. Fine(loginCall, TT, UU, KK)'
      <3> HIDE DEF of
      <3> QED
        BY <2>1, <2>3, OneFine, FineStays
    <2>5. AccountTypes(UU, LL)'
      BY <2>1, <2>2 DEF AccountTypes
    <2> QED
      BY <1>2, <1>3, <1>4, <1>5, <2>1, <2>4, <2>5
  <1>13. ASSUME NEW t \in TT, NEW k \in KK,
                \/ Any(TT, UU, LL, KK, P)!Send(t, k) \/ Any(TT, UU, LL, KK, P)!Lose(t, k)
                \/ Any(TT, UU, LL, KK, P)!Refuse(t, k) \/ Any(TT, UU, LL, KK, P)!Retry(t, k)
                \/ Any(TT, UU, LL, KK, P)!GiveUp(t, k)
         PROVE  TypesOf(TT, UU, LL, KK, P)'
    <2> DEFINE c == loginCall[t][k]
    <2>1. /\ c.state # "none"
          /\ UNCHANGED <<loginLinks, loginPage, loginHeard, loginSession, loginData,
                         loginWritten, loginDeleted, loginTyped, loginTwice>>
      BY <1>13 DEF Any!Send, Any!Lose, Any!Refuse, Any!Retry, Any!GiveUp, Any!Rest
    <2>2. Sound(c, k, UU) /\ c # NoRequest
      BY <2>1, SoundIsThere DEF Fine, NoRequest
    <2>3. StorageTypes(UU)'
      <3>1. CASE Any(TT, UU, LL, KK, P)!Retry(t, k)
        BY <3>1, TokenTypes DEF Any!Retry
      <3> QED
        BY <1>2, <1>13, <3>1 DEF Any!Send, Any!Lose, Any!Refuse, Any!GiveUp
    <2>4. \E d : /\ d = NoRequest \/ Sound(d, k, UU)
                 /\ loginCall' = [loginCall EXCEPT ![t][k] = d]
      <3>1. CASE Any(TT, UU, LL, KK, P)!Send(t, k)
        <4>1. loginCall' = [loginCall EXCEPT ![t][k] =
                 [c EXCEPT !.state = "sent", !.as = loginStored.user, !.valid = loginStored.valid]]
          BY <3>1 DEF Any!Send, Any!Sent, Fine
        <4> QED
          BY <2>2, <4>1, SoundChanges
      <3>2. CASE Any(TT, UU, LL, KK, P)!Lose(t, k) \/ Any(TT, UU, LL, KK, P)!GiveUp(t, k)
        BY <3>2 DEF Any!Lose, Any!GiveUp, Any!Unanswered, Any!NoCall, NoRequest
      <3>3. CASE Any(TT, UU, LL, KK, P)!Refuse(t, k)
        <4>1. loginCall' = [loginCall EXCEPT ![t][k] = [c EXCEPT !.state = "refused"]]
          BY <3>3 DEF Any!Refuse, Fine
        <4> QED
          BY <2>2, <4>1, SoundChanges
      <3>4. CASE Any(TT, UU, LL, KK, P)!Retry(t, k)
        <4>1. loginCall' = [loginCall EXCEPT ![t][k] =
                 [[c EXCEPT !.state = "sent", !.as = loginStored.user,
                            !.valid = loginStored.valid] EXCEPT !.valid = TRUE, !.again = TRUE]]
          BY <3>4 DEF Any!Retry, Any!Sent, Fine
        <4>2. loginStored.user # Nil
          BY <3>4 DEF Any!Retry
        <4> QED
          BY <2>2, <4>1, <4>2, SoundChanges
      <3> QED
        BY <1>13, <3>1, <3>2, <3>3, <3>4
    <2>5. PICK d : /\ d = NoRequest \/ Sound(d, k, UU)
                   /\ loginCall' = [loginCall EXCEPT ![t][k] = d]
      BY <2>4
    <2>6. Fine([loginCall EXCEPT ![t][k] = d], TT, UU, KK)
      BY <2>2, <2>5, OneFine
    <2>7. Fine(loginCall, TT, UU, KK)'
      BY <2>1, <2>5, <2>6, FineStays
    <2> QED
      BY <1>1, <1>3, <1>4, <1>5, <2>1, <2>3, <2>7
  <1>14. ASSUME NEW t \in TT, NEW k \in KK, Any(TT, UU, LL, KK, P)!Serve(t, k)
         PROVE  TypesOf(TT, UU, LL, KK, P)'
    <2> DEFINE c == loginCall[t][k]
               served == [c EXCEPT !.state = "done", !.took = TRUE]
               calls == IF k = "delete" THEN Any(TT, UU, LL, KK, P)!Void(loginCall, c.as)
                        ELSE loginCall
    <2>1. /\ c.state = "sent" /\ c.valid
          /\ loginWritten' = IF k = "save" THEN [loginWritten EXCEPT ![c.as] = @ \cup {c.of}]
                             ELSE loginWritten
          /\ loginDeleted' = IF k = "delete" THEN loginDeleted \cup {c.as} ELSE loginDeleted
          /\ loginStored' = IF k = "delete" /\ loginStored.user = c.as
                            THEN [loginStored EXCEPT !.valid = FALSE] ELSE loginStored
          /\ loginTwice' = (loginTwice \/ c.took)
          /\ loginCall' = [calls EXCEPT ![t][k] = served]
             \/ loginCall' = [calls EXCEPT ![t][k] = NoRequest]
          /\ UNCHANGED <<loginLinks, loginPage, loginHeard, loginSession, loginData, loginTyped>>
      BY <1>14 DEF Any!Serve, Any!Unanswered, Any!NoCall, NoRequest
    <2>2. Sound(c, k, UU) /\ c # NoRequest
      <3> HIDE DEF calls, served
      <3> QED
        BY <2>1, SoundIsThere DEF Fine, NoRequest
    <2>3. c.as \in UU /\ (k = "save" => c.of \in UU) /\ c.took \in BOOLEAN
      <3> HIDE DEF calls, served
      <3> QED
        BY <2>1, <2>2 DEF Sound, Requests, OrNone
    <2>4. AccountTypes(UU, LL)'
      <3>1. loginWritten' \in [UU -> SUBSET UU]
        BY <2>1, <2>3 DEF AccountTypes
      <3>2. loginTwice' \in BOOLEAN
        BY <2>1, <2>3 DEF AccountTypes
      <3>3. loginDeleted' \subseteq UU
        BY <2>1, <2>3 DEF AccountTypes
      <3> QED
        BY <2>1, <3>1, <3>2, <3>3 DEF AccountTypes
    <2>5. StorageTypes(UU)'
      BY <2>1, TokenTypes
    <2>6. Fine(calls, TT, UU, KK) /\ calls[t][k] # NoRequest
      BY <2>2, AnyVoid, VoidFine
    <2>7. Sound(served, k, UU)
      BY <2>2, SoundChanges
    <2>8. Fine(loginCall, TT, UU, KK)'
      <3> HIDE DEF calls, served
      <3> QED
        BY <2>1, <2>6, <2>7, OneFine, FineStays
    <2> QED
      BY <1>3, <1>4, <1>5, <2>1, <2>4, <2>5, <2>8
  <1>15. ASSUME NEW t \in TT, NEW k \in KK, Any(TT, UU, LL, KK, P)!Take(t, k)
         PROVE  TypesOf(TT, UU, LL, KK, P)'
    <2> DEFINE c == loginCall[t][k]
               taken == [loginCall EXCEPT ![t][k] = NoRequest]
    <2>1. /\ c.state = "done"
          /\ loginData' = IF k # "delete" /\ c.mounted THEN [loginData EXCEPT ![t] = c.as]
                          ELSE loginData
          /\ IF k = "delete"
             THEN /\ Any(TT, UU, LL, KK, P)!Store(Nil)
                  /\ loginCall' = Any(TT, UU, LL, KK, P)!Void(taken, loginStored.user)
             ELSE loginCall' = taken /\ UNCHANGED <<loginStored, loginHeard>>
          /\ UNCHANGED <<loginLinks, loginPage, loginSession, loginWritten, loginDeleted,
                         loginTyped, loginTwice>>
      BY <1>15 DEF Any!Take, Any!NoCall, NoRequest, Any!Rest
    <2>2. c.as \in OrNone(UU)
      BY <2>1 DEF Fine, NoRequest, Sound, Requests
    <2>3. ShownTypes(TT, UU)'
      BY <2>1, <2>2 DEF ShownTypes
    <2>4. StorageTypes(UU)' /\ HeardTypes(TT, UU, P)'
      BY <1>2, <1>3, <2>1, StoreTypes DEF OrNone
    <2>5. Fine(taken, TT, UU, KK)
      BY OneFine
    <2>6. Fine(loginCall, TT, UU, KK)'
      <3> HIDE DEF taken
      <3> QED
        BY <1>6, <2>1, <2>5, FineStays
    <2> QED
      BY <1>1, <1>5, <2>1, <2>3, <2>4, <2>6
  <1> QED
    BY <1>7, <1>8, <1>9, <1>10, <1>11, <1>12, <1>13, <1>14, <1>15 DEF Any!Next, Any!Request

LEMMA LoginIsAny ==
  /\ Login!TypeOK <=> Any(Tabs, Users, Links, LoginKinds, LoginPending)!TypeOK
  /\ Login!Init <=> Any(Tabs, Users, Links, LoginKinds, LoginPending)!Init
  /\ Login!Next <=> Any(Tabs, Users, Links, LoginKinds, LoginPending)!Next
  <1>1. Login!TypeOK <=> Any(Tabs, Users, Links, LoginKinds, LoginPending)!TypeOK
    BY DEF Login!TypeOK, Any!TypeOK, Login!Someone, Any!Someone, Login!Calls, Any!Calls,
           Login!NoCall, Any!NoCall
  <1>2. Login!Init <=> Any(Tabs, Users, Links, LoginKinds, LoginPending)!Init
    BY DEF Login!Init, Any!Init, Login!Nobody, Any!Nobody, Login!NoCall, Any!NoCall
  <1>3. Login!Next <=> Any(Tabs, Users, Links, LoginKinds, LoginPending)!Next
    BY DEF Login!Next, Login!Request, Login!Expire, Login!Boot, Login!BootFromLink,
           Login!Subscribe, Login!Hear, Login!SignIn, Login!SignOut, Login!Ask, Login!Send,
           Login!Sent, Login!Serve, Login!Lose, Login!Unanswered, Login!Refuse, Login!Retry,
           Login!GiveUp, Login!Take, Login!Show, Login!Store, Login!Void, Login!Asked,
           Login!NoCall, Login!Rest, Any!Next, Any!Request, Any!Expire, Any!Boot,
           Any!BootFromLink, Any!Subscribe, Any!Hear, Any!SignIn, Any!SignOut, Any!Ask,
           Any!Send, Any!Sent, Any!Serve, Any!Lose, Any!Unanswered, Any!Refuse, Any!Retry,
           Any!GiveUp, Any!Take, Any!Show, Any!Store, Any!Void, Any!Asked, Any!NoCall, Any!Rest
  <1> QED
    BY <1>1, <1>2, <1>3

LEMMA RetryIsAny ==
  /\ Retry!TypeOK <=> Any(FewTabs, FewUsers, FewLinks, RetryKinds, RetryPending)!TypeOK
  /\ Retry!Init <=> Any(FewTabs, FewUsers, FewLinks, RetryKinds, RetryPending)!Init
  /\ Retry!Next <=> Any(FewTabs, FewUsers, FewLinks, RetryKinds, RetryPending)!Next
  <1>1. Retry!TypeOK <=> Any(FewTabs, FewUsers, FewLinks, RetryKinds, RetryPending)!TypeOK
    BY DEF Retry!TypeOK, Any!TypeOK, Retry!Someone, Any!Someone, Retry!Calls, Any!Calls,
           Retry!NoCall, Any!NoCall
  <1>2. Retry!Init <=> Any(FewTabs, FewUsers, FewLinks, RetryKinds, RetryPending)!Init
    BY DEF Retry!Init, Any!Init, Retry!Nobody, Any!Nobody, Retry!NoCall, Any!NoCall
  <1>3. Retry!Next <=> Any(FewTabs, FewUsers, FewLinks, RetryKinds, RetryPending)!Next
    BY DEF Retry!Next, Retry!Request, Retry!Expire, Retry!Boot, Retry!BootFromLink,
           Retry!Subscribe, Retry!Hear, Retry!SignIn, Retry!SignOut, Retry!Ask, Retry!Send,
           Retry!Sent, Retry!Serve, Retry!Lose, Retry!Unanswered, Retry!Refuse, Retry!Retry,
           Retry!GiveUp, Retry!Take, Retry!Show, Retry!Store, Retry!Void, Retry!Asked,
           Retry!NoCall, Retry!Rest, Any!Next, Any!Request, Any!Expire, Any!Boot,
           Any!BootFromLink, Any!Subscribe, Any!Hear, Any!SignIn, Any!SignOut, Any!Ask,
           Any!Send, Any!Sent, Any!Serve, Any!Lose, Any!Unanswered, Any!Refuse, Any!Retry,
           Any!GiveUp, Any!Take, Any!Show, Any!Store, Any!Void, Any!Asked, Any!NoCall, Any!Rest
  <1> QED
    BY <1>1, <1>2, <1>3

-----------------------------------------------------------------------------
(* The types of all parts *)

\* What the invariants of the parts do not say of the types of their variables.
PagesTypes ==
    /\ part = "sends" => SendsTypes
    /\ part = "draft" => DraftTypes
    /\ part = "answers" => OpensAreThere /\ PanelsAreThere
    /\ part = "profile" => ProfileAlso
    /\ part = "sync" => SyncAlso
    /\ part = "upload" => UploadAlso
    /\ part = "slot" => SlotTypes
    /\ part = "work" => WorkAlso
    /\ part = "login" => TypesOf(Tabs, Users, Links, LoginKinds, LoginPending)
    /\ part = "retry" => TypesOf(FewTabs, FewUsers, FewLinks, RetryKinds, RetryPending)

LEMMA SessionNumbers ==
  /\ LoginPending \in Nat \ {0} /\ "load" \in LoginKinds /\ Nil \notin Users
  /\ RetryPending \in Nat \ {0} /\ "load" \in RetryKinds /\ Nil \notin FewUsers
  BY PartsAssumption DEF PartsAssumption, Login!SessionAssumption, Retry!SessionAssumption

LEMMA PagesTyped == PagesInv /\ PagesTypes => TypeOK
  BY PartsAssumption, DraftTyped, AnswersTyped, ProfileTyped, SyncTyped, UploadTyped, SlotTyped,
     WorkTyped, SendsTyped, SessionTyped, LoginIsAny, RetryIsAny
     DEF PagesInv, PagesTypes, TypeOK, DeskInv, SearchInv

LEMMA PagesTypesStart == Init => PagesTypes
  BY PartsAssumption, DraftTypesStart, AnswersTypesStart, ProfileTypesStart, SyncTypesStart,
     UploadTypesStart, SlotTypesStart, WorkTypesStart, SendsTypesStart, SessionTypesStart,
     SessionNumbers, LoginIsAny, RetryIsAny
     DEF Init, PagesTypes

\* A step in which nothing happens.
LEMMA PagesTypesRest == ASSUME PagesTypes, UNCHANGED vars PROVE PagesTypes'
  <1>0. /\ part' = part
        /\ UNCHANGED <<deskVars, draftVars, searchVars, answersVars, profileVars, syncVars,
                       resumeVars, workVars, loginVars>>
    BY DEF vars
  <1>1. UNCHANGED deskVars /\ SendsTypes => SendsTypes'
    BY DEF deskVars, SendsTypes, StoredTypes, TabTypes, RequestTypes
  <1>2. UNCHANGED draftVars /\ DraftTypes => DraftTypes'
    BY DEF draftVars, DraftTypes
  <1>3. UNCHANGED answersVars /\ OpensAreThere /\ PanelsAreThere
        => OpensAreThere' /\ PanelsAreThere'
    BY DEF answersVars, OpensAreThere, PanelsAreThere, IsThere, Opens
  <1>4. UNCHANGED profileVars /\ ProfileAlso => ProfileAlso'
    BY DEF profileVars, ProfileAlso
  <1>5. UNCHANGED syncVars /\ SyncAlso => SyncAlso'
    BY DEF syncVars, SyncAlso
  <1>6. UNCHANGED resumeVars => (UploadAlso => UploadAlso') /\ (SlotTypes => SlotTypes')
    BY DEF resumeVars, UploadAlso, SlotTypes, SlotIdsAreOwn
  <1>7. UNCHANGED workVars /\ WorkAlso => WorkAlso'
    BY DEF workVars, WorkAlso, Refreshing
  <1>8. ASSUME NEW TT, NEW UU, NEW LL, NEW KK, NEW P, UNCHANGED loginVars,
               TypesOf(TT, UU, LL, KK, P)
        PROVE  TypesOf(TT, UU, LL, KK, P)'
    BY <1>8 DEF loginVars, TypesOf, AccountTypes, StorageTypes, HeardTypes, ShownTypes,
                PageTypes, Fine
  <1> QED
    BY <1>0, <1>1, <1>2, <1>3, <1>4, <1>5, <1>6, <1>7, <1>8 DEF PagesTypes

LEMMA PagesTypesStep == ASSUME PagesInv, PagesTypes, [Next]_vars PROVE PagesTypes'
  <1>1. ASSUME Next PROVE PagesTypes'
    <2>0. part' = part /\ part \in Parts
      BY <1>1 DEF Next, PagesInv
    <2>1. CASE part \in {"desk", "search"}
      BY <2>0, <2>1 DEF PagesTypes
    <2>2. CASE part = "sends"
      BY PartsAssumption, <1>1, <2>0, <2>2, SendsTypesStep DEF Next, PagesInv, PagesTypes
    <2>3. CASE part = "draft"
      BY PartsAssumption, <1>1, <2>0, <2>3, DraftTypesStep DEF Next, PagesInv, PagesTypes
    <2>4. CASE part = "answers"
      BY PartsAssumption, <1>1, <2>0, <2>4, AnswersTypesStep DEF Next, PagesInv, PagesTypes
    <2>5. CASE part = "profile"
      BY PartsAssumption, <1>1, <2>0, <2>5, ProfileTypesStep DEF Next, PagesInv, PagesTypes
    <2>6. CASE part = "sync"
      BY PartsAssumption, <1>1, <2>0, <2>6, SyncTypesStep DEF Next, PagesInv, PagesTypes
    <2>7. CASE part = "upload"
      BY PartsAssumption, <1>1, <2>0, <2>7, UploadTypesStep DEF Next, PagesInv, PagesTypes
    <2>8. CASE part = "slot"
      BY PartsAssumption, <1>1, <2>0, <2>8, SlotTypesStep DEF Next, PagesInv, PagesTypes
    <2>9. CASE part = "work"
      BY PartsAssumption, <1>1, <2>0, <2>9, WorkTypesStep DEF Next, PagesInv, PagesTypes
    <2>10. CASE part = "login"
      BY SessionNumbers, LoginIsAny, <1>1, <2>0, <2>10, SessionTypesStep
         DEF Next, PagesInv, PagesTypes
    <2>11. CASE part = "retry"
      BY SessionNumbers, RetryIsAny, <1>1, <2>0, <2>11, SessionTypesStep
         DEF Next, PagesInv, PagesTypes
    <2> QED
      BY <2>0, <2>1, <2>2, <2>3, <2>4, <2>5, <2>6, <2>7, <2>8, <2>9, <2>10, <2>11 DEF Parts
  <1> QED
    BY <1>1, PagesTypesRest

\* The variables of every part have their types, for any number of tabs, requests,
\* rows and users.
THEOREM PagesTypeOK == Spec => []TypeOK
  <1> QED
    BY PartsHold, PagesTypesStart, PagesTypesStep, PagesTyped, PTL DEF Spec
=============================================================================
