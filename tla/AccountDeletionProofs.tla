----------------------- MODULE AccountDeletionProofs -----------------------
(***************************************************************************)
(* Proofs about AccountDeletion, for any number of rows, providers, files  *)
(* and calls.  The four safety properties lean on where a call stands: a   *)
(* call that cleans up does so on an account that is no longer active, so  *)
(* nothing its steps have established can be undone by the user.           *)
(***************************************************************************)
EXTENDS AccountDeletion, TLAPS

\* What is true of a call by its place.
PlacedAt(r) ==
    /\ req[r].pc \in {"look", "abandon", "list", "sweep", "remove"} => ~req[r].own
    /\ Cleaning(r) => account # "active"
    /\ Cleaning(r) /\ req[r].pc # "look" => grant # "live"
    /\ req[r].pc = "sweep" => objects \subseteq req[r].files
    /\ req[r].pc = "remove" => objects = {}
    /\ req[r].pc \in {"remote", "finish"} => req[r].at \in Providers

Placed == \A r \in Requests : PlacedAt(r)

IInv ==
    /\ AccountTypeOK
    /\ Placed
    /\ DrainedBeforeCleanup
    /\ NothingInFlight
    /\ NoFileLeft
    /\ GrantWasRevoked

\* The initial state satisfies the invariant.
LEMMA InitIInv == AccountInit => IInv
<1> SUFFICES ASSUME AccountInit PROVE IInv
    OBVIOUS
<1> USE AccountAssumption DEF AccountInit
<1>1. AccountTypeOK
    BY DEF AccountTypeOK, CallStates, Idle, Pcs
<1>2. Placed /\ DrainedBeforeCleanup
    BY DEF Placed, PlacedAt, DrainedBeforeCleanup, Cleaning, Idle
<1>3. NothingInFlight /\ NoFileLeft /\ GrantWasRevoked
    BY DEF NothingInFlight, NoFileLeft, GrantWasRevoked
<1> QED
    BY <1>1, <1>2, <1>3 DEF IInv

\* What the user does.
LEMMA UserStep == IInv /\ UserActs => IInv'
<1> SUFFICES ASSUME IInv, UserActs PROVE IInv'
    OBVIOUS
<1> USE AccountAssumption DEF IInv, workVars, browserVars, ActiveAccount
<1>1. ASSUME NEW j \in Jobs, Enqueue(j) \/ CancelJob(j) \/ Reconcile(j) PROVE IInv'
  <2>1. AccountTypeOK'
    BY <1>1 DEF AccountTypeOK, Enqueue, CancelJob, Reconcile
  <2>2. account = "active" /\ account' = "active" /\ req' = req
        /\ objects' = objects /\ grant' = grant
    BY <1>1 DEF Enqueue, CancelJob, Reconcile
  <2>3. \A r \in Requests : ~Cleaning(r) /\ ~Cleaning(r)'
    BY <2>2 DEF Placed, PlacedAt, Cleaning
  <2> QED
    BY <2>1, <2>2, <2>3 DEF Placed, PlacedAt, DrainedBeforeCleanup, NothingInFlight,
       NoFileLeft, GrantWasRevoked, Cleaning
<1>2. ASSUME NEW f \in Files, Upload(f) PROVE IInv'
  <2>1. AccountTypeOK'
    BY <1>2 DEF AccountTypeOK, Upload
  <2>2. account = "active" /\ account' = "active" /\ req' = req /\ grant' = grant
    BY <1>2 DEF Upload
  <2>3. \A r \in Requests : ~Cleaning(r) /\ ~Cleaning(r)'
    BY <2>2 DEF Placed, PlacedAt, Cleaning
  <2> QED
    BY <2>1, <2>2, <2>3 DEF Placed, PlacedAt, DrainedBeforeCleanup, NothingInFlight,
       NoFileLeft, GrantWasRevoked, Cleaning
<1>3. CASE ConnectGmail
  <2>1. AccountTypeOK'
    BY <1>3 DEF AccountTypeOK, ConnectGmail
  <2>2. account = "active" /\ account' = "active" /\ req' = req /\ objects' = objects
    BY <1>3 DEF ConnectGmail
  <2>3. \A r \in Requests : ~Cleaning(r) /\ ~Cleaning(r)'
    BY <2>2 DEF Placed, PlacedAt, Cleaning
  <2> QED
    BY <2>1, <2>2, <2>3 DEF Placed, PlacedAt, DrainedBeforeCleanup, NothingInFlight,
       NoFileLeft, GrantWasRevoked, Cleaning
<1>4. ASSUME NEW p \in Providers, Start(p) \/ SaveContext(p) \/ Complete(p) \/ AbortStart(p)
      PROVE IInv'
  <2>1. AccountTypeOK'
    <3>1. CASE AbortStart(p)
      <4>1. /\ conn' \in [Providers -> BOOLEAN] /\ remote' \in [Providers -> BOOLEAN]
            /\ loginLife' = [loginLife EXCEPT ![p] = IF conn'[p] THEN "connected" ELSE "disconnected"]
        BY <3>1 DEF AbortStart, AccountTypeOK
      <4> QED
        BY <3>1, <4>1 DEF AbortStart, AccountTypeOK
    <3>2. CASE Start(p)
      <4>1. loginGen[p] \in 0..MaxLogins /\ loginGen[p] < MaxLogins - 1
        BY <3>2 DEF Start, AccountTypeOK
      <4>2. loginGen[p] + 1 \in 0..MaxLogins
        BY <4>1
      <4> QED
        BY <3>2, <4>2 DEF Start, AccountTypeOK
    <3> QED
      BY <1>4, <3>1, <3>2 DEF AccountTypeOK, SaveContext, Complete
  <2>2. /\ account' = account /\ req' = req /\ objects' = objects /\ grant' = grant
        /\ job' = job /\ sending' = sending
    BY <1>4 DEF Start, SaveContext, Complete, AbortStart
  <2>3. account = "active"
    BY <1>4 DEF Start, SaveContext, Complete, AbortStart, NothingInFlight, AccountTypeOK
  <2> QED
    BY <2>1, <2>2, <2>3 DEF Placed, PlacedAt, DrainedBeforeCleanup, NothingInFlight,
       NoFileLeft, GrantWasRevoked, Cleaning, Busy
<1> QED
    BY <1>1, <1>2, <1>3, <1>4 DEF UserActs

\* What the workers and the clock do: no row becomes busy again once all are over.
LEMMA WorkStep == ASSUME IInv, NEW j \in Jobs, Work(j) PROVE IInv'
<1> USE AccountAssumption DEF IInv, browserVars
<1>1. AccountTypeOK'
    BY DEF AccountTypeOK, Work, Claim, SettleSend, FinishJob, Lapse, Recover, LetGo
<1>2. /\ account' = account /\ req' = req /\ objects' = objects /\ grant' = grant
      /\ loginLife' = loginLife /\ sending' \subseteq sending
    BY DEF Work, Claim, SettleSend, FinishJob, Lapse, Recover, LetGo
<1>3. ASSUME NEW k \in Jobs, Busy(k)' PROVE Busy(k)
    BY <1>3 DEF AccountTypeOK, Busy, Work, Claim, SettleSend, FinishJob, Lapse, Recover, LetGo
<1> QED
    BY <1>1, <1>2, <1>3 DEF Placed, PlacedAt, DrainedBeforeCleanup, NothingInFlight,
       NoFileLeft, GrantWasRevoked, Cleaning

\* A call that has ended.
LEMMA IdleIsCall == Idle \in CallStates
BY AccountAssumption DEF Idle, CallStates, Pcs

\* A call that moves to another place, or ends, leaves the others alone.
LEMMA Moves ==
    ASSUME AccountTypeOK, NEW r \in Requests, NEW v \in CallStates, req' = [req EXCEPT ![r] = v]
    PROVE  /\ req' \in [Requests -> CallStates]
           /\ req'[r] = v
           /\ \A s \in Requests : s # r => req'[s] = req[s]
BY DEF AccountTypeOK

LEMMA GoesMoves ==
    ASSUME AccountTypeOK, NEW r \in Requests, NEW pc \in Pcs, Goes(r, pc)
    PROVE  /\ req' \in [Requests -> CallStates]
           /\ req'[r] = [req[r] EXCEPT !.pc = pc]
           /\ \A s \in Requests : s # r => req'[s] = req[s]
<1>1. [req[r] EXCEPT !.pc = pc] \in CallStates
    BY DEF AccountTypeOK, CallStates
<1>2. req' = [req EXCEPT ![r] = [req[r] EXCEPT !.pc = pc]]
    BY DEF Goes
<1> QED
    BY <1>1, <1>2, Moves

LEMMA EndsMoves ==
    ASSUME AccountTypeOK, NEW r \in Requests, Ends(r)
    PROVE  /\ req' \in [Requests -> CallStates]
           /\ req'[r] = Idle
           /\ \A s \in Requests : s # r => req'[s] = req[s]
BY IdleIsCall, Moves DEF Ends

\* The other calls stay placed while the account stays and files and token only go.
LEMMA OthersPlaced ==
    ASSUME Placed, NEW r \in Requests, PlacedAt(r)',
           \A s \in Requests : s # r => req'[s] = req[s],
           account # "active" => account' # "active",
           objects' \subseteq objects, grant' = "live" => grant = "live"
    PROVE  Placed'
BY DEF Placed, PlacedAt, Cleaning

\* The drain.
LEMMA BeginStep == ASSUME IInv, NEW r \in Requests, BeginDeletion(r) PROVE IInv'
<1> USE AccountAssumption DEF IInv, browserVars
<1>1. /\ account' = "deleting" /\ account # "gone" /\ sending' = {}
      /\ objects' = objects /\ grant' = grant /\ loginLife' = loginLife
      /\ \A p \in Providers : loginLife[p] # "connecting"
    BY DEF BeginDeletion, MayBegin, BrowsersQuiet
<1>2. ASSUME NEW k \in Jobs, job[k] # "running" PROVE ~Busy(k)'
    BY <1>2 DEF BeginDeletion, Busy, AccountTypeOK
<1>3. job' \in [Jobs -> {"none", "queued", "running", "lapsed", "over"}]
      /\ asked' \in [Jobs -> BOOLEAN]
    BY DEF BeginDeletion, AccountTypeOK, Busy
<1>4. CASE \E k \in Jobs : job[k] = "running"
  <2>1. req' = req
    BY <1>4 DEF BeginDeletion
  <2>2. \A s \in Requests : ~Cleaning(s)
    BY <1>4 DEF DrainedBeforeCleanup, Busy
  <2>3. AccountTypeOK'
    BY <1>1, <1>3, <2>1 DEF AccountTypeOK, BeginDeletion
  <2> QED
    BY <1>1, <2>1, <2>2, <2>3 DEF Placed, PlacedAt, Cleaning, DrainedBeforeCleanup,
       NothingInFlight, NoFileLeft, GrantWasRevoked
<1>5. CASE ~ \E k \in Jobs : job[k] = "running"
  <2>1. Goes(r, "look") /\ req[r] = Idle
    BY <1>5 DEF BeginDeletion
  <2>2. /\ req' \in [Requests -> CallStates]
        /\ req'[r] = [Idle EXCEPT !.pc = "look"]
        /\ \A s \in Requests : s # r => req'[s] = req[s]
    BY <2>1, GoesMoves DEF Pcs
  <2>3. AccountTypeOK'
    BY <1>1, <1>3, <2>2 DEF AccountTypeOK, BeginDeletion
  <2>4. PlacedAt(r)'
    BY <1>1, <2>2 DEF PlacedAt, Cleaning, Idle
  <2>5. Placed'
    BY <1>1, <2>2, <2>4, OthersPlaced
  <2> QED
    BY <1>1, <1>2, <1>5, <2>3, <2>5 DEF DrainedBeforeCleanup, NothingInFlight,
       NoFileLeft, GrantWasRevoked
<1> QED
    BY <1>4, <1>5

\* The removal of the user: what was established for the account is final.
LEMMA RemoveStep == ASSUME IInv, NEW r \in Requests, RemoveUser(r) PROVE IInv'
<1> USE AccountAssumption DEF IInv
<1>1. objects = {} /\ grant # "live"
    BY DEF RemoveUser, Placed, PlacedAt, Cleaning
<1>2. /\ req' \in [Requests -> CallStates]
      /\ req'[r] = Idle
      /\ \A s \in Requests : s # r => req'[s] = req[s]
    BY EndsMoves DEF RemoveUser
<1>3. /\ account' = "gone" /\ sending' = {} /\ objects' = objects /\ grant' = grant
      /\ \A k \in Jobs : ~Busy(k)'
      /\ \A p \in Providers : loginLife'[p] = "disconnected"
    BY DEF RemoveUser, Busy
<1>4. AccountTypeOK'
    BY <1>2 DEF AccountTypeOK, RemoveUser
<1>5. PlacedAt(r)'
    BY <1>2 DEF PlacedAt, Cleaning, Idle
<1>6. Placed'
    BY <1>2, <1>3, <1>5, OthersPlaced
<1> QED
    BY <1>1, <1>3, <1>4, <1>6 DEF DrainedBeforeCleanup, NothingInFlight, NoFileLeft,
       GrantWasRevoked

\* The other steps of a call: the account and its rows stay, and files, token
\* and logins only go.
LEMMA QuietStep ==
    ASSUME IInv, NEW r \in Requests,
           account' = account, job' = job, sending' = sending,
           objects' \subseteq objects, grant' = "live" => grant = "live",
           \A p \in Providers : loginLife'[p] = "connecting" => loginLife[p] = "connecting",
           \A s \in Requests : s # r => req'[s] = req[s],
           AccountTypeOK', PlacedAt(r)', Cleaning(r)' => Cleaning(r)
    PROVE  IInv'
<1>1. Placed'
    BY OthersPlaced DEF IInv
<1>2. DrainedBeforeCleanup'
    BY DEF IInv, DrainedBeforeCleanup, Cleaning, Busy
<1> QED
    BY <1>1, <1>2 DEF IInv, NothingInFlight, NoFileLeft, GrantWasRevoked

LEMMA CallStep ==
    ASSUME IInv, NEW r \in Requests,
           Call(r) \/ CutOffCall(r) \/ \E p \in Providers : Own(r, p)
    PROVE  IInv'
<1> USE AccountAssumption DEF IInv, workVars, browserVars
<1> DEFINE Moved(v) == /\ v \in CallStates
                       /\ req' \in [Requests -> CallStates]
                       /\ req'[r] = v
                       /\ \A s \in Requests : s # r => req'[s] = req[s]
<1>1. req[r] \in CallStates /\ PlacedAt(r)
    BY DEF AccountTypeOK, Placed
<1>2. ASSUME NEW v \in CallStates, req' = [req EXCEPT ![r] = v] PROVE Moved(v)
    BY <1>2, Moves
<1>3. ASSUME NEW pc \in Pcs, Goes(r, pc) PROVE Moved([req[r] EXCEPT !.pc = pc])
  <2>1. [req[r] EXCEPT !.pc = pc] \in CallStates
    BY <1>1 DEF CallStates
  <2> QED
    BY <1>3, <2>1, GoesMoves
<1>4. ASSUME Ends(r) PROVE Moved(Idle)
    BY <1>4, IdleIsCall, EndsMoves
<1>5. ASSUME Fails(r) PROVE Moved(Idle) \/ (~req[r].own /\ Moved([req[r] EXCEPT !.pc = "abandon"]))
  <2> HIDE DEF Moved
  <2>1. "abandon" \in Pcs
    BY DEF Pcs
  <2>2. CASE req[r].own
    <3>1. Ends(r)
      BY <1>5, <2>2, Zenon DEF Fails
    <3>2. Moved(Idle)
      BY <1>4, <3>1
    <3> QED
      BY <3>2
  <2>3. CASE ~req[r].own
    BY <1>3, <1>5, <2>1, <2>3, Zenon DEF Fails
  <2> QED
    BY <2>2, <2>3, Zenon
<1> HIDE DEF Moved
<1>6. CASE ReadLogins(r)
  <2> DEFINE rows == {p \in Providers : conn[p]}
             v == [req[r] EXCEPT !.pc = IF rows = {} THEN "list" ELSE "walk", !.todo = rows]
  <2>1. Moved(v)
    <3>1. v \in CallStates
      BY <1>1 DEF CallStates, Pcs
    <3>2. req' = [req EXCEPT ![r] = v]
      BY <1>6 DEF ReadLogins
    <3> QED
      BY <1>2, <3>1, <3>2
  <2>2. /\ req'[r].pc \in {"list", "walk"} /\ req'[r].own = req[r].own
        /\ req[r].pc = "look" /\ ~req[r].own /\ account # "active"
    BY <1>1, <1>6, <2>1 DEF Moved, ReadLogins, CallStates, PlacedAt, Cleaning
  <2>3. grant' # "live" /\ grant' \in {"none", "live", "left"}
    BY <1>6 DEF ReadLogins, AccountTypeOK
  <2>4. AccountTypeOK'
    BY <1>6, <2>1, <2>3 DEF AccountTypeOK, Moved, ReadLogins
  <2>5. PlacedAt(r)' /\ (Cleaning(r)' => Cleaning(r))
    BY <1>6, <2>2, <2>3 DEF PlacedAt, Cleaning, ReadLogins
  <2> QED
    BY <1>6, <2>1, <2>3, <2>4, <2>5, QuietStep DEF Moved, ReadLogins
<1>7. CASE RowsDone(r)
  <2>1. Moved(Idle) \/ (~req[r].own /\ Moved([req[r] EXCEPT !.pc = "list"]))
    <3>1. "list" \in Pcs
      BY DEF Pcs
    <3>2. CASE req[r].own
      <4>1. Ends(r)
        BY <1>7, <3>2, Zenon DEF RowsDone
      <4>2. Moved(Idle)
        BY <1>4, <4>1
      <4> QED
        BY <4>2
    <3>3. CASE ~req[r].own
      BY <1>3, <1>7, <3>1, <3>3, Zenon DEF RowsDone
    <3> QED
      BY <3>2, <3>3, Zenon
  <2>2. AccountTypeOK'
    BY <1>7, <2>1 DEF AccountTypeOK, Moved, RowsDone
  <2>3. PlacedAt(r)' /\ (Cleaning(r)' => Cleaning(r))
    BY <1>7, <1>1, <2>1 DEF Moved, PlacedAt, Cleaning, CallStates, Idle, RowsDone
  <2> QED
    BY <1>7, <2>1, <2>2, <2>3, QuietStep DEF Moved, RowsDone
<1>8. CASE DeleteContext(r)
  <2>1. Moved([req[r] EXCEPT !.pc = "finish"])
    BY <1>3, <1>8 DEF DeleteContext, Pcs
  <2>2. AccountTypeOK'
    BY <1>8, <2>1 DEF AccountTypeOK, Moved, DeleteContext
  <2>3. PlacedAt(r)' /\ (Cleaning(r)' => Cleaning(r))
    BY <1>8, <1>1, <2>1 DEF Moved, PlacedAt, Cleaning, CallStates, Idle, DeleteContext
  <2> QED
    BY <1>8, <2>1, <2>2, <2>3, QuietStep DEF Moved, DeleteContext
<1>9. CASE ContextStays(r)
  <2>1. Moved(Idle) \/ (~req[r].own /\ Moved([req[r] EXCEPT !.pc = "abandon"]))
    BY <1>5, <1>9 DEF ContextStays
  <2>2. AccountTypeOK'
    BY <1>9, <2>1 DEF AccountTypeOK, Moved, ContextStays
  <2>3. PlacedAt(r)' /\ (Cleaning(r)' => Cleaning(r))
    BY <1>9, <1>1, <2>1 DEF Moved, PlacedAt, Cleaning, CallStates, Idle, ContextStays
  <2> QED
    BY <1>9, <2>1, <2>2, <2>3, QuietStep DEF Moved, ContextStays
<1>10. CASE FinishRefused(r)
  <2>1. Moved(Idle) \/ (~req[r].own /\ Moved([req[r] EXCEPT !.pc = "abandon"]))
    BY <1>5, <1>10 DEF FinishRefused
  <2>2. AccountTypeOK'
    BY <1>10, <2>1 DEF AccountTypeOK, Moved, FinishRefused
  <2>3. PlacedAt(r)' /\ (Cleaning(r)' => Cleaning(r))
    BY <1>10, <1>1, <2>1 DEF Moved, PlacedAt, Cleaning, CallStates, Idle, FinishRefused
  <2> QED
    BY <1>10, <2>1, <2>2, <2>3, QuietStep DEF Moved, FinishRefused
<1>11. CASE FinishDisconnect(r)
  <2> DEFINE v == [req[r] EXCEPT !.pc = "walk", !.todo = @ \ {req[r].at}, !.at = NoProvider]
  <2>1. Moved(v)
    <3>1. v \in CallStates
      BY <1>1 DEF CallStates, Pcs
    <3>2. req' = [req EXCEPT ![r] = v]
      BY <1>11 DEF FinishDisconnect
    <3> QED
      BY <1>2, <3>1, <3>2
  <2>2. req'[r].pc = "walk" /\ req'[r].own = req[r].own /\ req[r].pc = "finish"
    BY <1>1, <1>11, <2>1 DEF Moved, FinishDisconnect, CallStates
  <2>3. \A q \in Providers : loginLife'[q] = "connecting" => loginLife[q] = "connecting"
    BY <1>11 DEF AccountTypeOK, FinishDisconnect
  <2>4. AccountTypeOK'
    BY <1>11, <2>1 DEF AccountTypeOK, Moved, FinishDisconnect
  <2>5. PlacedAt(r)' /\ (Cleaning(r)' => Cleaning(r))
    BY <1>1, <1>11, <2>2 DEF PlacedAt, Cleaning, FinishDisconnect
  <2> QED
    BY <1>11, <2>1, <2>3, <2>4, <2>5, QuietStep DEF Moved, FinishDisconnect
<1>12. CASE Abandon(r)
  <2>1. Moved(Idle) \/ Moved([req[r] EXCEPT !.pc = "list"])
    BY <1>3, <1>4, <1>12 DEF Abandon, Pcs
  <2>2. loginGen' \in [Providers -> 0..MaxLogins]
    <3>1. CASE UNCHANGED browserVars
      BY <3>1 DEF AccountTypeOK
    <3>2. CASE ~ UNCHANGED browserVars
      <4>1. loginGen' = [p \in Providers |->
                     IF loginLife[p] = "disconnected" THEN loginGen[p]
                     ELSE IF loginGen[p] < MaxLogins THEN loginGen[p] + 1 ELSE MaxLogins]
        BY <1>12, <3>2 DEF Abandon
      <4>2. ASSUME NEW p \in Providers PROVE loginGen[p] \in 0..MaxLogins
        BY DEF AccountTypeOK
      <4> QED
        BY <4>1, <4>2
    <3> QED
      BY <3>1, <3>2
  <2>3. AccountTypeOK'
    <3>1. req' \in [Requests -> CallStates]
      BY <2>1 DEF Moved
    <3>2. conn' \in [Providers -> BOOLEAN] /\ remote' = remote
          /\ loginLife' \in [Providers ->
                          {"connecting", "connected", "disconnecting", "disconnected"}]
      <4>1. CASE UNCHANGED browserVars
        BY <4>1 DEF AccountTypeOK
      <4>2. CASE ~ UNCHANGED browserVars
        BY <1>12, <4>2 DEF Abandon
      <4> QED
        BY <4>1, <4>2
    <3> QED
      BY <1>12, <2>2, <3>1, <3>2 DEF AccountTypeOK, Abandon
  <2>4. PlacedAt(r)' /\ (Cleaning(r)' => Cleaning(r))
    BY <1>1, <1>12, <2>1 DEF Moved, PlacedAt, Cleaning, CallStates, Idle, Abandon
  <2>5. \A q \in Providers : loginLife'[q] = "connecting" => loginLife[q] = "connecting"
    BY <1>12 DEF Abandon
  <2> QED
    BY <1>12, <2>1, <2>3, <2>4, <2>5, QuietStep DEF Moved, Abandon
<1>13. CASE List(r)
  <2> DEFINE v == [req[r] EXCEPT !.pc = "sweep", !.files = objects]
  <2>1. Moved(v)
    <3>1. v \in CallStates
      BY <1>1 DEF CallStates, Pcs, AccountTypeOK
    <3>2. req' = [req EXCEPT ![r] = v]
      BY <1>13 DEF List
    <3> QED
      BY <1>2, <3>1, <3>2
  <2>2. /\ req'[r].pc = "sweep" /\ req'[r].own = req[r].own /\ req'[r].files = objects
        /\ req[r].pc = "list"
    BY <1>1, <1>13, <2>1 DEF Moved, List, CallStates
  <2>3. AccountTypeOK'
    BY <1>13, <2>1 DEF AccountTypeOK, Moved, List
  <2>4. PlacedAt(r)' /\ (Cleaning(r)' => Cleaning(r))
    BY <1>1, <1>13, <2>2 DEF PlacedAt, Cleaning, List
  <2> QED
    BY <1>13, <2>1, <2>3, <2>4, QuietStep DEF Moved, List
<1>14. CASE Sweep(r)
  <2>1. Moved([req[r] EXCEPT !.pc = "remove"])
    BY <1>3, <1>14 DEF Sweep, Pcs
  <2>2. AccountTypeOK'
    BY <1>14, <2>1 DEF AccountTypeOK, Moved, Sweep
  <2>3. PlacedAt(r)' /\ (Cleaning(r)' => Cleaning(r))
    BY <1>14, <1>1, <2>1 DEF Moved, PlacedAt, Cleaning, CallStates, Idle, Sweep
  <2> QED
    BY <1>14, <2>1, <2>2, <2>3, QuietStep DEF Moved, Sweep
<1>15. ASSUME NEW p \in Providers, BeginDisconnect(r, p) PROVE IInv'
  <2> DEFINE g == IF loginLife[p] = "disconnecting" THEN loginGen[p] ELSE loginGen[p] + 1
             v == [req[r] EXCEPT !.pc = "remote", !.at = p, !.gen = g]
  <2>1. g \in 0..MaxLogins
    BY <1>15 DEF BeginDisconnect, AccountTypeOK
  <2>2. Moved(v)
    <3>1. v \in CallStates
      BY <1>1, <2>1 DEF CallStates, Pcs
    <3>2. req' = [req EXCEPT ![r] = v]
      BY <1>15 DEF BeginDisconnect
    <3> QED
      BY <1>2, <3>1, <3>2
  <2>3. /\ req'[r].pc = "remote" /\ req'[r].own = req[r].own /\ req'[r].at = p
        /\ req[r].pc = "walk"
    BY <1>1, <1>15, <2>2 DEF Moved, BeginDisconnect, CallStates
  <2>4. loginGen' = [loginGen EXCEPT ![p] = g] /\ loginLife' = [loginLife EXCEPT ![p] = "disconnecting"]
    BY <1>15 DEF BeginDisconnect
  <2>5. AccountTypeOK'
    BY <1>15, <2>1, <2>2, <2>4 DEF AccountTypeOK, Moved, BeginDisconnect
  <2>6. PlacedAt(r)' /\ (Cleaning(r)' => Cleaning(r))
    BY <1>1, <1>15, <2>3 DEF PlacedAt, Cleaning, BeginDisconnect
  <2>7. \A q \in Providers : loginLife'[q] = "connecting" => loginLife[q] = "connecting"
    BY <2>4 DEF AccountTypeOK
  <2> QED
    BY <1>15, <2>2, <2>5, <2>6, <2>7, QuietStep DEF Moved, BeginDisconnect
<1>16. ASSUME NEW p \in Providers, SkipRow(r, p) PROVE IInv'
  <2> DEFINE v == [req[r] EXCEPT !.todo = @ \ {p}]
  <2>1. Moved(v)
    <3>1. v \in CallStates
      BY <1>1 DEF CallStates
    <3>2. req' = [req EXCEPT ![r] = v]
      BY <1>16 DEF SkipRow
    <3> QED
      BY <1>2, <3>1, <3>2
  <2>2. req'[r].pc = "walk" /\ req'[r].own = req[r].own /\ req[r].pc = "walk"
    BY <1>1, <1>16, <2>1 DEF Moved, SkipRow, CallStates
  <2>3. AccountTypeOK'
    BY <1>16, <2>1 DEF AccountTypeOK, Moved, SkipRow
  <2>4. PlacedAt(r)' /\ (Cleaning(r)' => Cleaning(r))
    BY <1>1, <1>16, <2>2 DEF PlacedAt, Cleaning, SkipRow
  <2> QED
    BY <1>16, <2>1, <2>3, <2>4, QuietStep DEF Moved, SkipRow
<1>17. CASE CutOffCall(r)
  <2>1. Moved(Idle)
    BY <1>4, <1>17 DEF CutOffCall
  <2>2. AccountTypeOK'
    BY <1>17, <2>1 DEF AccountTypeOK, Moved, CutOffCall
  <2>3. PlacedAt(r)' /\ (Cleaning(r)' => Cleaning(r))
    BY <2>1 DEF Moved, PlacedAt, Cleaning, Idle
  <2> QED
    BY <1>17, <2>1, <2>2, <2>3, QuietStep DEF Moved, CutOffCall
<1>18. ASSUME NEW p \in Providers, Own(r, p) PROVE IInv'
  <2> DEFINE v == [Idle EXCEPT !.pc = "walk", !.own = TRUE, !.todo = {p}]
  <2>1. Moved(v)
    <3>1. v \in CallStates
      BY IdleIsCall DEF CallStates, Pcs
    <3>2. req' = [req EXCEPT ![r] = v]
      BY <1>18 DEF Own
    <3> QED
      BY <1>2, <3>1, <3>2
  <2>2. req'[r].pc = "walk" /\ req'[r].own
    BY <2>1 DEF Moved, Idle
  <2>3. AccountTypeOK'
    BY <1>18, <2>1 DEF AccountTypeOK, Moved, Own
  <2>4. PlacedAt(r)' /\ (Cleaning(r)' => Cleaning(r))
    BY <2>2 DEF PlacedAt, Cleaning
  <2> QED
    BY <1>18, <2>1, <2>3, <2>4, QuietStep DEF Moved, Own
<1> QED
    BY <1>6, <1>7, <1>8, <1>9, <1>10, <1>11, <1>12, <1>13, <1>14, <1>15, <1>16,
       <1>17, <1>18, RemoveStep DEF Call

\* Every step keeps the invariant.
LEMMA NextIInv == IInv /\ [AccountNext]_accountVars => IInv'
<1> SUFFICES ASSUME IInv, [AccountNext]_accountVars PROVE IInv'
    OBVIOUS
<1>1. CASE UNCHANGED accountVars
    BY <1>1 DEF IInv, accountVars, workVars, browserVars, AccountTypeOK, Placed, PlacedAt,
        DrainedBeforeCleanup,
       NothingInFlight, NoFileLeft, GrantWasRevoked, Cleaning, Busy
<1> QED
    BY <1>1, UserStep, WorkStep, BeginStep, CallStep DEF AccountNext

\* The inductive invariant holds in every reachable state.
THEOREM AccountInvariant == AccountSpec => []IInv
<1> QED
    BY InitIInv, NextIInv, PTL DEF AccountSpec

\* Type correctness of the account, its rows and its calls.
THEOREM TypeCorrect == AccountSpec => []AccountTypeOK
<1>1. IInv => AccountTypeOK
    BY DEF IInv
<1> QED
    BY AccountInvariant, <1>1, PTL

\* Clean-up never overlaps with a row that waits or runs, and an account that is
\* being deleted sends nothing and starts no login.
THEOREM DrainIsComplete == AccountSpec => []DrainHolds
<1>1. IInv => DrainHolds
    BY DEF IInv, DrainHolds
<1> QED
    BY AccountInvariant, <1>1, PTL

\* What is private goes with the user: no file and no untried token is left.
THEOREM PrivateDataGoes == AccountSpec => []NothingIsLeft
<1>1. IInv => NothingIsLeft
    BY DEF IInv, NothingIsLeft
<1> QED
    BY AccountInvariant, <1>1, PTL

=============================================================================
