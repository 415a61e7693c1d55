----------------------- MODULE GmailConnectionProofs -----------------------
(***************************************************************************)
(* What GmailConnection promises, proved for any number of flows and        *)
(* disconnects and any bound on the generations.                            *)
(***************************************************************************)
EXTENDS GmailConnection, TLAPS

\* Generations only grow, and no row nor flow is ahead of the lifecycle: a row of
\* the current generation is there only while the lifecycle is connected.
Behind ==
    /\ \A f \in Flows : flow[f].gen <= gen
    /\ row # None => row.gen <= gen
    /\ row # None /\ life # "connected" => row.gen < gen
    /\ life = "connecting" => gen # 0

\* A flow that may still save was started with a client that is still there, and
\* has been compared with the row it would keep the refresh token of.
Awaited(f) ==
    flow[f].phase \in {"asked", "back", "issued", "looked"} /\ flow[f].gen = gen
        /\ life = "connecting"

Current ==
    /\ \A f \in Flows : Awaited(f) => flow[f].cred \in {Platform, client}
    /\ \A f \in Flows : Awaited(f) /\ flow[f].phase = "looked" /\ ~flow[f].full /\ row # None
                           => row.cred = flow[f].cred

\* The flow that gave the refresh token on file is past changing its client.
TokenIsGiven == row # None => flow[row.token].phase \in {"failed", "over"}

IInv ==
    /\ GmailTypeOK /\ ConnectedIsCurrent /\ DisconnectedIsEmpty /\ TokenFitsItsClient
    /\ PendingKeepsConnection /\ Behind /\ Current /\ TokenIsGiven

USE DEF Platform

LEMMA InitIInv == GmailInit => IInv
  <1> SUFFICES ASSUME GmailInit PROVE IInv
    OBVIOUS
  <1>1. \A f \in Flows : flow[f] = [phase |-> "new", gen |-> 0, cred |-> 0, full |-> FALSE]
    BY DEF GmailInit
  <1>2. flow \in [Flows -> FlowRecs]
    BY GmailAssumption DEF GmailInit, FlowRecs
  <1>3. disc \in [Disconnects -> DiscRecs]
    BY GmailAssumption DEF GmailInit, DiscRecs
  <1>4. gen \in 0..MaxGen /\ client \in 0..gen
    BY GmailAssumption DEF GmailInit
  <1>5. GmailTypeOK
    BY <1>2, <1>3, <1>4 DEF GmailInit, GmailTypeOK
  <1> QED
    BY <1>1, <1>5
    DEF GmailInit, IInv, ConnectedIsCurrent, DisconnectedIsEmpty, TokenFitsItsClient,
        PendingKeepsConnection, Behind, Current, Awaited, TokenIsGiven

\* A step of a flow keeps the invariant.
LEMMA FlowStep ==
  ASSUME IInv, NEW f \in Flows, Flow(f)
  PROVE  IInv'
<1>1. CASE Choose(f)
  <2>1. PICK cred \in {0, client} :
            flow' = [flow EXCEPT ![f].phase = "chosen", ![f].cred = cred]
    BY <1>1 DEF Choose
  <2>2. flow[f].phase = "new" /\ cred \in 0..MaxGen
    BY <1>1, GmailAssumption DEF Choose, IInv, GmailTypeOK
  <2>3. flow' \in [Flows -> FlowRecs]
    BY <2>1, <2>2 DEF IInv, GmailTypeOK, FlowRecs
  <2>4. /\ flow'[f].phase = "chosen" /\ flow'[f].gen = flow[f].gen
        /\ \A g \in Flows \ {f} : flow'[g] = flow[g]
    BY <2>1 DEF IInv, GmailTypeOK, FlowRecs
  <2>5. UNCHANGED <<gen, life, state, row, client, pending, disc, dead>>
    BY <1>1 DEF Choose
  <2>6. GmailTypeOK'
    BY <2>3, <2>5 DEF IInv, GmailTypeOK
  <2>7. Behind' /\ Current'
    BY <2>4, <2>5 DEF IInv, GmailTypeOK, Behind, Current, Awaited, FlowRecs
  <2>8. TokenFitsItsClient' /\ TokenIsGiven'
    BY <2>2, <2>4, <2>5 DEF IInv, GmailTypeOK, TokenFitsItsClient, TokenIsGiven, Rows
  <2> QED
    BY <2>5, <2>6, <2>7, <2>8
    DEF IInv, ConnectedIsCurrent, DisconnectedIsEmpty, PendingKeepsConnection
<1>2. CASE CreateState(f)
    BY <1>2, GmailAssumption DEF CreateState, IInv, GmailTypeOK, ConnectedIsCurrent, DisconnectedIsEmpty,
        TokenFitsItsClient, PendingKeepsConnection, Behind, Current, Awaited, TokenIsGiven,
        FlowRecs, DiscRecs, Rows, Phase, Resolves, Quiet
<1>3. CASE CreateRefused(f)
    BY <1>3, GmailAssumption DEF CreateRefused, IInv, GmailTypeOK, ConnectedIsCurrent, DisconnectedIsEmpty,
        TokenFitsItsClient, PendingKeepsConnection, Behind, Current, Awaited, TokenIsGiven,
        FlowRecs, DiscRecs, Rows, Phase, Resolves, Quiet
<1>4. CASE Consume(f)
    BY <1>4, GmailAssumption DEF Consume, IInv, GmailTypeOK, ConnectedIsCurrent, DisconnectedIsEmpty,
        TokenFitsItsClient, PendingKeepsConnection, Behind, Current, Awaited, TokenIsGiven,
        FlowRecs, DiscRecs, Rows, Phase, Resolves, Quiet
<1>5. CASE Exchange(f)
  <2>1. CASE Phase(f, "over")
    BY <1>5, <2>1, GmailAssumption DEF Exchange, IInv, GmailTypeOK, ConnectedIsCurrent, DisconnectedIsEmpty,
          TokenFitsItsClient, PendingKeepsConnection, Behind, Current, Awaited, TokenIsGiven,
          FlowRecs, DiscRecs, Rows, Phase, Resolves, Quiet
  <2>2. CASE Resolves(f) /\ ~Phase(f, "over")
    <3>1. PICK full \in BOOLEAN :
              flow' = [flow EXCEPT ![f].phase = "issued", ![f].full = full]
      BY <1>5, <2>2 DEF Exchange
    <3>2. flow[f].phase = "back"
      BY <1>5 DEF Exchange
    <3>3. flow' \in [Flows -> FlowRecs]
      BY <3>1 DEF IInv, GmailTypeOK, FlowRecs
    <3>4. /\ flow'[f].phase = "issued" /\ flow'[f].gen = flow[f].gen
          /\ flow'[f].cred = flow[f].cred
          /\ \A g \in Flows \ {f} : flow'[g] = flow[g]
      BY <3>1 DEF IInv, GmailTypeOK, FlowRecs
    <3>5. UNCHANGED <<gen, life, state, row, client, pending, disc, dead>>
      BY <1>5 DEF Exchange
    <3>6. GmailTypeOK'
      BY <3>3, <3>5 DEF IInv, GmailTypeOK
    <3>7. Behind' /\ Current'
      BY <3>2, <3>4, <3>5 DEF IInv, GmailTypeOK, Behind, Current, Awaited, FlowRecs
    <3>8. TokenFitsItsClient' /\ TokenIsGiven'
      BY <3>2, <3>4, <3>5 DEF IInv, GmailTypeOK, TokenFitsItsClient, TokenIsGiven, Rows
    <3> QED
      BY <3>5, <3>6, <3>7, <3>8
      DEF IInv, ConnectedIsCurrent, DisconnectedIsEmpty, PendingKeepsConnection
  <2> QED
    BY <1>5, <2>1, <2>2 DEF Exchange
<1>6. CASE Look(f)
    BY <1>6, GmailAssumption DEF Look, IInv, GmailTypeOK, ConnectedIsCurrent, DisconnectedIsEmpty,
        TokenFitsItsClient, PendingKeepsConnection, Behind, Current, Awaited, TokenIsGiven,
        FlowRecs, DiscRecs, Rows, Phase, Resolves, Quiet, KeepsRefreshToken
<1>7. CASE Save(f)
  <2> DEFINE saved == [gen |-> flow[f].gen, token |-> IF flow[f].full THEN f ELSE row.token,
                       cred |-> flow[f].cred]
  <2>1. /\ row' = saved /\ life' = "connected" /\ life = "connecting"
        /\ gen = flow[f].gen /\ flow[f].phase = "looked" /\ (flow[f].full \/ row # None)
        /\ UNCHANGED <<gen, state, client, pending, disc, dead>>
    BY <1>7 DEF Save, MaySave
  <2>2. PICK p \in {"over", "failed"} : flow' = [flow EXCEPT ![f].phase = p]
    BY <1>7 DEF Save, Phase
  <2>3. flow' \in [Flows -> FlowRecs]
    BY <2>2 DEF IInv, GmailTypeOK, FlowRecs
  <2>4. /\ flow'[f].phase = p /\ \A g \in Flows \ {f} : flow'[g] = flow[g]
        /\ \A g \in Flows : flow'[g].gen = flow[g].gen /\ flow'[g].cred = flow[g].cred
    BY <2>2 DEF IInv, GmailTypeOK, FlowRecs
  <2>5. flow[f].gen \in 1..MaxGen /\ flow[f].cred \in {0, client} /\ flow[f].cred \in 0..MaxGen
    <3>1. Awaited(f)
      BY <2>1 DEF Awaited
    <3>2. flow[f].gen # 0
      BY <2>1 DEF IInv, Behind
    <3> QED
      BY <3>1, <3>2 DEF IInv, GmailTypeOK, Current, FlowRecs
  <2>6. /\ saved.token \in Flows /\ flow[saved.token].cred = flow[f].cred
        /\ saved.token = f \/ flow[saved.token].phase \in {"failed", "over"}
    <3>1. CASE flow[f].full
      BY <3>1
    <3>2. CASE ~flow[f].full
      BY <2>1, <3>2 DEF IInv, GmailTypeOK, Current, Awaited, TokenFitsItsClient, TokenIsGiven, Rows
    <3> QED
      BY <3>1, <3>2
  <2>7. row' \in Rows /\ row'.gen = gen /\ row'.cred = flow[f].cred /\ row'.token = saved.token
    BY <2>1, <2>5, <2>6 DEF Rows
  <2>8. row' # None
    BY <2>7, GmailAssumption DEF Rows
  <2>9. GmailTypeOK'
    BY <2>1, <2>3, <2>7 DEF IInv, GmailTypeOK
  <2>10. Behind' /\ Current'
    BY <2>1, <2>4, <2>7 DEF IInv, GmailTypeOK, Behind, Current, Awaited
  <2>11. TokenFitsItsClient' /\ TokenIsGiven'
    BY <2>1, <2>2, <2>4, <2>5, <2>6, <2>7 DEF TokenFitsItsClient, TokenIsGiven
  <2> QED
    BY <2>1, <2>7, <2>8, <2>9, <2>10, <2>11
    DEF IInv, ConnectedIsCurrent, DisconnectedIsEmpty, PendingKeepsConnection
<1>8. CASE SaveRefused(f)
    BY <1>8, GmailAssumption DEF SaveRefused, IInv, GmailTypeOK, ConnectedIsCurrent, DisconnectedIsEmpty,
        TokenFitsItsClient, PendingKeepsConnection, Behind, Current, Awaited, TokenIsGiven,
        FlowRecs, DiscRecs, Rows, Phase, Resolves, Quiet, MaySave
<1>9. CASE RevokeNew(f)
  <2>1. dead' \subseteq Flows
    BY <1>9 DEF RevokeNew, Revoked, IInv, GmailTypeOK
  <2>2. flow[f].phase = "failed" /\ flow' = [flow EXCEPT ![f].phase = "over"]
        /\ UNCHANGED <<gen, life, state, row, client, pending, disc>>
    BY <1>9 DEF RevokeNew, Phase
  <2> QED
    BY <2>1, <2>2, GmailAssumption
    DEF IInv, GmailTypeOK, ConnectedIsCurrent, DisconnectedIsEmpty,
          TokenFitsItsClient, PendingKeepsConnection, Behind, Current, Awaited, TokenIsGiven,
          FlowRecs, DiscRecs, Rows, Phase, Resolves, Quiet
<1>10. CASE CutOff(f)
    BY <1>10, GmailAssumption DEF CutOff, IInv, GmailTypeOK, ConnectedIsCurrent, DisconnectedIsEmpty,
        TokenFitsItsClient, PendingKeepsConnection, Behind, Current, Awaited, TokenIsGiven,
        FlowRecs, DiscRecs, Rows, Phase, Resolves, Quiet
<1> QED
    BY <1>1, <1>2, <1>3, <1>4, <1>5, <1>6, <1>7, <1>8, <1>9, <1>10 DEF Flow

\* A step of a disconnect keeps the invariant.
LEMMA DisconnectStep ==
  ASSUME IInv, NEW d \in Disconnects, Disconnect(d)
  PROVE  IInv'
<1>1. CASE Begin(d)
  <2> DEFINE g == IF life = "disconnecting" THEN gen ELSE gen + 1
  <2>1. /\ ~pending /\ gen' = g /\ life' = "disconnecting" /\ state' = None
        /\ disc' = [disc EXCEPT ![d].phase = "begun", ![d].gen = g]
        /\ g <= MaxGen /\ UNCHANGED <<row, client, pending, flow, dead>>
    BY <1>1 DEF Begin, Quiet
  <2>2. gen \in Nat /\ g \in 0..MaxGen /\ gen <= g
    BY <2>1, GmailAssumption DEF IInv, GmailTypeOK
  <2>3. disc' \in [Disconnects -> DiscRecs]
    <3> HIDE DEF g
    <3> QED
      BY <2>1, <2>2 DEF IInv, GmailTypeOK, DiscRecs
  <2>4. GmailTypeOK'
    BY <2>1, <2>3, GmailAssumption DEF IInv, GmailTypeOK
  <2>5. Behind'
    BY <2>1, GmailAssumption DEF IInv, GmailTypeOK, Behind, ConnectedIsCurrent, FlowRecs, Rows
  <2> QED
    BY <2>1, <2>4, <2>5
    DEF IInv, ConnectedIsCurrent, DisconnectedIsEmpty, TokenFitsItsClient,
        PendingKeepsConnection, Behind, Current, Awaited, TokenIsGiven
<1>2. CASE LookUp(d)
  <2>1. disc' \in [Disconnects -> DiscRecs]
    <3>1. CASE row = None
      BY <1>2, <3>1 DEF LookUp, IInv, GmailTypeOK, DiscRecs
    <3>2. CASE row # None
      <4>1. row.token \in Flows /\ row.gen \in 0..MaxGen
        BY <3>2, GmailAssumption DEF IInv, GmailTypeOK, Rows
      <4>2. disc' = [disc EXCEPT ![d] = [@ EXCEPT !.phase = "looked", !.token = row.token,
                                                  !.of = row.gen]]
        BY <1>2, <3>2 DEF LookUp
      <4>3. [disc[d] EXCEPT !.phase = "looked", !.token = row.token, !.of = row.gen]
               \in DiscRecs
        BY <4>1 DEF IInv, GmailTypeOK, DiscRecs
      <4> QED
        BY <4>2, <4>3 DEF IInv, GmailTypeOK
    <3> QED
      BY <3>1, <3>2
  <2>2. UNCHANGED <<gen, life, state, row, client, pending, flow, dead>>
    BY <1>2 DEF LookUp
  <2> QED
    BY <2>1, <2>2
    DEF IInv, ConnectedIsCurrent, DisconnectedIsEmpty, TokenFitsItsClient,
        PendingKeepsConnection, Behind, Current, Awaited, TokenIsGiven,
        GmailTypeOK
<1>3. CASE Revoke(d)
  <2>1. disc' \in [Disconnects -> DiscRecs]
    BY <1>3 DEF Revoke, IInv, GmailTypeOK, DiscRecs
  <2>2. dead' \subseteq Flows
    BY <1>3 DEF Revoke, Revoked, IInv, GmailTypeOK
  <2>3. UNCHANGED <<gen, life, state, row, client, pending, flow>>
    BY <1>3 DEF Revoke
  <2> QED
    BY <2>1, <2>2, <2>3
    DEF IInv, ConnectedIsCurrent, DisconnectedIsEmpty, TokenFitsItsClient,
        PendingKeepsConnection, Behind, Current, Awaited, TokenIsGiven,
        GmailTypeOK
<1>4. CASE Finish(d)
    BY <1>4, GmailAssumption DEF Finish, IInv, GmailTypeOK, ConnectedIsCurrent, DisconnectedIsEmpty,
        TokenFitsItsClient, PendingKeepsConnection, Behind, Current, Awaited, TokenIsGiven,
        FlowRecs, DiscRecs, Rows, Phase, Resolves, Quiet, MayFinish
<1>5. CASE BreakOff(d)
    BY <1>5, GmailAssumption DEF BreakOff, IInv, GmailTypeOK, ConnectedIsCurrent, DisconnectedIsEmpty,
        TokenFitsItsClient, PendingKeepsConnection, Behind, Current, Awaited, TokenIsGiven,
        FlowRecs, DiscRecs, Rows, Phase, Resolves, Quiet
<1> QED
    BY <1>1, <1>2, <1>3, <1>4, <1>5 DEF Disconnect

LEMMA ChangeClientStep ==
  ASSUME IInv, ChangeClient
  PROVE  IInv'
  <1>1. /\ row = None /\ ~pending /\ gen' = gen + 1 /\ gen' <= MaxGen
        /\ life' = "disconnected" /\ state' = None /\ client' \in {0, gen'}
        /\ UNCHANGED <<row, pending, flow, disc, dead>>
    BY GmailAssumption DEF ChangeClient, MayChangeClient, Quiet, IInv, GmailTypeOK
  <1>2. GmailTypeOK'
    BY <1>1, GmailAssumption DEF IInv, GmailTypeOK
  <1>3. Behind'
    BY <1>1, GmailAssumption DEF IInv, GmailTypeOK, Behind, FlowRecs
  <1> QED
    BY <1>1, <1>2, <1>3
    DEF IInv, ConnectedIsCurrent, DisconnectedIsEmpty, TokenFitsItsClient,
        PendingKeepsConnection, Current, Awaited, TokenIsGiven

LEMMA NextIInv ==
  ASSUME IInv, [GmailNext]_gmailVars
  PROVE  IInv'
  <1>1. CASE \E f \in Flows : Flow(f)
    BY <1>1, FlowStep
  <1>2. CASE \E d \in Disconnects : Disconnect(d)
    BY <1>2, DisconnectStep
  <1>3. CASE ChangeClient
    BY <1>3, ChangeClientStep
  <1>4. CASE Reserve
    BY <1>4
    DEF Reserve, IInv, GmailTypeOK, ConnectedIsCurrent, DisconnectedIsEmpty,
        TokenFitsItsClient, PendingKeepsConnection, Behind, Current, Awaited, TokenIsGiven
  <1>5. CASE Settle
    BY <1>5
    DEF Settle, IInv, GmailTypeOK, ConnectedIsCurrent, DisconnectedIsEmpty,
        TokenFitsItsClient, PendingKeepsConnection, Behind, Current, Awaited, TokenIsGiven
  <1>6. CASE UNCHANGED gmailVars
    BY <1>6
    DEF gmailVars, IInv, GmailTypeOK, ConnectedIsCurrent, DisconnectedIsEmpty,
        TokenFitsItsClient, PendingKeepsConnection, Behind, Current, Awaited, TokenIsGiven
  <1> QED
    BY <1>1, <1>2, <1>3, <1>4, <1>5, <1>6 DEF GmailNext

\* The invariant of all that touches the Gmail connection of a user.
THEOREM GmailInvariant == GmailSpec => []IInv
  <1>1. GmailInit => IInv
    BY InitIInv
  <1>2. IInv /\ [GmailNext]_gmailVars => IInv'
    BY NextIInv
  <1> QED
    BY <1>1, <1>2, PTL DEF GmailSpec

\* Type correctness of the lifecycle, its flows and its disconnects.
THEOREM TypeCorrect == GmailSpec => []GmailTypeOK
  <1>1. IInv => GmailTypeOK
    BY DEF IInv
  <1> QED
    BY <1>1, GmailInvariant, PTL

\* A stale callback never makes a connection: what is connected was saved by the
\* flow of the current generation, with the OAuth client that is in force.
THEOREM NoStaleCallback == GmailSpec => []NothingStale
  <1>1. IInv => NothingStale
    BY DEF IInv, NothingStale
  <1> QED
    BY <1>1, GmailInvariant, PTL

\* While a send is with the provider its connection is not touched.
THEOREM SendKeepsConnection == GmailSpec => []PendingKeepsConnection
  <1>1. IInv => PendingKeepsConnection
    BY DEF IInv
  <1> QED
    BY <1>1, GmailInvariant, PTL

\* A disconnect that was overtaken deletes nothing.
THEOREM NoConnectionLost == GmailSpec => FinishTakesItsOwn
  <1>1. IInv /\ [GmailNext]_gmailVars => (row # None /\ row' = None => row.gen < gen)
    <2> SUFFICES ASSUME IInv, [GmailNext]_gmailVars, row # None, row' = None
                 PROVE  row.gen < gen
      OBVIOUS
    <2>1. \A f \in Flows : ~Save(f)
      <3> SUFFICES ASSUME NEW f \in Flows, Save(f) PROVE FALSE
        OBVIOUS
      <3>1. IInv'
        BY NextIInv
      <3>2. life' = "connected"
        BY DEF Save
      <3> QED
        BY <3>1, <3>2 DEF IInv, ConnectedIsCurrent
    <2>2. PICK d \in Disconnects : Finish(d)
      BY <2>1
      DEF GmailNext, gmailVars, Flow, Choose, CreateState, CreateRefused, Consume, Exchange, Look,
          SaveRefused, RevokeNew, CutOff, Disconnect, Begin, LookUp, Revoke, BreakOff,
          ChangeClient, Reserve, Settle
    <2>3. life = "disconnecting"
      BY <2>2 DEF Finish, MayFinish
    <2> QED
      BY <2>3 DEF IInv, Behind
  <1> QED
    BY <1>1, GmailInvariant, PTL DEF GmailSpec, FinishTakesItsOwn

\* What MailConnection calls the connection.
Mapped == IF row = None THEN "disconnected"
          ELSE IF life = "connected" THEN "connected" ELSE "changing"

LEMMA MappedFlowStep ==
  ASSUME IInv, NEW f \in Flows, Flow(f)
  PROVE  [Connection!Next]_<<Mapped, pending>>
<1>1. CASE CreateState(f)
  <2>1. row' = row /\ pending' = pending /\ ~pending /\ life' = "connecting"
    BY <1>1 DEF CreateState, Quiet
  <2>2. CASE row # None /\ life = "connected"
    BY <2>1, <2>2 DEF Mapped, Connection!Next, Connection!Begin
  <2>3. CASE row = None \/ life # "connected"
    BY <2>1, <2>3 DEF Mapped
  <2> QED
    BY <2>2, <2>3
<1>2. CASE Save(f)
  <2>1. IInv'
    BY NextIInv DEF GmailNext
  <2>2. life' = "connected" /\ row' # None /\ pending' = pending /\ ~pending
    BY <1>2, <2>1 DEF Save, MaySave, Quiet, IInv, ConnectedIsCurrent
  <2> QED
    BY <2>2 DEF Mapped, Connection!Next, Connection!Save
<1>3. CASE \/ Choose(f) \/ CreateRefused(f) \/ Consume(f) \/ Exchange(f) \/ Look(f)
           \/ SaveRefused(f) \/ RevokeNew(f) \/ CutOff(f)
  <2>1. UNCHANGED <<row, life, pending>>
    BY <1>3 DEF Choose, CreateRefused, Consume, Exchange, Look, SaveRefused, RevokeNew, CutOff
  <2> QED
    BY <2>1 DEF Mapped
<1> QED
  BY <1>1, <1>2, <1>3 DEF Flow

LEMMA MappedDisconnectStep ==
  ASSUME IInv, NEW d \in Disconnects, Disconnect(d)
  PROVE  [Connection!Next]_<<Mapped, pending>>
<1>1. CASE Begin(d)
  <2>1. row' = row /\ pending' = pending /\ ~pending /\ life' = "disconnecting"
    BY <1>1 DEF Begin, Quiet
  <2>2. CASE row # None /\ life = "connected"
    BY <2>1, <2>2 DEF Mapped, Connection!Next, Connection!Begin
  <2>3. CASE row = None \/ life # "connected"
    BY <2>1, <2>3 DEF Mapped
  <2> QED
    BY <2>2, <2>3
<1>2. CASE Finish(d)
  <2>1. CASE MayFinish(d)
    <3>1. row' = None /\ life = "disconnecting" /\ pending' = pending
      BY <1>2, <2>1 DEF Finish, MayFinish
    <3> QED
      BY <3>1 DEF Mapped, Connection!Next, Connection!End
  <2>2. CASE ~MayFinish(d)
    <3>1. UNCHANGED <<row, life, pending>>
      BY <1>2, <2>2 DEF Finish
    <3> QED
      BY <3>1 DEF Mapped
  <2> QED
    BY <2>1, <2>2
<1>3. CASE LookUp(d) \/ Revoke(d) \/ BreakOff(d)
  <2>1. UNCHANGED <<row, life, pending>>
    BY <1>3 DEF LookUp, Revoke, BreakOff
  <2> QED
    BY <2>1 DEF Mapped
<1> QED
  BY <1>1, <1>2, <1>3 DEF Disconnect

\* The lifecycle with its generations implements the connection EmailDelivery
\* relies on: a send is reserved for a connected account only, and nothing starts,
\* saves or ends a connection behind its back.
THEOREM Implementation == GmailSpec => ImplementsConnection
<1>1. GmailInit => Connection!Init
  BY DEF GmailInit, Connection!Init
<1>2. IInv /\ [GmailNext]_gmailVars => [Connection!Next]_<<Mapped, pending>>
  <2> SUFFICES ASSUME IInv, [GmailNext]_gmailVars
               PROVE  [Connection!Next]_<<Mapped, pending>>
    OBVIOUS
  <2>1. CASE \E f \in Flows : Flow(f)
    BY <2>1, MappedFlowStep
  <2>2. CASE \E d \in Disconnects : Disconnect(d)
    BY <2>2, MappedDisconnectStep
  <2>3. CASE ChangeClient
    BY <2>3 DEF ChangeClient, MayChangeClient, Mapped
  <2>4. CASE Reserve
    BY <2>4 DEF Reserve, Mapped, Connection!Next, Connection!Reserve
  <2>5. CASE Settle
    BY <2>5 DEF Settle, Mapped, Connection!Next, Connection!Settle
  <2>6. CASE UNCHANGED gmailVars
    BY <2>6 DEF gmailVars, Mapped
  <2> QED
    BY <2>1, <2>2, <2>3, <2>4, <2>5, <2>6 DEF GmailNext
<1>3. IInv /\ [GmailNext]_gmailVars => [Connection!Next]_(Connection!vars)
  BY <1>2 DEF Connection!vars, Mapped
<1> QED
  BY <1>1, <1>3, GmailInvariant, PTL DEF GmailSpec, ImplementsConnection, Connection!Spec

=============================================================================
