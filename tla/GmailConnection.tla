-------------------------- MODULE GmailConnection --------------------------
(***************************************************************************)
(* One user's Gmail connection: OAuth flows, disconnects and changes of the *)
(* user's own OAuth client, over the generation that connection_lifecycles  *)
(* keeps (src/supabase/migrations/202608080001_autoapply_cloud.sql and      *)
(* 202608110007_user_google_oauth_clients.sql).  The handlers of            *)
(* src/app/saas_main.py are several transactions each, with calls to Google *)
(* between them, and may be cut off after any.                              *)
(* A flow stands for its token too.  The user has one Google account.       *)
(***************************************************************************)
EXTENDS Naturals

CONSTANTS
    Flows, Disconnects,
    MaxGen,         \* bound: the generations that are reached
    None

ASSUME GmailAssumption ==
    /\ MaxGen \in Nat
    /\ None \notin Flows \cup [gen : Nat, token : Flows, cred : Nat]

VARIABLES
    gen, life,      \* the row of connection_lifecycles
    state,          \* the flow whose row is in oauth_states
    row,            \* the connection with its secrets: generation, refresh token, client
    client,         \* generation of the user's own OAuth client, 0 for none
    pending,        \* a send_events row is pending_provider
    flow,           \* flow[f]: how far an OAuth flow is, its generation and client
    disc,           \* disc[d]: how far a disconnect is, its generation and token
    dead            \* tokens Google has revoked

gmailVars == <<gen, life, state, row, client, pending, flow, disc, dead>>

Platform == 0       \* the client of the deployment
Rows == [gen : 1..MaxGen, token : Flows, cred : 0..MaxGen]

FlowRecs ==
    [phase : {"new", "chosen", "asked", "back", "issued", "looked", "failed", "over"},
     gen : 0..MaxGen, cred : 0..MaxGen, full : BOOLEAN]
DiscRecs ==
    [phase : {"new", "begun", "looked", "revoked", "over"}, gen : 0..MaxGen,
     token : Flows \cup {None}, of : 0..MaxGen]

GmailTypeOK ==
    /\ gen \in 0..MaxGen
    /\ life \in {"none", "connecting", "connected", "disconnecting", "disconnected"}
    /\ state \in Flows \cup {None} /\ row \in Rows \cup {None}
    /\ client \in 0..gen /\ pending \in BOOLEAN
    /\ flow \in [Flows -> FlowRecs] /\ disc \in [Disconnects -> DiscRecs]
    /\ dead \subseteq Flows

GmailInit ==
    /\ gen = 0 /\ life = "none" /\ state = None /\ row = None
    /\ client = 0 /\ pending = FALSE /\ dead = {}
    /\ flow = [f \in Flows |-> [phase |-> "new", gen |-> 0, cred |-> Platform, full |-> FALSE]]
    /\ disc = [d \in Disconnects |-> [phase |-> "new", gen |-> 0, token |-> None, of |-> 0]]

\* Mutant: a send that is pending is not looked for.
AnyTime == pending \in BOOLEAN

\* Every transaction that starts, saves or ends a connection refuses while a send
\* is with the provider.
Quiet == ~pending

Phase(f, p) == flow' = [flow EXCEPT ![f].phase = p]

-----------------------------------------------------------------------------

\* POST /oauth/google/start reads the client that is asked for...
Choose(f) ==
    /\ flow[f].phase = "new"
    /\ \E cred \in {Platform, client} :
         flow' = [flow EXCEPT ![f].phase = "chosen", ![f].cred = cred]
    /\ UNCHANGED <<gen, life, state, row, client, pending, disc, dead>>

Resolves(f) == flow[f].cred \in {Platform, client}

\* ... and creates a state for it, which supersedes all others.
CreateState(f) ==
    /\ flow[f].phase = "chosen" /\ gen < MaxGen
    /\ Resolves(f) /\ life # "disconnecting" /\ Quiet
    /\ gen' = gen + 1 /\ life' = "connecting" /\ state' = f
    /\ flow' = [flow EXCEPT ![f].phase = "asked", ![f].gen = gen + 1]
    /\ UNCHANGED <<row, client, pending, disc, dead>>

CreateRefused(f) ==
    /\ flow[f].phase = "chosen"
    /\ ~Resolves(f) \/ life = "disconnecting" \/ ~Quiet
    /\ Phase(f, "over")
    /\ UNCHANGED <<gen, life, state, row, client, pending, disc, dead>>

\* The callback takes the state, once; the user may have refused, or been slow.
Consume(f) ==
    /\ flow[f].phase = "asked"
    /\ \/ state = f /\ Phase(f, "back")
       \/ Phase(f, "over")
    /\ state' = IF state = f THEN None ELSE state
    /\ UNCHANGED <<gen, life, row, client, pending, disc, dead>>

\* Google gives a token, with offline access or without, to the client the flow
\* was started with.
Exchange(f) ==
    /\ flow[f].phase = "back"
    /\ \/ /\ Resolves(f)
          /\ \E full \in BOOLEAN :
               flow' = [flow EXCEPT ![f].phase = "issued", ![f].full = full]
       \/ Phase(f, "over")
    /\ UNCHANGED <<gen, life, state, row, client, pending, disc, dead>>

\* Mutant: any refresh token does.
KeepsAny(f) == row # None => row.cred \in 0..MaxGen

\* Without offline access the refresh token on file has to do, if it is of the
\* same client.
KeepsRefreshToken(f) == row # None => row.cred = flow[f].cred

\* The account, the scopes and the connection on file are looked at.
Look(f) ==
    /\ flow[f].phase = "issued"
    /\ \/ (flow[f].full \/ KeepsRefreshToken(f)) /\ Phase(f, "looked")
       \/ Phase(f, "failed")
    /\ UNCHANGED <<gen, life, state, row, client, pending, disc, dead>>

\* Mutant: any flow while one is awaited.
MaySaveWhileConnecting(f) ==
    /\ life = "connecting" /\ Quiet
    /\ flow[f].full \/ row # None

\* save_google_connection: only the flow of the current generation.
MaySave(f) ==
    /\ gen = flow[f].gen /\ life = "connecting" /\ Quiet
    /\ flow[f].full \/ row # None

\* The answer may be lost, and the handler takes that for a refusal.
Save(f) ==
    /\ flow[f].phase = "looked" /\ MaySave(f)
    /\ row' = [gen |-> flow[f].gen, token |-> IF flow[f].full THEN f ELSE row.token,
               cred |-> flow[f].cred]
    /\ life' = "connected"
    /\ Phase(f, "over") \/ Phase(f, "failed")
    /\ UNCHANGED <<gen, state, client, pending, disc, dead>>

SaveRefused(f) ==
    /\ flow[f].phase = "looked" /\ ~MaySave(f)
    /\ Phase(f, "failed")
    /\ UNCHANGED <<gen, life, state, row, client, pending, disc, dead>>

\* Revoking a token ends the grant: no token of that client works any more.
Revoked(t) ==
    {f \in Flows : f = t \/ (flow[f].full /\ flow[f].cred = flow[t].cred)}

\* A token that is not kept is revoked, if Google can be reached.
RevokeNew(f) ==
    /\ flow[f].phase = "failed"
    /\ dead' \in {dead, dead \cup Revoked(f)}
    /\ Phase(f, "over")
    /\ UNCHANGED <<gen, life, state, row, client, pending, disc>>

CutOff(f) ==
    /\ flow[f].phase \in {"chosen", "back", "issued", "looked", "failed"}
    /\ Phase(f, "over")
    /\ UNCHANGED <<gen, life, state, row, client, pending, disc, dead>>

Flow(f) ==
    \/ Choose(f) \/ CreateState(f) \/ CreateRefused(f) \/ Consume(f) \/ Exchange(f)
    \/ Look(f) \/ Save(f) \/ SaveRefused(f) \/ RevokeNew(f) \/ CutOff(f)

-----------------------------------------------------------------------------

\* DELETE /connections/gmail: a disconnect that is under way is continued.
Begin(d) ==
    LET g == IF life = "disconnecting" THEN gen ELSE gen + 1
    IN  /\ disc[d].phase = "new" /\ Quiet /\ g <= MaxGen
        /\ gen' = g /\ life' = "disconnecting" /\ state' = None
        /\ disc' = [disc EXCEPT ![d].phase = "begun", ![d].gen = g]
        /\ UNCHANGED <<row, client, pending, flow, dead>>

\* It reads the secrets of whatever connection there is by then.
LookUp(d) ==
    /\ disc[d].phase = "begun"
    /\ disc' = [disc EXCEPT ![d] =
                  IF row = None THEN [@ EXCEPT !.phase = "revoked"]
                  ELSE [@ EXCEPT !.phase = "looked", !.token = row.token, !.of = row.gen]]
    /\ UNCHANGED <<gen, life, state, row, client, pending, flow, dead>>

Revoke(d) ==
    /\ disc[d].phase = "looked"
    /\ dead' \in {dead, dead \cup Revoked(disc[d].token)}
    /\ disc' = [disc EXCEPT ![d].phase = "revoked"]
    /\ UNCHANGED <<gen, life, state, row, client, pending, flow>>

\* Mutant: for any generation.
MayFinishAny(d) == disc[d].gen >= 1

\* finish_google_disconnect takes effect for the generation it was begun with.
MayFinish(d) == gen = disc[d].gen /\ life = "disconnecting"

Finish(d) ==
    /\ disc[d].phase = "revoked"
    /\ disc' = [disc EXCEPT ![d].phase = "over"]
    /\ IF MayFinish(d) THEN row' = None /\ life' = "disconnected" ELSE UNCHANGED <<row, life>>
    /\ UNCHANGED <<gen, state, client, pending, flow, dead>>

BreakOff(d) ==
    /\ disc[d].phase \in {"begun", "looked", "revoked"}
    /\ disc' = [disc EXCEPT ![d].phase = "over"]
    /\ UNCHANGED <<gen, life, state, row, client, pending, flow, dead>>

Disconnect(d) == Begin(d) \/ LookUp(d) \/ Revoke(d) \/ Finish(d) \/ BreakOff(d)

-----------------------------------------------------------------------------

\* Mutant: a disconnect that has only begun is enough.
MayChangeOnceBegun == Quiet /\ (row = None \/ life = "disconnecting")

\* No connection may depend on a client that is saved, replaced or deleted.
MayChangeClient == Quiet /\ row = None

\* The lifecycle advances with the client.
ChangeClient ==
    LET g == 1 + IF client > gen THEN client ELSE gen
    IN  /\ MayChangeClient /\ g <= MaxGen
        /\ gen' = g /\ life' = "disconnected" /\ state' = None
        /\ client' = g \/ (client # 0 /\ client' = 0)
        /\ UNCHANGED <<row, pending, flow, disc, dead>>

\* A send is reserved for the connection and settled (EmailDelivery).
Reserve ==
    /\ ~pending /\ life = "connected" /\ row # None
    /\ pending' = TRUE
    /\ UNCHANGED <<gen, life, state, row, client, flow, disc, dead>>

Settle ==
    /\ pending
    /\ pending' = FALSE
    /\ UNCHANGED <<gen, life, state, row, client, flow, disc, dead>>

GmailNext ==
    \/ \E f \in Flows : Flow(f)
    \/ \E d \in Disconnects : Disconnect(d)
    \/ ChangeClient \/ Reserve \/ Settle

GmailSpec == GmailInit /\ [][GmailNext]_gmailVars

-----------------------------------------------------------------------------

\* What counts as connected is what the flow of the current generation saved: no
\* callback of a superseded flow or behind a disconnect gets in (save_google_connection).
ConnectedIsCurrent == life = "connected" => row # None /\ row.gen = gen

\* Once a disconnect has finished, or the client has changed, no token is on file.
DisconnectedIsEmpty == life \in {"none", "disconnected"} => row = None

\* The refresh token on file was given to the client it will be used with, and
\* that client has not been replaced since (the check for a platform or user
\* client at start, callback and change).
TokenFitsItsClient ==
    row # None => /\ row.cred \in {Platform, client}
                  /\ flow[row.token].cred = row.cred

\* What has been overtaken counts for nothing: no flow, no disconnect, no client.
NothingStale == ConnectedIsCurrent /\ DisconnectedIsEmpty /\ TokenFitsItsClient

\* A reserved send keeps the connection: nothing starts, saves or ends one.
PendingKeepsConnection == pending => life = "connected"

\* A disconnect deletes the connection it was begun for, not one made since.
FinishTakesItsOwn == [][row # None /\ row' = None => row.gen < gen]_gmailVars

\* However many flows and disconnects there are, a send sees one connection.
Connection == INSTANCE MailConnection
                 WITH gmail <- IF row = None THEN "disconnected"
                               ELSE IF life = "connected" THEN "connected" ELSE "changing"

\* The generations, states and handlers are an implementation of MailConnection.
ImplementsConnection == Connection!Spec

\* docs/02-SRS.md:259 (MAIL-14): a repeated disconnect continues the current
\* generation.  Does not hold of the revocation: LookUp reads the secrets without
\* asking for the generation, after a first disconnect finished and the user reconnected.
RevokesItsOwn == \A d \in Disconnects : disc[d].phase = "looked" => disc[d].of < disc[d].gen

\* docs/01-PRD (1).md:331: a callback connects the user and a message can be sent.
\* Does not hold: a callback whose save went unanswered revokes what it saved.
SavedGrantIsLive == life = "connected" => row.token \notin dead

\* docs/01-PRD (1).md:197: "Show connected address, connection health".  Does not
\* hold: a reconnect that is given up leaves a connection that is shown as
\* connected and refuses every send.
\* Does not hold: see the README.
ShownMeansSendable ==
    /\ row # None /\ state = None
    /\ \A f \in Flows : flow[f].phase \in {"new", "over"}
    /\ \A d \in Disconnects : disc[d].phase \in {"new", "over"}
    => life = "connected"

=============================================================================
