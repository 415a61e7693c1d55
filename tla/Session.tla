------------------------------ MODULE Session ------------------------------
(***************************************************************************)
(* The session of the single-page frontend: Page and AuthScreen in          *)
(* src/frontend/app/page.tsx, apiRequest in src/frontend/lib/api.ts.  The   *)
(* tabs of a browser share one stored session (persistSession); the         *)
(* Supabase client tells every tab when it changes, and each request reads  *)
(* it anew.  A tab shows Workspace while it knows of a session, and React   *)
(* keeps that Workspace with all it loaded when one user follows another.   *)
(* The nine requests of a refresh are one "load" here.                      *)
(***************************************************************************)
EXTENDS Sequences, FiniteSets, Naturals

CONSTANTS
    Tabs, Users,
    MailedLinks,    \* users with a confirmation link in their mailbox (detectSessionInUrl)
    Kinds,          \* the requests of this instance
    MaxPending,     \* bound: changes of the session a tab has not heard of yet
    None

SessionAssumption ==
    /\ MaxPending \in Nat \ {0} /\ None \notin Users
    /\ "load" \in Kinds /\ Kinds \subseteq {"load", "save", "delete"}

VARIABLES
    stored,     \* the session in the browser's storage: its user, and whether its token is valid
    links,      \* links not opened yet
    page,       \* page[t]: "closed", "booting", "up" (listens for changes)
    heard,      \* heard[t]: changes of the session on their way to tab t
    session,    \* session[t]: the user of the session in tab t's state
    data,       \* data[t]: whose rows the Workspace of tab t holds
    call,       \* call[t][k]: the request of kind k tab t waits for
    written,    \* ghost: written[u]: whose rows were saved in the account of u
    deleted,    \* accounts deleted
    typed,      \* ghost: users who typed their e-mail address to delete their account
    twice       \* ghost: one request took effect twice

vars == <<stored, links, page, heard, session, data, call, written, deleted, typed, twice>>

Someone == Users \cup {None}
NoCall  == [state |-> "none"]
Nobody  == [user |-> None, valid |-> FALSE]

\* A request was asked for, sent, answered 401, or answered.  "of" is whose rows
\* it carries, "as" the user of its token.
Calls == {NoCall} \cup [state : {"asked", "sent", "refused", "done"}, of : Someone,
                        as : Someone, valid : BOOLEAN, again : BOOLEAN,
                        took : BOOLEAN, mounted : BOOLEAN]

TypeOK ==
    /\ stored \in [user : Someone, valid : BOOLEAN] /\ links \subseteq MailedLinks
    /\ page \in [Tabs -> {"closed", "booting", "up"}]
    /\ \A t \in Tabs : heard[t] \in Seq(Someone) /\ Len(heard[t]) <= MaxPending
    /\ session \in [Tabs -> Someone] /\ data \in [Tabs -> Someone]
    /\ call \in [Tabs -> [Kinds -> Calls]]
    /\ \A t \in Tabs : session[t] = None => call[t]["load"] = NoCall
    /\ written \in [Users -> SUBSET Users] /\ deleted \subseteq Users
    /\ typed \subseteq Users /\ twice \in BOOLEAN

Init ==
    /\ stored = Nobody /\ links = MailedLinks
    /\ page = [t \in Tabs |-> "closed"] /\ heard = [t \in Tabs |-> <<>>]
    /\ session = [t \in Tabs |-> None] /\ data = [t \in Tabs |-> None]
    /\ call = [t \in Tabs |-> [k \in Kinds |-> NoCall]]
    /\ written = [u \in Users |-> {}] /\ deleted = {} /\ typed = {} /\ twice = FALSE

Asked(u) == [state |-> "asked", of |-> u, as |-> None, valid |-> FALSE, again |-> FALSE,
             took |-> FALSE, mounted |-> TRUE]

-----------------------------------------------------------------------------

\* Tokens of u stop being valid: on expiry, with its session, or with its account.
Void(calls, u) ==
    [t \in Tabs |-> [k \in Kinds |->
        IF calls[t][k] # NoCall /\ calls[t][k].as = u
        THEN [calls[t][k] EXCEPT !.valid = FALSE] ELSE calls[t][k]]]

\* The storage has a new session and all listening tabs will hear of it.
Store(u) ==
    /\ \A t \in Tabs : Len(heard[t]) < MaxPending
    /\ stored' = [user |-> u, valid |-> u # None]
    /\ heard' = [t \in Tabs |-> IF page[t] = "up" THEN Append(heard[t], u) ELSE heard[t]]

\* Mutant: what was loaded is kept in Page, above Workspace.
ShowAndKeep(t, u) ==
    /\ session' = [session EXCEPT ![t] = u]
    /\ UNCHANGED data
    /\ call' = [call EXCEPT ![t]["load"] = IF u = None THEN NoCall ELSE @]

\* Mutant: the effect that refreshes runs in Page, with and without a session.
ShowAndLoad(t, u) ==
    /\ session' = [session EXCEPT ![t] = u]
    /\ data' = [data EXCEPT ![t] = IF None \in {u, session[t]} THEN None ELSE @]
    /\ call' = [call EXCEPT ![t]["load"] = Asked(None)]

\* What a new session state does to the tab: no session unmounts Workspace, a
\* first one mounts it, whose effect refreshes; any other leaves it as it is.
Show(t, u) ==
    LET unmounted == [k \in Kinds |->
            IF k = "load" \/ call[t][k] = NoCall THEN NoCall
            ELSE [call[t][k] EXCEPT !.mounted = FALSE]]
    IN  /\ session' = [session EXCEPT ![t] = u]
        /\ data' = [data EXCEPT ![t] = IF None \in {u, session[t]} THEN None ELSE @]
        /\ call' = [call EXCEPT ![t] = CASE u = None -> unmounted
                                         [] u # None /\ session[t] = None ->
                                                [@ EXCEPT !["load"] = Asked(None)]
                                         [] OTHER -> @]

Rest == <<written, deleted, typed, twice>>

\* A tab is opened and reads the storage...
Boot(t) ==
    /\ page[t] = "closed"
    /\ page' = [page EXCEPT ![t] = "booting"]
    /\ Show(t, stored.user)
    /\ UNCHANGED <<stored, links, heard, Rest>>

\* ... or it is opened by a link, which signs its user in first.
BootFromLink(t, u) ==
    /\ page[t] = "closed" /\ u \in links \ deleted
    /\ links' = links \ {u}
    /\ page' = [page EXCEPT ![t] = "booting"]
    /\ Store(u) /\ Show(t, u)
    /\ UNCHANGED Rest

\* onAuthStateChange: the first call reports the session there is by then.
Subscribe(t) ==
    /\ page[t] = "booting"
    /\ page' = [page EXCEPT ![t] = "up"]
    /\ heard' = [heard EXCEPT ![t] = <<stored.user>>]
    /\ UNCHANGED <<stored, links, session, data, call, Rest>>

\* Mutant: a change without a session is taken for a failed refresh.
HearSignIns(t) ==
    /\ \E n \in 1..Len(heard[t]) :
         /\ IF heard[t][n] = None THEN UNCHANGED <<session, data, call>> ELSE Show(t, heard[t][n])
         /\ heard' = [heard EXCEPT ![t] = SubSeq(@, n + 1, Len(@))]
    /\ UNCHANGED <<stored, links, page, Rest>>

\* A tab hears of changes; those it hears of at once are rendered at once.
Hear(t) ==
    /\ \E n \in 1..Len(heard[t]) :
         /\ Show(t, heard[t][n])
         /\ heard' = [heard EXCEPT ![t] = SubSeq(@, n + 1, Len(@))]
    /\ UNCHANGED <<stored, links, page, Rest>>

SignIn(t, u) ==
    /\ page[t] = "up" /\ session[t] = None /\ u \notin deleted
    /\ Store(u)
    /\ UNCHANGED <<links, page, session, data, call, Rest>>

SignOut(t) ==
    /\ session[t] # None
    /\ Store(None)
    /\ call' = Void(call, stored.user)
    /\ UNCHANGED <<links, page, session, data, Rest>>

Expire ==
    /\ stored.valid
    /\ stored' = [stored EXCEPT !.valid = FALSE]
    /\ call' = Void(call, stored.user)
    /\ UNCHANGED <<links, page, heard, session, data, Rest>>

-----------------------------------------------------------------------------

\* The user asks for a refresh, saves a form filled from what was loaded, or
\* types the address of the session and DELETE.
Ask(t, k) ==
    /\ session[t] # None /\ call[t][k] = NoCall
    /\ k = "save" => data[t] # None
    /\ call' = [call EXCEPT ![t][k] = Asked(IF k = "save" THEN data[t] ELSE None)]
    /\ typed' = IF k = "delete" THEN typed \cup {session[t]} ELSE typed
    /\ UNCHANGED <<stored, links, page, heard, session, data, written, deleted, twice>>

Sent(c) == [c EXCEPT !.state = "sent", !.as = stored.user, !.valid = stored.valid]

\* apiRequest reads the session once the storage lets it.
Send(t, k) ==
    /\ call[t][k].state = "asked"
    /\ call' = [call EXCEPT ![t][k] = Sent(@)]
    /\ UNCHANGED <<stored, links, page, heard, session, data, Rest>>

\* Mutant: a request without an answer is retried like one answered 401.
UnansweredAgain(c) == [c EXCEPT !.state = "refused"]

\* A request that never reached the server, or whose answer did not come back.
Unanswered(c) == NoCall

\* The server knows the user by the token alone.  The answer may be lost.
Serve(t, k) ==
    LET c == call[t][k]
        served == [c EXCEPT !.state = "done", !.took = TRUE]
        calls == IF k = "delete" THEN Void(call, c.as) ELSE call
    IN  /\ c.state = "sent" /\ c.valid
        /\ written' = IF k = "save" THEN [written EXCEPT ![c.as] = @ \cup {c.of}] ELSE written
        /\ deleted' = IF k = "delete" THEN deleted \cup {c.as} ELSE deleted
        /\ stored' = IF k = "delete" /\ stored.user = c.as
                     THEN [stored EXCEPT !.valid = FALSE] ELSE stored
        /\ twice' = (twice \/ c.took)
        /\ call' \in {[calls EXCEPT ![t][k] = served], [calls EXCEPT ![t][k] = Unanswered(served)]}
        /\ UNCHANGED <<links, page, heard, session, data, typed>>

Lose(t, k) ==
    /\ call[t][k].state = "sent"
    /\ call' = [call EXCEPT ![t][k] = Unanswered(@)]
    /\ UNCHANGED <<stored, links, page, heard, session, data, Rest>>

Refuse(t, k) ==
    /\ call[t][k].state = "sent" /\ ~call[t][k].valid
    /\ call' = [call EXCEPT ![t][k].state = "refused"]
    /\ UNCHANGED <<stored, links, page, heard, session, data, Rest>>

\* After a 401 the session is refreshed, and the request sent once more with
\* whatever session that is; the deletion of the account asks for no retry.
Retry(t, k) ==
    /\ call[t][k].state = "refused" /\ ~call[t][k].again /\ k # "delete"
    /\ stored.user \in Users \ deleted
    /\ stored' = [stored EXCEPT !.valid = TRUE]
    /\ call' = [call EXCEPT ![t][k] = [Sent(@) EXCEPT !.valid = TRUE, !.again = TRUE]]
    /\ UNCHANGED <<links, page, heard, session, data, Rest>>

\* There is nothing to refresh, the refresh fails, or this was the retry.
GiveUp(t, k) ==
    /\ call[t][k].state = "refused"
    /\ call' = [call EXCEPT ![t][k] = NoCall]
    /\ UNCHANGED <<stored, links, page, heard, session, data, Rest>>

\* The answer of a load or a save becomes the state of a Workspace still mounted;
\* a deletion signs out whoever is signed in.
Take(t, k) ==
    LET c == call[t][k]
        taken == [call EXCEPT ![t][k] = NoCall]
    IN  /\ c.state = "done"
        /\ data' = IF k # "delete" /\ c.mounted THEN [data EXCEPT ![t] = c.as] ELSE data
        /\ IF k = "delete" THEN Store(None) /\ call' = Void(taken, stored.user)
           ELSE call' = taken /\ UNCHANGED <<stored, heard>>
        /\ UNCHANGED <<links, page, session, Rest>>

Request(t, k) ==
    Ask(t, k) \/ Send(t, k) \/ Serve(t, k) \/ Lose(t, k) \/ Refuse(t, k) \/ Retry(t, k)
        \/ GiveUp(t, k) \/ Take(t, k)

Next ==
    \/ Expire
    \/ \E t \in Tabs :
         \/ Boot(t) \/ Subscribe(t) \/ Hear(t) \/ SignOut(t)
         \/ \E u \in Users : BootFromLink(t, u) \/ SignIn(t, u)
         \/ \E k \in Kinds : Request(t, k)

Spec == Init /\ [][Next]_vars

-----------------------------------------------------------------------------

\* A tab that has heard of every change shows the session that is stored, so that
\* a sign-out in one tab is a sign-out in all (Page, onAuthStateChange).
ShownIsStored ==
    \A t \in Tabs : page[t] = "up" /\ heard[t] = <<>> => session[t] = stored.user

\* Nothing an account held stays behind where the sign-in form is shown: answers
\* that come late do not bring it back (Page returns AuthScreen, not Workspace).
ClearedBySignOut ==
    \A t \in Tabs : session[t] = None => data[t] = None

\* The retry of apiRequest repeats no effect: it follows a 401 only, which the
\* server gives before it does anything.
RetryRepeatsNothing == ~twice

\* docs/02-SRS.md:57 (PROF-02): users update only their own profile.  Does not
\* hold: what was loaded for one user is saved with the token of the next.
SavedIsOwn == \A u \in Users : written[u] \subseteq {u}

\* docs/06-Vercel-Deployment-Checklist.md:655: an account does not see another's
\* rows.  Does not hold: Workspace stays mounted when the user changes.
ShownIsOwn ==
    \A t \in Tabs :
        /\ page[t] = "up" /\ heard[t] = <<>> /\ call[t] = [k \in Kinds |-> NoCall]
        => data[t] \in {session[t], None}

\* page.tsx:687: "Enter your signed-in email and DELETE exactly."  Does not hold:
\* the address is compared with the session the tab shows, the request carries
\* the one that is stored.
DeletedWasTyped == deleted \subseteq typed

=============================================================================
