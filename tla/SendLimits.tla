----------------------------- MODULE SendLimits -----------------------------
(***************************************************************************)
(* The limits enqueue_email_send and reserve_application_send set on what  *)
(* a user, and a Gmail account that several users may have connected, can  *)
(* send.  Each call is one transaction, and transactions run beside each   *)
(* other: what a statement counts is what was committed when it ran, and   *)
(* the limits hold only as far as the locks keep others out from the count *)
(* to the commit.                                                          *)
(*                                                                         *)
(* Abstractions.  The time windows are kept as sets of the reservations    *)
(* that still lie in them; time takes reservations out of a window.  Every *)
(* call is for an application of its own that is ready to be sent.         *)
(***************************************************************************)
EXTENDS Naturals, FiniteSets

CONSTANTS
    Calls,         \* calls of enqueue_email_send
    Users, Accounts,
    User,          \* User[c]: auth.uid()
    Account,       \* Account[c]: the Gmail account the user has connected
    To,            \* To[c]: the recipient of the application
    Nobody,
    QueueMax,      \* active rows a user may have (200)
    AccountMax,    \* messages of an account in 24 hours (150)
    MaxCap         \* largest daily_send_cap (150)

ASSUME LimitsAssumption ==
    /\ IsFiniteSet(Calls)
    /\ User \in [Calls -> Users]
    /\ Account \in [Calls -> Accounts]
    /\ Nobody \notin Calls
    /\ QueueMax \in Nat /\ AccountMax \in Nat /\ MaxCap \in Nat

VARIABLES
    pc,        \* where each call's transaction stands
    cap,       \* user_settings.daily_send_cap
    settings,  \* who has locked the user's user_settings row
    advisory,  \* who has the advisory lock of the Gmail account
    active,    \* committed automation_jobs rows that are queued or running
    today,     \* committed reservations of the user's day
    lately,    \* ... of the account's last 24 hours
    window     \* ... of the duplicate window

limitsVars == <<pc, cap, settings, advisory, active, today, lately, window>>

LimitsTypeOK ==
    /\ pc       \in [Calls -> {"idle", "admitted", "counted", "checked", "over"}]
    /\ cap      \in [Users -> 0..MaxCap]
    /\ settings \in [Users -> Calls \cup {Nobody}]
    /\ advisory \in [Accounts -> Calls \cup {Nobody}]
    /\ active \subseteq Calls /\ today \subseteq Calls
    /\ lately \subseteq Calls /\ window \subseteq Calls

LimitsInit ==
    /\ pc       = [c \in Calls |-> "idle"]
    /\ cap      \in [Users -> 0..MaxCap]
    /\ settings = [u \in Users |-> Nobody]
    /\ advisory = [a \in Accounts |-> Nobody]
    /\ active = {} /\ today = {} /\ lately = {} /\ window = {}

OfUser(S, u)    == {c \in S : User[c] = u}
OfAccount(S, a) == {c \in S : Account[c] = a}

Free(u) == settings[u] = Nobody

-----------------------------------------------------------------------------
(* One call *)

\* The rows of the user are counted; nothing is locked yet.
Admit(c) ==
    /\ pc[c] = "idle"
    /\ Cardinality(OfUser(active, User[c])) < QueueMax
    /\ pc' = [pc EXCEPT ![c] = "admitted"]
    /\ UNCHANGED <<cap, settings, advisory, active, today, lately, window>>

\* Mutant: the settings row is read without  for update.
CountUnlocked(c) ==
    /\ pc[c] = "admitted"
    /\ Cardinality(OfUser(today, User[c])) < cap[User[c]]
    /\ pc' = [pc EXCEPT ![c] = "counted"]
    /\ UNCHANGED <<cap, settings, advisory, active, today, lately, window>>

\* The settings row is locked, then the user's day is counted.
Count(c) ==
    /\ pc[c] = "admitted"
    /\ Free(User[c])
    /\ Cardinality(OfUser(today, User[c])) < cap[User[c]]
    /\ settings' = [settings EXCEPT ![User[c]] = c]
    /\ pc' = [pc EXCEPT ![c] = "counted"]
    /\ UNCHANGED <<cap, advisory, active, today, lately, window>>

\* The user or the account has a message to this recipient in the window.
Mailed(c) ==
    \E d \in window : To[d] = To[c] /\ (User[d] = User[c] \/ Account[d] = Account[c])

\* Mutant: the account is not locked.
CheckUnlocked(c) ==
    /\ pc[c] = "counted"
    /\ Cardinality(OfAccount(lately, Account[c])) < AccountMax
    /\ ~Mailed(c)
    /\ pc' = [pc EXCEPT ![c] = "checked"]
    /\ UNCHANGED <<cap, settings, advisory, active, today, lately, window>>

\* Mutant: one message more.
CheckOneMore(c) ==
    /\ pc[c] = "counted"
    /\ advisory[Account[c]] = Nobody
    /\ Cardinality(OfAccount(lately, Account[c])) <= AccountMax
    /\ ~Mailed(c)
    /\ advisory' = [advisory EXCEPT ![Account[c]] = c]
    /\ pc' = [pc EXCEPT ![c] = "checked"]
    /\ UNCHANGED <<cap, settings, active, today, lately, window>>

\* The account is locked; its last 24 hours and the duplicates are counted.
Check(c) ==
    /\ pc[c] = "counted"
    /\ advisory[Account[c]] = Nobody
    /\ Cardinality(OfAccount(lately, Account[c])) < AccountMax
    /\ ~Mailed(c)
    /\ advisory' = [advisory EXCEPT ![Account[c]] = c]
    /\ pc' = [pc EXCEPT ![c] = "checked"]
    /\ UNCHANGED <<cap, settings, active, today, lately, window>>

\* Mutant: the advisory lock belongs to the session and outlives the transaction.
OverKeepingLock(c) ==
    /\ pc' = [pc EXCEPT ![c] = "over"]
    /\ settings' = [u \in Users |-> IF settings[u] = c THEN Nobody ELSE settings[u]]
    /\ UNCHANGED advisory

\* The transaction ends, and with it its locks.
Over(c) ==
    /\ pc' = [pc EXCEPT ![c] = "over"]
    /\ settings' = [u \in Users |-> IF settings[u] = c THEN Nobody ELSE settings[u]]
    /\ advisory' = [a \in Accounts |-> IF advisory[a] = c THEN Nobody ELSE advisory[a]]

\* The reservation, its provider event and the row are inserted and committed.
Commit(c) ==
    /\ pc[c] = "checked"
    /\ Over(c)
    /\ active' = active \cup {c} /\ today' = today \cup {c}
    /\ lately' = lately \cup {c} /\ window' = window \cup {c}
    /\ UNCHANGED cap

\* A limit is reached, which is seen only with the lock in hand.
Refuse(c) ==
    /\ \/ /\ pc[c] = "admitted" /\ Free(User[c])
          /\ Cardinality(OfUser(today, User[c])) >= cap[User[c]]
       \/ /\ pc[c] = "counted" /\ advisory[Account[c]] = Nobody
          /\ \/ Cardinality(OfAccount(lately, Account[c])) >= AccountMax
             \/ Mailed(c)
    /\ Over(c)
    /\ UNCHANGED <<cap, active, today, lately, window>>

\* The call is broken off.
BreakOffCall(c) ==
    /\ pc[c] \in {"admitted", "counted", "checked"}
    /\ Over(c)
    /\ UNCHANGED <<cap, active, today, lately, window>>

Step(c) == Count(c) \/ Check(c) \/ Commit(c) \/ Refuse(c)

-----------------------------------------------------------------------------
(* The rest of the system *)

\* The user's row is over; a message that failed no longer counts.
SettleReservation(c) ==
    /\ c \in active
    /\ active' = active \ {c}
    /\ \E failed \in BOOLEAN :
         LET gone == IF failed THEN {c} ELSE {}
         IN /\ today' = today \ gone
            /\ lately' = lately \ gone
            /\ window' = window \ gone
    /\ UNCHANGED <<pc, cap, settings, advisory>>

\* Time passes: reservations leave the user's day, the account's 24 hours and
\* the window, each in its own time.
Age(c) ==
    /\ \/ today' = today \ {c} /\ UNCHANGED <<lately, window>>
       \/ lately' = lately \ {c} /\ UNCHANGED <<today, window>>
       \/ c \notin active /\ window' = window \ {c} /\ UNCHANGED <<today, lately>>
    /\ UNCHANGED <<pc, cap, settings, advisory, active>>

\* PATCH /settings waits for the row.
ChangeCap(u) ==
    /\ Free(u)
    /\ \E n \in 0..MaxCap : cap' = [cap EXCEPT ![u] = n]
    /\ UNCHANGED <<pc, settings, advisory, active, today, lately, window>>

LimitsNext ==
    \/ \E c \in Calls : Admit(c) \/ Step(c) \/ BreakOffCall(c) \/ SettleReservation(c) \/ Age(c)
    \/ \E u \in Users : ChangeCap(u)

LimitsSpec == LimitsInit /\ [][LimitsNext]_limitsVars

\* The database runs a transaction that waits for nothing.
LimitsFairSpec == LimitsSpec /\ \A c \in Calls : WF_limitsVars(Step(c))

-----------------------------------------------------------------------------
(* Properties *)

\* A reservation is committed only within the cap that holds at that moment,
\* the new one counted (reserve_application_send, daily_send_cap).
WithinCap ==
    [][\A c \in Calls :
         c \in active' \ active =>
             Cardinality(OfUser(today', User[c])) <= cap'[User[c]]]_limitsVars

\* A Gmail account sends no more than its limit in 24 hours, however many users
\* have connected it (provider_send_events).
WithinAccountLimit ==
    \A a \in Accounts : Cardinality(OfAccount(lately, a)) <= AccountMax

\* In the window no recipient is mailed twice by a user, or from an account.
NoDuplicate ==
    \A c, d \in window :
        /\ c # d
        /\ To[c] = To[d]
        => User[c] # User[d] /\ Account[c] # Account[d]

\* What concurrent calls have counted under their locks holds.
LimitsHold == WithinAccountLimit /\ NoDuplicate

\* The calls never wait for each other for ever: the settings row is always
\* locked before the account.
CallsEnd == \A c \in Calls : (pc[c] = "admitted") ~> (pc[c] = "over")

\* A user has no more active rows than the limit ("Too many automation jobs are
\* already active. Wait for one to finish.", src/app/saas/store.py:56).
\* Does not hold: see the README.
QueueBounded ==
    \A u \in Users : Cardinality(OfUser(active, u)) <= QueueMax

=============================================================================
