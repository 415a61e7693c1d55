----------------------------- MODULE MCService -----------------------------
(* The three parts of the service that are proved about and have no queue,  *)
(* checked side by side: "part" says which of them a behaviour is about,     *)
(* and the others keep their initial state.                                  *)
EXTENDS GmailConnection, AccountDeletion, SendLimits, TLC

CONSTANTS f1, f2, d1, d2, j1, j2, p1, o1, r1, r2, c1, c2, c3, c4, u1, u2, a1, a2, t1, t2

\* The users share account a1; u1 has reconnected with a2 before its last call.
WhoCalls  == c1 :> u1 @@ c2 :> u1 @@ c3 :> u2 @@ c4 :> u1
WithWhich == c1 :> a1 @@ c2 :> a1 @@ c3 :> a1 @@ c4 :> a2
ToWhom    == c1 :> t1 @@ c2 :> t2 @@ c3 :> t1 @@ c4 :> t2

\* A deletion is cut off anywhere.
Anywhere == Pcs \ {"idle"}

Alike == Permutations(Flows) \cup Permutations(Disconnects) \cup Permutations(Requests)

-----------------------------------------------------------------------------
VARIABLE part   \* the model this behaviour is of

vars == <<part, gmailVars, accountVars, limitsVars>>

Init ==
    /\ part \in {"gmail", "account", "limits"}
    /\ GmailInit /\ AccountInit /\ LimitsInit
    \* A part that is idle has one initial state.
    /\ part = "limits" \/ cap = [u \in Users |-> MaxCap]

Next ==
    /\ UNCHANGED part
    /\ \/ part = "gmail"   /\ GmailNext   /\ UNCHANGED <<accountVars, limitsVars>>
       \/ part = "account" /\ AccountNext /\ UNCHANGED <<gmailVars, limitsVars>>
       \/ part = "limits"  /\ LimitsNext  /\ UNCHANGED <<gmailVars, accountVars>>

Spec == Init /\ [][Next]_vars

=============================================================================
