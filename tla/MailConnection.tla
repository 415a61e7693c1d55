--------------------------- MODULE MailConnection ---------------------------
(***************************************************************************)
(* What the Gmail connection of a user and the sends that are reserved for *)
(* it promise each other: a send is reserved only while the account is     *)
(* connected, and while one is pending nothing starts, saves or ends a     *)
(* connection.  GmailConnection implements it with generations, one-time   *)
(* states and handlers that are cut off, EmailDelivery with its ledger.    *)
(***************************************************************************)
VARIABLES
    gmail,      \* "changing": a lifecycle that is connecting or disconnecting
                \* with a connection still on file
    pending     \* a reservation is pending_provider

vars == <<gmail, pending>>

Init == gmail = "disconnected" /\ pending = FALSE

\* A flow or a disconnect begins on a connection in use.
Begin ==
    /\ ~pending
    /\ gmail = "connected" /\ gmail' = "changing"
    /\ UNCHANGED pending

\* A flow that has not been overtaken saves its connection.
Save ==
    /\ ~pending
    /\ gmail' = "connected"
    /\ UNCHANGED pending

\* A disconnect deletes what is left.
End ==
    /\ gmail = "changing" /\ gmail' = "disconnected"
    /\ UNCHANGED pending

Reserve ==
    /\ gmail = "connected"
    /\ pending' = TRUE
    /\ UNCHANGED gmail

Settle ==
    /\ pending' = FALSE
    /\ UNCHANGED gmail

Next == Begin \/ Save \/ End \/ Reserve \/ Settle

Spec == Init /\ [][Next]_vars

=============================================================================
