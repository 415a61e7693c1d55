------------------------------ MODULE MCPages ------------------------------
(* The parts of Pages on small instances.                                    *)
EXTENDS Pages, TLC

CONSTANTS a1, m1, j1, before, t1, s1

\* A part that is idle has one initial state.
MCInit ==
    /\ Init
    /\ part \in {"desk", "sends"} \/ deskRow[a1].content = [to |-> NoRecipient, text |-> m1]
    /\ part = "draft" \/ draftContact[j1] = a1
    /\ part = "profile" \/ profileRow = [f \in {"phone", "skills"} |-> "blank"]
    /\ part = "sync" \/ (syncRow = before /\ syncLater[a1] = 0)
    /\ part \in {"slot", "upload"} \/ resumePage[t1].slot = 1
    /\ part = "work" \/ (workView = "other" /\ workRefreshes[s1] # NoRefresh)

MCSpec == MCInit /\ [][Next]_vars

Alike == Permutations(Tabs) \cup Permutations(OtherTexts)

=============================================================================
