-------------------------- MODULE SendLimitsProofs --------------------------
(***************************************************************************)
(* Proofs about SendLimits, for any number of calls, users and accounts.   *)
(* The argument is the one the code relies on: what a call has counted     *)
(* stays true up to its commit, because whoever could add to it needs a    *)
(* lock the call holds.                                                    *)
(***************************************************************************)
EXTENDS SendLimits, FiniteSetTheorems, TLAPS

Holding == {"counted", "checked"}

\* The locks are with the calls that have counted.
LocksHeld ==
    \A c \in Calls :
        /\ pc[c] \in Holding => settings[User[c]] = c
        /\ pc[c] = "checked" => advisory[Account[c]] = c

\* What a call has counted is still so.
CountsHold ==
    \A c \in Calls :
        /\ pc[c] \in Holding => Cardinality(OfUser(today, User[c])) < cap[User[c]]
        /\ pc[c] = "checked" =>
             Cardinality(OfAccount(lately, Account[c])) < AccountMax /\ ~Mailed(c)

\* A reservation belongs to a call that has ended.
ReservedIsOver ==
    \A c \in Calls : c \in active \cup today \cup lately \cup window => pc[c] = "over"

IInv ==
    /\ LimitsTypeOK
    /\ LocksHeld
    /\ CountsHold
    /\ ReservedIsOver
    /\ WithinAccountLimit
    /\ NoDuplicate

-----------------------------------------------------------------------------
\* Sets of calls are finite, and what leaves them makes no set larger.
LEMMA Fewer ==
    ASSUME NEW S \in SUBSET Calls, NEW T \in SUBSET S
    PROVE  /\ IsFiniteSet(S) /\ IsFiniteSet(T)
           /\ Cardinality(T) \in Nat /\ Cardinality(S) \in Nat
           /\ Cardinality(T) <= Cardinality(S)
<1>1. IsFiniteSet(S)
    BY FS_Subset, LimitsAssumption
<1> QED
    BY <1>1, FS_Subset, FS_CardinalityType

LEMMA FewerOfUser ==
    ASSUME NEW S \in SUBSET Calls, NEW T \in SUBSET S, NEW u
    PROVE  /\ Cardinality(OfUser(T, u)) \in Nat /\ Cardinality(OfUser(S, u)) \in Nat
           /\ Cardinality(OfUser(T, u)) <= Cardinality(OfUser(S, u))
<1>1. OfUser(S, u) \in SUBSET Calls /\ OfUser(T, u) \in SUBSET OfUser(S, u)
    BY DEF OfUser
<1> QED
    BY <1>1, Fewer

LEMMA FewerOfAccount ==
    ASSUME NEW S \in SUBSET Calls, NEW T \in SUBSET S, NEW a
    PROVE  /\ Cardinality(OfAccount(T, a)) \in Nat /\ Cardinality(OfAccount(S, a)) \in Nat
           /\ Cardinality(OfAccount(T, a)) <= Cardinality(OfAccount(S, a))
<1>1. OfAccount(S, a) \in SUBSET Calls /\ OfAccount(T, a) \in SUBSET OfAccount(S, a)
    BY DEF OfAccount
<1> QED
    BY <1>1, Fewer

\* A commit adds one to what its own user and its own account have.
LEMMA OneMoreOfUser ==
    ASSUME NEW S \in SUBSET Calls, NEW c \in Calls, NEW u
    PROVE  /\ User[c] # u => OfUser(S \cup {c}, u) = OfUser(S, u)
           /\ Cardinality(OfUser(S \cup {c}, u)) <= Cardinality(OfUser(S, u)) + 1
<1>1. User[c] # u => OfUser(S \cup {c}, u) = OfUser(S, u)
    BY DEF OfUser
<1>2. IsFiniteSet(OfUser(S, u)) /\ Cardinality(OfUser(S, u)) \in Nat
    <2>1. OfUser(S, u) \in SUBSET Calls
      BY DEF OfUser
    <2> QED
      BY <2>1, Fewer
<1>3. OfUser(S \cup {c}, u) = OfUser(S, u) \/ OfUser(S \cup {c}, u) = OfUser(S, u) \cup {c}
    BY DEF OfUser
<1>4. Cardinality(OfUser(S, u) \cup {c}) <= Cardinality(OfUser(S, u)) + 1
    BY <1>2, FS_AddElement
<1>5. Cardinality(OfUser(S \cup {c}, u)) <= Cardinality(OfUser(S, u)) + 1
  <2>1. CASE OfUser(S \cup {c}, u) = OfUser(S, u)
    <3>1. Cardinality(OfUser(S, u)) <= Cardinality(OfUser(S, u)) + 1
      BY <1>2
    <3> QED
      BY <2>1, <3>1
  <2>2. CASE OfUser(S \cup {c}, u) = OfUser(S, u) \cup {c}
    BY <1>4, <2>2
  <2> QED
    BY <1>3, <2>1, <2>2
<1> QED
    BY <1>1, <1>5

LEMMA OneMoreOfAccount ==
    ASSUME NEW S \in SUBSET Calls, NEW c \in Calls, NEW a
    PROVE  /\ Account[c] # a => OfAccount(S \cup {c}, a) = OfAccount(S, a)
           /\ Cardinality(OfAccount(S \cup {c}, a)) <= Cardinality(OfAccount(S, a)) + 1
<1>1. Account[c] # a => OfAccount(S \cup {c}, a) = OfAccount(S, a)
    BY DEF OfAccount
<1>2. IsFiniteSet(OfAccount(S, a)) /\ Cardinality(OfAccount(S, a)) \in Nat
    <2>1. OfAccount(S, a) \in SUBSET Calls
      BY DEF OfAccount
    <2> QED
      BY <2>1, Fewer
<1>3. OfAccount(S \cup {c}, a) = OfAccount(S, a)
      \/ OfAccount(S \cup {c}, a) = OfAccount(S, a) \cup {c}
    BY DEF OfAccount
<1>4. Cardinality(OfAccount(S, a) \cup {c}) <= Cardinality(OfAccount(S, a)) + 1
    BY <1>2, FS_AddElement
<1>5. Cardinality(OfAccount(S \cup {c}, a)) <= Cardinality(OfAccount(S, a)) + 1
  <2>1. CASE OfAccount(S \cup {c}, a) = OfAccount(S, a)
    <3>1. Cardinality(OfAccount(S, a)) <= Cardinality(OfAccount(S, a)) + 1
      BY <1>2
    <3> QED
      BY <2>1, <3>1
  <2>2. CASE OfAccount(S \cup {c}, a) = OfAccount(S, a) \cup {c}
    BY <1>4, <2>2
  <2> QED
    BY <1>3, <2>1, <2>2
<1> QED
    BY <1>1, <1>5

-----------------------------------------------------------------------------
LEMMA InitIInv == LimitsInit => IInv
<1> SUFFICES ASSUME LimitsInit PROVE IInv
    OBVIOUS
<1> USE LimitsAssumption DEF LimitsInit
<1>1. LimitsTypeOK /\ LocksHeld /\ CountsHold /\ ReservedIsOver /\ NoDuplicate
    BY DEF LimitsTypeOK, LocksHeld, CountsHold, ReservedIsOver, NoDuplicate, Holding
<1>2. WithinAccountLimit
  <2>1. ASSUME NEW a \in Accounts PROVE Cardinality(OfAccount(lately, a)) = 0
    <3>1. OfAccount(lately, a) = {}
      BY DEF OfAccount
    <3> QED
      BY <3>1, FS_EmptySet
  <2> QED
    BY <2>1 DEF WithinAccountLimit
<1> QED
    BY <1>1, <1>2 DEF IInv

\* A step that adds no reservation, and changes no cap a call has counted
\* against, keeps every count.
LEMMA FewerKeeps ==
    ASSUME IInv, LimitsTypeOK', LocksHeld', ReservedIsOver',
           today' \subseteq today, lately' \subseteq lately, window' \subseteq window,
           \A c \in Calls : pc'[c] \in Holding /\ pc[c] \in Holding
                              => cap'[User[c]] = cap[User[c]],
           \A c \in Calls : pc'[c] \in Holding /\ pc[c] \notin Holding
                              => Cardinality(OfUser(today', User[c])) < cap'[User[c]],
           \A c \in Calls : pc'[c] = "checked" /\ pc[c] # "checked"
                              => /\ pc[c] \in Holding
                                 /\ Cardinality(OfAccount(lately', Account[c])) < AccountMax
                                 /\ ~Mailed(c)'
    PROVE  IInv'
<1> USE LimitsAssumption DEF IInv
<1>1. today \in SUBSET Calls /\ lately \in SUBSET Calls
    BY DEF LimitsTypeOK
<1>2. ASSUME NEW c \in Calls, pc'[c] \in Holding
      PROVE  Cardinality(OfUser(today', User[c])) < cap'[User[c]]
  <2>1. CASE pc[c] \notin Holding
    BY <1>2, <2>1
  <2>2. CASE pc[c] \in Holding
    <3>1. Cardinality(OfUser(today, User[c])) < cap[User[c]] /\ cap'[User[c]] = cap[User[c]]
      BY <1>2, <2>2 DEF CountsHold
    <3>2. cap[User[c]] \in Nat
      BY DEF LimitsTypeOK
    <3> QED
      BY <1>1, <3>1, <3>2, FewerOfUser
  <2> QED
    BY <2>1, <2>2
<1>3. ASSUME NEW c \in Calls, pc'[c] = "checked"
      PROVE  Cardinality(OfAccount(lately', Account[c])) < AccountMax /\ ~Mailed(c)'
  <2>1. CASE pc[c] # "checked"
    BY <1>3, <2>1
  <2>2. CASE pc[c] = "checked"
    <3>1. Cardinality(OfAccount(lately, Account[c])) < AccountMax /\ ~Mailed(c)
      BY <2>2 DEF CountsHold
    <3>2. ~Mailed(c)'
      BY <3>1 DEF Mailed
    <3> QED
      BY <1>1, <3>1, <3>2, FewerOfAccount
  <2> QED
    BY <2>1, <2>2
<1>4. CountsHold'
    BY <1>2, <1>3 DEF CountsHold
<1>5. WithinAccountLimit'
  <2>1. ASSUME NEW a \in Accounts PROVE Cardinality(OfAccount(lately', a)) <= AccountMax
    BY <1>1, FewerOfAccount DEF WithinAccountLimit
  <2> QED
    BY <2>1 DEF WithinAccountLimit
<1>6. NoDuplicate'
    BY DEF NoDuplicate
<1> QED
    BY <1>4, <1>5, <1>6

\* The commit: the locks the call holds keep the others' counts apart from it.
LEMMA CommitStep ==
    ASSUME IInv, NEW c \in Calls, Commit(c)
    PROVE  IInv' /\ Cardinality(OfUser(today', User[c])) <= cap'[User[c]]
<1> USE LimitsAssumption DEF IInv
<1>1. LimitsTypeOK' /\ LocksHeld' /\ ReservedIsOver'
    BY DEF Commit, Over, LimitsTypeOK, LocksHeld, ReservedIsOver, Holding
<1>2. /\ pc[c] = "checked" /\ settings[User[c]] = c /\ advisory[Account[c]] = c
      /\ today' = today \cup {c} /\ lately' = lately \cup {c} /\ window' = window \cup {c}
      /\ cap' = cap
      /\ \A d \in Calls : pc'[d] = IF d = c THEN "over" ELSE pc[d]
    BY DEF Commit, Over, LocksHeld, LimitsTypeOK, Holding
<1>3. today \in SUBSET Calls /\ lately \in SUBSET Calls /\ window \in SUBSET Calls
    BY DEF LimitsTypeOK
<1>4. /\ Cardinality(OfUser(today, User[c])) < cap[User[c]]
      /\ Cardinality(OfAccount(lately, Account[c])) < AccountMax
      /\ ~Mailed(c)
    BY <1>2 DEF CountsHold, Holding
<1>5. ASSUME NEW d \in Calls, d # c, pc[d] \in Holding PROVE User[d] # User[c]
    BY <1>2, <1>5 DEF LocksHeld
<1>6. ASSUME NEW d \in Calls, d # c, pc[d] = "checked" PROVE Account[d] # Account[c]
    BY <1>2, <1>6 DEF LocksHeld
<1>7. CountsHold'
  <2>1. ASSUME NEW d \in Calls, pc'[d] \in Holding
        PROVE  Cardinality(OfUser(today', User[d])) < cap'[User[d]]
    <3>1. d # c /\ pc[d] \in Holding
      BY <1>2, <2>1 DEF Holding
    <3>2. OfUser(today', User[d]) = OfUser(today, User[d])
      BY <1>2, <1>3, <1>5, <3>1, OneMoreOfUser
    <3> QED
      BY <1>2, <3>1, <3>2 DEF CountsHold
  <2>2. ASSUME NEW d \in Calls, pc'[d] = "checked"
        PROVE  Cardinality(OfAccount(lately', Account[d])) < AccountMax /\ ~Mailed(d)'
    <3>1. d # c /\ pc[d] = "checked" /\ pc[d] \in Holding
      BY <1>2, <2>2 DEF Holding
    <3>2. OfAccount(lately', Account[d]) = OfAccount(lately, Account[d])
      BY <1>2, <1>3, <1>6, <3>1, OneMoreOfAccount
    <3>3. ~Mailed(d)'
      BY <1>2, <1>5, <1>6, <3>1 DEF CountsHold, Mailed
    <3> QED
      BY <3>1, <3>2, <3>3 DEF CountsHold
  <2> QED
    BY <2>1, <2>2 DEF CountsHold
<1>8. WithinAccountLimit'
  <2>1. ASSUME NEW a \in Accounts PROVE Cardinality(OfAccount(lately', a)) <= AccountMax
    <3>1. CASE a = Account[c]
      <4>1. Cardinality(OfAccount(lately, a)) \in Nat
        BY <1>3, FewerOfAccount
      <4> QED
        <5>1. /\ Cardinality(OfAccount(lately', a)) <= Cardinality(OfAccount(lately, a)) + 1
              /\ Cardinality(OfAccount(lately, a)) < AccountMax
          BY <1>2, <1>3, <1>4, <3>1, OneMoreOfAccount
        <5>2. Cardinality(OfAccount(lately', a)) \in Nat
          BY <1>1, FewerOfAccount DEF LimitsTypeOK
        <5> QED
          BY <4>1, <5>1, <5>2
    <3>2. CASE a # Account[c]
      BY <1>2, <1>3, <3>2, OneMoreOfAccount DEF WithinAccountLimit
    <3> QED
      BY <3>1, <3>2
  <2> QED
    BY <2>1 DEF WithinAccountLimit
<1>9. NoDuplicate'
    BY <1>2, <1>4 DEF NoDuplicate, Mailed
<1>10. Cardinality(OfUser(today', User[c])) <= cap'[User[c]]
  <2>1. Cardinality(OfUser(today, User[c])) \in Nat
    BY <1>3, FewerOfUser
  <2>2. /\ Cardinality(OfUser(today', User[c])) <= Cardinality(OfUser(today, User[c])) + 1
        /\ Cardinality(OfUser(today', User[c])) \in Nat
    BY <1>2, <1>3, OneMoreOfUser, FewerOfUser
  <2>3. cap[User[c]] \in Nat
    BY DEF LimitsTypeOK
  <2> QED
    BY <1>2, <1>4, <2>1, <2>2, <2>3
<1> QED
    BY <1>1, <1>7, <1>8, <1>9, <1>10

\* Every step keeps the invariant.
LEMMA NextIInv == IInv /\ [LimitsNext]_limitsVars => IInv'
<1> SUFFICES ASSUME IInv, [LimitsNext]_limitsVars PROVE IInv'
    OBVIOUS
<1> USE LimitsAssumption DEF IInv
<1>1. CASE UNCHANGED limitsVars
    BY <1>1 DEF limitsVars, LimitsTypeOK, LocksHeld, CountsHold, ReservedIsOver, WithinAccountLimit,
       NoDuplicate, Mailed
<1>2. ASSUME NEW c \in Calls, Admit(c) PROVE IInv'
  <2>1. LimitsTypeOK' /\ LocksHeld' /\ ReservedIsOver'
    BY <1>2 DEF Admit, LimitsTypeOK, LocksHeld, ReservedIsOver, Holding
  <2> QED
    BY <1>2, <2>1, FewerKeeps DEF Admit, LimitsTypeOK, Holding
<1>3. ASSUME NEW c \in Calls, Count(c) PROVE IInv'
  <2>1. LimitsTypeOK' /\ ReservedIsOver'
    BY <1>3 DEF Count, LimitsTypeOK, ReservedIsOver
  <2>2. LocksHeld'
    BY <1>3 DEF Count, Free, LimitsTypeOK, LocksHeld, Holding
  <2> QED
    BY <1>3, <2>1, <2>2, FewerKeeps DEF Count, LimitsTypeOK, Holding
<1>4. ASSUME NEW c \in Calls, Check(c) PROVE IInv'
  <2>1. LimitsTypeOK' /\ ReservedIsOver'
    BY <1>4 DEF Check, LimitsTypeOK, ReservedIsOver
  <2>2. LocksHeld'
    BY <1>4 DEF Check, LimitsTypeOK, LocksHeld, Holding
  <2> QED
    BY <1>4, <2>1, <2>2, FewerKeeps DEF Check, LimitsTypeOK, Holding, Mailed
<1>5. ASSUME NEW c \in Calls, Refuse(c) \/ BreakOffCall(c) PROVE IInv'
  <2>1. Over(c) /\ UNCHANGED <<cap, active, today, lately, window>>
    BY <1>5 DEF Refuse, BreakOffCall
  <2>2. \A d \in Calls : pc'[d] = IF d = c THEN "over" ELSE pc[d]
    BY <2>1 DEF Over, LimitsTypeOK
  <2>3. LimitsTypeOK' /\ ReservedIsOver'
    BY <2>1 DEF Over, LimitsTypeOK, ReservedIsOver
  <2>4. LocksHeld'
    BY <2>1, <2>2 DEF Over, LimitsTypeOK, LocksHeld, Holding
  <2> QED
    BY <2>1, <2>2, <2>3, <2>4, FewerKeeps DEF Holding
<1>6. ASSUME NEW c \in Calls, SettleReservation(c) \/ Age(c) PROVE IInv'
  <2>1. /\ UNCHANGED <<pc, cap, settings, advisory>> /\ active' \subseteq active
        /\ today' \subseteq today /\ lately' \subseteq lately /\ window' \subseteq window
    BY <1>6 DEF SettleReservation, Age
  <2>2. LimitsTypeOK' /\ LocksHeld' /\ ReservedIsOver'
    BY <2>1 DEF LimitsTypeOK, LocksHeld, ReservedIsOver
  <2> QED
    BY <2>1, <2>2, FewerKeeps
<1>7. ASSUME NEW u \in Users, ChangeCap(u) PROVE IInv'
  <2>1. LimitsTypeOK' /\ LocksHeld' /\ ReservedIsOver'
    BY <1>7 DEF ChangeCap, LimitsTypeOK, LocksHeld, ReservedIsOver
  <2>2. ASSUME NEW c \in Calls, pc[c] \in Holding PROVE cap'[User[c]] = cap[User[c]]
    BY <1>7, <2>2 DEF ChangeCap, Free, LocksHeld, LimitsTypeOK
  <2> QED
    BY <1>7, <2>1, <2>2, FewerKeeps DEF ChangeCap
<1> QED
    BY <1>1, <1>2, <1>3, <1>4, <1>5, <1>6, <1>7, CommitStep DEF LimitsNext, Step

\* The inductive invariant holds in every reachable state.
THEOREM LimitsInvariant == LimitsSpec => []IInv
<1> QED
    BY InitIInv, NextIInv, PTL DEF LimitsSpec

\* Type correctness.
THEOREM TypeCorrect == LimitsSpec => []LimitsTypeOK
<1>1. IInv => LimitsTypeOK
    BY DEF IInv
<1> QED
    BY LimitsInvariant, <1>1, PTL

\* A Gmail account stays within its limit, whoever uses it, and nobody is mailed
\* twice in the window by a user or from an account.
THEOREM CountsAreExact == LimitsSpec => []LimitsHold
<1>1. IInv => LimitsHold
    BY DEF IInv, LimitsHold
<1> QED
    BY LimitsInvariant, <1>1, PTL

\* Every reservation is within the cap in force when it is committed.
THEOREM CapHolds == LimitsSpec => WithinCap
<1> DEFINE A == \A c \in Calls :
                  c \in active' \ active =>
                      Cardinality(OfUser(today', User[c])) <= cap'[User[c]]
<1>1. IInv /\ [LimitsNext]_limitsVars => [A]_limitsVars
  <2> SUFFICES ASSUME IInv, LimitsNext, NEW c \in Calls, c \in active' \ active
               PROVE  Cardinality(OfUser(today', User[c])) <= cap'[User[c]]
    OBVIOUS
  <2>1. Commit(c)
    BY DEF LimitsNext, Step, Admit, Count, Check, Commit, Refuse, BreakOffCall,
        SettleReservation, Age, ChangeCap
  <2> QED
    BY <2>1, CommitStep
<1> QED
    BY <1>1, LimitsInvariant, PTL DEF LimitsSpec, WithinCap

=============================================================================
