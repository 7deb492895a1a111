------------------------- MODULE TokenRefreshProofs -------------------------
(* Proofs about TokenRefresh, for any number of sign-ins and refreshes. *)
EXTENDS TokenRefresh, TLAPS

\* The inductive invariant holds at the start.
LEMMA InitInv == Init => IInv
  BY CallsAssumption
  DEF Init, IInv, TypeOK, RefreshedWasCurrent, CurrentIsHeld, AnsweredWasStored,
      Held, Calls, InFlight

\* A call that only moves on, without touching the user, keeps the invariant
\* if it does not go where its token would have to have been stored.
LEMMA MoveInv ==
  ASSUME IInv, NEW c \in Calls, NEW next \in {"sign", "update", "refused", "lost"},
         pc[c] \in InFlight, Go(c, next),
         next \in {"sign", "update"} => /\ pc[c] \in {"find", "sign"}
                                        /\ c \in Refreshes => c \in current,
         next = "refused" => pc[c] = "find",
         UNCHANGED <<refreshToken, presented, current, past>>
  PROVE  IInv'
<1>1. TypeOK'
  BY DEF IInv, TypeOK, Go, InFlight
<1>. QED
  BY <1>1 DEF IInv, TypeOK, RefreshedWasCurrent, CurrentIsHeld, AnsweredWasStored,
              Held, Calls, InFlight, Go

\* A stored token is the one of a call about to be answered; the token it
\* replaces joins those that were stored before.
LEMMA UpdateInv ==
  ASSUME IInv, NEW c \in Calls, Update(c)
  PROVE  IInv'
<1>1. TypeOK'
  BY DEF IInv, TypeOK, Update, Store, Go, InFlight
<1>2. c \notin past /\ c # refreshToken
  BY DEF IInv, Update
<1>3. /\ refreshToken' = c
      /\ past' = past \cup ({refreshToken} \ {None})
      /\ presented' = presented
      /\ current \subseteq current'
      /\ \A d \in Calls : presented[d] = c /\ pc[d] \in InFlight => d \in current'
  BY <1>2 DEF Update, Store
<1>4. pc' = [pc EXCEPT ![c] = "answer"] /\ pc[c] = "update"
  BY DEF Update, Go
<1>5. RefreshedWasCurrent'
  BY <1>1, <1>3, <1>4 DEF IInv, TypeOK, RefreshedWasCurrent, Calls
<1>6. CurrentIsHeld'
  BY <1>1, <1>3, <1>4 DEF IInv, TypeOK, CurrentIsHeld
<1>7. AnsweredWasStored'
  BY <1>3, <1>4, CallsAssumption DEF IInv, TypeOK, AnsweredWasStored, Held
<1>8. refreshToken' \notin past'
  BY <1>2, <1>3
<1>9. \A d \in Calls : d = refreshToken' \/ d \in past' =>
        pc'[d] \in {"answer", "answered", "lost"}
  BY <1>3, <1>4, CallsAssumption DEF IInv, TypeOK
<1>10. \A d \in Refreshes : pc'[d] \in InFlight /\ presented'[d] = refreshToken'
         => d \in current'
  BY <1>3, <1>4 DEF IInv, TypeOK, InFlight, Calls
<1>11. \A d \in Refreshes : pc'[d] # "unsent" => presented'[d] # None
  BY <1>3, <1>4 DEF IInv, TypeOK, Calls
<1>12. \A d \in Calls : pc'[d] = "answer" => d = refreshToken' \/ d \in past'
  BY <1>3, <1>4, CallsAssumption DEF IInv, TypeOK
<1>13. \A d \in Refreshes : presented'[d] # None => pc'[presented'[d]] = "answered"
  BY <1>3, <1>4 DEF IInv, TypeOK, Calls
<1>. QED
  BY <1>1, <1>5, <1>6, <1>7, <1>8, <1>9, <1>10, <1>11, <1>12, <1>13 DEF IInv

LEMMA NextInv == IInv /\ [Next]_vars => IInv'
<1>. SUFFICES ASSUME IInv, [Next]_vars PROVE IInv'
  OBVIOUS
<1>1. ASSUME NEW c \in Calls, Send(c) PROVE IInv'
  <2>1. TypeOK'
    BY <1>1 DEF IInv, TypeOK, Send, Go, InFlight, Held
  <2>2. refreshToken' = refreshToken /\ past' = past /\ pc[c] = "unsent"
        /\ pc' = [pc EXCEPT ![c] = "find"]
    BY <1>1 DEF Send, Go
  <2>3. CASE c \in SignIns
    <3>1. presented' = presented /\ current' = current
      BY <1>1, <2>3, CallsAssumption DEF Send
    <3>. QED
      BY <2>1, <2>2, <2>3, <3>1, CallsAssumption
      DEF IInv, TypeOK, RefreshedWasCurrent, CurrentIsHeld, AnsweredWasStored, Held,
          Calls, InFlight
  <2>4. CASE c \in Refreshes
    <3>1. PICK t \in Held : /\ presented' = [presented EXCEPT ![c] = t]
                            /\ current' = IF t = refreshToken THEN current \cup {c}
                                          ELSE current
      BY <1>1, <2>4, CallsAssumption DEF Send
    <3>2. t \in Calls /\ t # None
      BY CallsAssumption DEF Held
    <3>. QED
      BY <2>1, <2>2, <2>4, <3>1, <3>2, CallsAssumption
      DEF IInv, TypeOK, RefreshedWasCurrent, CurrentIsHeld, AnsweredWasStored, Held,
          Calls, InFlight
  <2>. QED
    BY <2>3, <2>4 DEF Calls
<1>2. ASSUME NEW c \in Calls, Find(c) PROVE IInv'
  BY <1>2, MoveInv DEF Find, IInv, InFlight
<1>3. ASSUME NEW c \in Calls, Refuse(c) PROVE IInv'
  BY <1>3, MoveInv DEF Refuse, InFlight
<1>4. ASSUME NEW c \in Calls, Sign(c) PROVE IInv'
  BY <1>4, MoveInv DEF Sign, InFlight, IInv, RefreshedWasCurrent
<1>5. ASSUME NEW c \in Calls, Update(c) PROVE IInv'
  BY <1>5, UpdateInv
<1>6. ASSUME NEW c \in Calls, Answer(c) PROVE IInv'
  <2>1. TypeOK'
    BY <1>6 DEF IInv, TypeOK, Answer, Go, InFlight
  <2>. QED
    BY <1>6, <2>1 DEF IInv, TypeOK, RefreshedWasCurrent, CurrentIsHeld,
                      AnsweredWasStored, Held, Calls, InFlight, Answer, Go
<1>7. ASSUME NEW c \in Calls, Lose(c) PROVE IInv'
  BY <1>7, MoveInv DEF Lose
<1>8. CASE UNCHANGED vars
  BY <1>8 DEF vars, IInv, TypeOK, RefreshedWasCurrent, CurrentIsHeld,
              AnsweredWasStored, Held
<1>. QED
  BY <1>1, <1>2, <1>3, <1>4, <1>5, <1>6, <1>7, <1>8 DEF Next

\* The invariant of the token store holds for any number of concurrent calls.
THEOREM Invariance == Spec => []IInv
  BY InitInv, NextInv, PTL DEF Spec

\* A refresh only gets new tokens for a token that was the current one at some
\* moment since it was sent, whatever the other calls are doing.
THEOREM RefreshesWereCurrent == Spec => []RefreshedWasCurrent
<1>1. IInv => RefreshedWasCurrent
  BY DEF IInv
<1>. QED
  BY <1>1, Invariance, PTL

\* The types hold for any number of concurrent calls of AuthService.
THEOREM TypeCorrect == Spec => []TypeOK
<1>1. IInv => TypeOK
  BY DEF IInv
<1>. QED
  BY <1>1, Invariance, PTL

\* The current token is with a client, on its way to one, or of a call whose
\* process ended between updateUser() and its answer.
THEOREM TokensAreHeld == Spec => []CurrentIsHeld
<1>1. IInv => CurrentIsHeld
  BY DEF IInv
<1>. QED
  BY <1>1, Invariance, PTL

\* Every refresh token a client got from AuthService was the current one.
THEOREM AnsweredWereStored == Spec => []AnsweredWasStored
<1>1. IInv => AnsweredWasStored
  BY DEF IInv
<1>. QED
  BY <1>1, Invariance, PTL

\* A token that was replaced never becomes the current one again.
THEOREM ReplacedTokens == Spec => ReplacedForGood
<1>1. IInv /\ IInv' /\ [Next]_vars => [refreshToken' \notin past]_vars
  <2>. SUFFICES ASSUME IInv, IInv', Next PROVE refreshToken' \notin past
    OBVIOUS
  <2>1. refreshToken' \notin past'
    BY DEF IInv
  <2>2. past \subseteq past'
    BY DEF Next, Send, Find, Refuse, Sign, Update, Store, Answer, Lose
  <2>. QED
    BY <2>1, <2>2
<1>. QED
  BY <1>1, Invariance, PTL DEF Spec, ReplacedForGood

\* Once the answer with the current token was lost, no refresh gets past the
\* check of refreshTokens(): only what was let through before, or a sign-in,
\* can replace the token nobody has.
THEOREM LossesLockOut == Spec => LostLocksOut
<1>1. IInv /\ [Next]_vars =>
        [refreshToken # None /\ pc[refreshToken] = "lost" =>
           \A c \in Refreshes : ~(pc[c] = "find" /\ pc'[c] = "sign")]_vars
  <2>. SUFFICES ASSUME IInv, Next, refreshToken # None, pc[refreshToken] = "lost",
                       NEW c \in Refreshes, pc[c] = "find", pc'[c] = "sign"
                PROVE  FALSE
    OBVIOUS
  <2>1. Find(c)
    BY DEF Next, Send, Find, Refuse, Sign, Update, Answer, Lose, Go, IInv, TypeOK, Calls
  <2>2. presented[c] = refreshToken
    BY <2>1 DEF Find
  <2>3. pc[presented[c]] = "answered"
    BY <2>2 DEF IInv
  <2>. QED
    BY <2>2, <2>3
<1>. QED
  BY <1>1, Invariance, PTL DEF Spec, LostLocksOut

-----------------------------------------------------------------------------
(* What refreshTokens() would owe to a lock, or to an update that looks *)
(* at the token it replaces.                                                *)

\* One call at a time is between its check and its update.
Exclusive ==
  \A c, d \in Calls : pc[c] \in {"sign", "update"} /\ pc[d] \in {"sign", "update"} => c = d

Refreshed == {c \in Refreshes : pc[c] \in {"answer", "answered"}}

\* A refresh token is exchanged for a new one at most once.
SingleUse == \A c, d \in Refreshed : presented[c] = presented[d] => c = d

\* The check still holds when the update comes, and what was exchanged is past.
ExclusiveInv ==
  /\ \A c \in Refreshes : pc[c] \in {"sign", "update"} => presented[c] = refreshToken
  /\ \A c \in Refreshed : presented[c] \in past
  /\ SingleUse

LEMMA NextExclusive ==
  ASSUME IInv, IInv', Exclusive, ExclusiveInv, [Next]_vars
  PROVE  ExclusiveInv'
<1>. USE DEF ExclusiveInv, Refreshed, SingleUse
<1>1. ASSUME NEW c \in Calls, Send(c) PROVE ExclusiveInv'
  <2>1. /\ UNCHANGED <<refreshToken, past>>
        /\ pc' = [pc EXCEPT ![c] = "find"]
        /\ \A d \in Calls : d # c => presented'[d] = presented[d]
    BY <1>1, CallsAssumption DEF Send, Go, IInv, TypeOK
  <2>. QED
    BY <2>1 DEF IInv, TypeOK, Calls
<1>2. ASSUME NEW c \in Calls, Find(c) \/ Refuse(c) \/ Sign(c) \/ Answer(c) \/ Lose(c)
      PROVE  ExclusiveInv'
  <2>1. UNCHANGED <<refreshToken, presented, past>>
    BY <1>2 DEF Find, Refuse, Sign, Answer, Lose
  <2>2. /\ \A d \in Calls : d # c => pc'[d] = pc[d]
        /\ pc'[c] \in {"answer", "answered"} => pc[c] = "answer"
        /\ pc'[c] \in {"sign", "update"} =>
             pc[c] = "sign" \/ (c \in Refreshes => presented[c] = refreshToken)
    BY <1>2 DEF Find, Refuse, Sign, Answer, Lose, Go, IInv, TypeOK
  <2>. QED
    BY <2>1, <2>2 DEF Calls
<1>3. ASSUME NEW c \in Calls, Update(c) PROVE ExclusiveInv'
  <2>1. /\ pc[c] = "update" /\ pc' = [pc EXCEPT ![c] = "answer"]
        /\ refreshToken' = c /\ presented' = presented
        /\ past' = past \cup ({refreshToken} \ {None, c})
    BY <1>3 DEF Update, Store, Go
  <2>2. \A d \in Calls : pc[d] \in {"sign", "update"} => d = c
    BY <2>1 DEF Exclusive
  <2>3. c # refreshToken /\ refreshToken \notin past
    BY <2>1 DEF IInv
  <2>4. c \in Refreshes => /\ presented[c] = refreshToken /\ presented[c] # None
                           /\ presented[c] \in past' /\ presented[c] \notin past
    BY <2>1, <2>3 DEF IInv
  <2>5. \A d \in Refreshed' : d = c \/ d \in Refreshed
    BY <2>1 DEF Calls, IInv, TypeOK
  <2>6. SingleUse'
    BY <2>1, <2>4, <2>5
  <2>. QED
    BY <2>1, <2>2, <2>4, <2>5, <2>6 DEF Calls, IInv, TypeOK
<1>4. CASE UNCHANGED vars
  BY <1>4 DEF vars
<1>. QED
  BY <1>1, <1>2, <1>3, <1>4 DEF Next

\* If one call at a time were between its check and its update, what README.md
\* says of POST /auth/refresh would hold: a refresh replaces the very token it
\* was sent with, so that no token is exchanged twice.
THEOREM ExclusiveRefresh == Spec /\ []Exclusive => RefreshReplacesItsToken /\ []SingleUse
<1>. DEFINE Replaces == \A c \in Refreshes : pc[c] = "update" /\ pc'[c] = "answer" =>
                          presented[c] = refreshToken
<1>1. Init => ExclusiveInv
  BY DEF Init, ExclusiveInv, Refreshed, SingleUse, Calls
<1>2. IInv /\ IInv' /\ Exclusive /\ ExclusiveInv /\ [Next]_vars => ExclusiveInv'
  BY NextExclusive
<1>3. ExclusiveInv => SingleUse /\ Replaces
  BY DEF ExclusiveInv
<1>4. RefreshReplacesItsToken <=> [][Replaces]_vars
  BY DEF RefreshReplacesItsToken
<1>. HIDE DEF Replaces
<1>. QED
  BY <1>1, <1>2, <1>3, <1>4, Invariance, PTL DEF Spec
=============================================================================
