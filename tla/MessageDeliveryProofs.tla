----------------------- MODULE MessageDeliveryProofs -----------------------
(***************************************************************************)
(* PuppeteerService implements MessageDelivery, for any jobs, leads and    *)
(* pages.  All but two kinds of steps are quiet: they accept nothing, put  *)
(* no key into a composer and at most remove some, which the abstract      *)
(* specification sees as the loss of those keys, or as nothing.  The two   *)
(* are the pressing of one key and a click on a send button.               *)
(***************************************************************************)
EXTENDS PuppeteerServiceProofs

\* A job that gets to its message field has not pressed a key of the message.
Quiet ==
  /\ UNCHANGED outbox
  /\ \A p \in Jobs : draft'[p] \subseteq draft[p]
  /\ \A j \in Jobs : keys[j] <= keys'[j]
  /\ \A j \in Jobs : pc[j] = "done" => pc'[j] = "done"
  /\ \A j \in Jobs : pc'[j] = "text" =>
       (pc[j] = "text" /\ on'[j] = on[j]) \/ keys[j] <= Subject[j]

\* A job that moves on without pressing a key is quiet.
LEMMA MoveQuiet ==
  ASSUME TypeOK, NEW j \in Jobs, pc[j] # "done", NEW next, next # "text", NEW p,
         ContinueOn(j, next, p), UNCHANGED <<keys, draft, outbox>>
  PROVE  Quiet
<1>1. /\ pc' = [pc EXCEPT ![j] = next] /\ on' = [on EXCEPT ![j] = p]
      /\ keys' = keys /\ draft' = draft /\ outbox' = outbox
  BY DEF ContinueOn
<1>2. \A k \in Jobs : keys[k] \in Nat
  BY JobsAssumption DEF TypeOK
<1>3. \A k \in Jobs : k # j => pc'[k] = pc[k] /\ on'[k] = on[k]
  BY <1>1 DEF TypeOK
<1>4. pc'[j] = next
  BY <1>1 DEF TypeOK
<1>. QED
  BY <1>1, <1>2, <1>3, <1>4 DEF Quiet

LEMMA ContinueQuiet ==
  ASSUME TypeOK, NEW j \in Jobs, pc[j] # "done", NEW next, next # "text",
         Continue(j, next), UNCHANGED <<keys, draft, outbox>>
  PROVE  Quiet
  BY MoveQuiet DEF Continue

\* So is the end of a task function.
LEMMA EndQuiet ==
  ASSUME TypeOK, NEW j \in Jobs, NEW outcome, End(j, outcome), UNCHANGED <<keys, outbox>>
  PROVE  Quiet
<1>1. /\ pc' = [pc EXCEPT ![j] = "done"] /\ on' = [on EXCEPT ![j] = None]
      /\ draft' = [draft EXCEPT ![j] = {}]
  BY DEF End, ClosePage
<1>2. \A k \in Jobs : keys[k] \in Nat
  BY JobsAssumption DEF TypeOK
<1>. QED
  BY <1>1, <1>2 DEF TypeOK, Quiet

\* So is the end of the process.
LEMMA CrashQuiet ==
  ASSUME TypeOK, Crash
  PROVE  Quiet
<1>1. /\ outbox' = outbox /\ keys' = keys
      /\ pc' = [j \in Jobs |-> IF Running(j) THEN "done" ELSE pc[j]]
      /\ draft' = [j \in Jobs |-> {}]
  BY DEF Crash
<1>2. \A k \in Jobs : keys[k] \in Nat
  BY JobsAssumption DEF TypeOK
<1>3. \A k \in Jobs : pc'[k] # "text" /\ (pc[k] = "done" => pc'[k] = "done")
  BY <1>1 DEF Running, Awaits
<1>. QED
  BY <1>1, <1>2, <1>3 DEF TypeOK, Quiet

\* A click into the field for the subject or for the message is quiet too.
LEMMA ClickFieldQuiet ==
  ASSUME IInv, NEW j \in Jobs, ClickSubject(j) \/ ClickField(j)
  PROVE  Quiet
<1>. USE DEF IInv
<1>1. \A k \in Jobs : keys[k] \in Nat /\ Subject[k] \in Nat
  BY JobsAssumption DEF TypeOK
<1>2. /\ pc[j] \in {"theme", "button"} /\ UNCHANGED <<draft, outbox>>
      /\ \A k \in Jobs : k # j => pc'[k] = pc[k] /\ on'[k] = on[k] /\ keys'[k] = keys[k]
      /\ keys'[j] \in {keys[j], Subject[j]}
      /\ pc'[j] # "done"
  BY DEF ClickSubject, ClickField, Focus, TypeOK, composer
<1>3. keys[j] <= Subject[j]
  BY <1>2 DEF KeysInv, PastClick
<1>4. \A k \in Jobs : keys[k] <= keys'[k]
  BY <1>1, <1>2, <1>3
<1>. QED
  BY <1>2, <1>3, <1>4 DEF Quiet

\* Steps of a job that are not the pressing of a key or a click that sends.
LEMMA StepQuiet ==
  ASSUME IInv, NEW j \in Jobs, Step(j), ~PressKey(j), ~ClickSend(j)
  PROVE  Quiet
<1>0. TypeOK
  BY DEF IInv
<1>. USE <1>0 DEF composer, pages
<1>1. CASE Start(j)
  <2>1. /\ pc' = [pc EXCEPT ![j] = "cookies"] /\ pc[j] = "queued"
        /\ on' = [on EXCEPT ![j] = j] /\ UNCHANGED composer
    BY <1>1 DEF Start
  <2>2. \A k \in Jobs : keys[k] \in Nat
    BY JobsAssumption DEF TypeOK
  <2>. QED
    BY <2>1, <2>2 DEF TypeOK, Quiet
<1>2. CASE OpenLead(j)
  BY <1>2, ContinueQuiet DEF OpenLead
<1>3. CASE Opened(j)
  BY <1>3, ContinueQuiet DEF Opened
<1>4. CASE CheckAuth(j)
  BY <1>4, ContinueQuiet DEF CheckAuth
<1>5. CASE Landed(j)
  BY <1>5, ContinueQuiet DEF Landed
<1>6. CASE Hop(j)
  <2>1. PICK h \in Hops(Kind[j]) : pc[j] = h[1] /\ Continue(j, h[2])
    BY <1>6, HopIsListed
  <2>2. Kind[j] \in Kinds
    BY JobsAssumption
  <2>3. h[1] # "done" /\ h[2] # "text"
    BY <2>2 DEF Kinds, Hops
  <2>. QED
    BY <1>6, <2>1, <2>3, ContinueQuiet DEF Hop
<1>7. CASE StoreUserIds(j)
  BY <1>7, ContinueQuiet DEF StoreUserIds
<1>8. CASE ParseFields(j)
  BY <1>8, ContinueQuiet DEF ParseFields, NextPart
<1>9. CASE ReadSources(j)
  BY <1>9, ContinueQuiet DEF ReadSources
<1>10. CASE ChooseSource(j)
  <2>1. PICK next \in {"recipient", "theme", "compose"} :
             /\ Continue(j, next)
             /\ pc[j] \in {"target", "contact"}
             /\ UNCHANGED <<keys, draft, outbox>>
    BY <1>10 DEF ChooseSource
  <2>. QED
    BY <2>1, ContinueQuiet
<1>11. CASE FindField(j)
  BY <1>11, ContinueQuiet DEF FindField
<1>12. CASE ClickSubject(j) \/ ClickField(j)
  BY <1>12, ClickFieldQuiet
<1>13. CASE Typed(j)
  BY <1>13, ContinueQuiet, MoveQuiet DEF Typed
<1>14. CASE Reload(j) \/ Reloaded(j)
  BY <1>14, ContinueQuiet DEF Reload, Reloaded
<1>15. CASE ReturnLead(j) \/ ReturnSources(j) \/ ReturnWithoutChats(j) \/ ReturnChats(j)
              \/ ReturnNotSent(j) \/ ReturnSent(j) \/ Fail(j)
  BY <1>15, EndQuiet
  DEF ReturnLead, ReturnSources, ReturnWithoutChats, ReturnChats, ReturnNotSent,
      ReturnSent, Fail, Return
<1>16. CASE Timeout(j)
  <2>1. /\ draft' = [draft EXCEPT ![j] = {}]
        /\ UNCHANGED <<pc, on, keys, outbox>>
    BY <1>16 DEF Timeout, ClosePage, control
  <2>2. \A k \in Jobs : keys[k] \in Nat
    BY JobsAssumption DEF TypeOK
  <2>. QED
    BY <2>1, <2>2 DEF TypeOK, Quiet
<1>17. CASE Rethrow(j)
  BY <1>17, CrashQuiet DEF Rethrow
<1>. QED
  BY <1>1, <1>2, <1>3, <1>4, <1>5, <1>6, <1>7, <1>8, <1>9, <1>10, <1>11, <1>12, <1>13,
     <1>14, <1>15, <1>16, <1>17 DEF Step

\* So is everything a browser does.
LEMMA BrowserQuiet ==
  ASSUME TypeOK, NEW p \in Jobs, Browser(p)
  PROVE  Quiet
<1>0. \A k \in Jobs : keys[k] \in Nat
  BY JobsAssumption DEF TypeOK
<1>1. CASE Arrive(p)
  <2>1. /\ UNCHANGED <<on, keys, outbox>>
        /\ draft' = [draft EXCEPT ![p] = {}]
        /\ \A j \in Jobs : \/ pc'[j] = pc[j]
                           \/ pc[j] = "navigation" /\ pc'[j] = "landed"
                           \/ pc[j] = "renavigation" /\ pc'[j] = "relanded"
    BY <1>1 DEF Arrive
  <2>2. \A q \in Jobs : draft'[q] \subseteq draft[q]
    BY <2>1 DEF TypeOK
  <2>3. \A j \in Jobs : /\ pc[j] = "done" => pc'[j] = "done"
                        /\ pc'[j] = "text" => pc[j] = "text"
    BY <2>1
  <2>. QED
    BY <1>0, <2>1, <2>2, <2>3 DEF Quiet
<1>2. CASE Request(p) \/ Probe(p) \/ Submit(p)
  BY <1>0, <1>2 DEF Request, Probe, Submit, Quiet, control, composer
<1>. QED
  BY <1>1, <1>2 DEF Browser

-----------------------------------------------------------------------------
(* Quiet steps. *)

\* A key of a message comes after its subject, and its number is the order.
LEMMA KeyFacts ==
  ASSUME TypeOK
  PROVE  /\ \A j \in Jobs : keys[j] \in Nat /\ Subject[j] \in Nat
         /\ \A c \in Keys : c[1] \in Jobs /\ c[2] \in Nat
         /\ \A o \in Order : /\ o[1] \in Keys /\ o[2] \in Keys /\ o[1][1] = o[2][1]
                             /\ Subject[o[1][1]] < o[1][2] /\ o[1][2] < o[2][2]
         /\ \A p \in Jobs : draft[p] \subseteq Keys
  BY JobsAssumption DEF TypeOK, Keys, Order

LEMMA QuietInv ==
  ASSUME IInv, DeliveryInv, Quiet
  PROVE  DeliveryInv'
<1>. USE DEF DeliveryInv
<1>0. TypeOK /\ KeysInv
  BY DEF IInv
<1>1. Sent' = Sent /\ \A p \in Jobs : draft'[p] \subseteq draft[p]
  BY DEF Sent, Quiet
<1>2. \A p, q \in Jobs : draft'[p] \cap draft'[q] # {} => p = q
  BY <1>1
<1>3. \A p \in Jobs : draft'[p] \cap Sent' = {}
  BY <1>1
<1>4. \A p, q \in Jobs : \A o \in Order : o[1] \in draft'[p] /\ o[2] \in draft'[q] => p = q
  BY <1>1
<1>5. ASSUME NEW p \in Jobs, NEW j \in Jobs, pc'[j] = "text", draft'[p] \cap Whole(j) # {}
      PROVE  p = on'[j]
  <2>1. draft[p] \cap Whole(j) # {}
    BY <1>1, <1>5
  <2>2. keys[j] > Subject[j]
    <3>1. PICK c \in draft[p] : c \in Whole(j)
      BY <2>1
    <3>2. c[1] = j /\ c[2] > Subject[j] /\ c[2] \in Nat /\ c[2] <= keys[j]
      BY <1>0, <3>1, WholeKeys DEF KeysInv
    <3>. QED
      BY <1>0, <3>2, KeyFacts
  <2>3. pc[j] = "text" /\ on'[j] = on[j]
    BY <1>0, <1>5, <2>2, KeyFacts DEF Quiet
  <2>. QED
    BY <2>1, <2>3
<1>. QED
  BY <1>2, <1>3, <1>4, <1>5

\* A quiet step keeps every key where it is, or loses it.
LEMMA QuietLoses ==
  ASSUME TypeOK, TypeOK', Quiet
  PROVE  Sending!Lose
<1>1. Waiting' \subseteq Waiting
  <2>1. \A c \in Keys : c[1] \in Jobs /\ c[2] \in Nat /\ keys[c[1]] \in Nat /\ keys'[c[1]] \in Nat
    BY JobsAssumption DEF TypeOK, Keys
  <2>. QED
    BY <2>1 DEF Waiting, Quiet
<1>2. Drafted' \subseteq Drafted
  BY DEF Drafted, Quiet
<1>. QED
  BY <1>1, <1>2 DEF Sending!Lose, Quiet

-----------------------------------------------------------------------------
(* A key is pressed. *)

LEMMA PressKeyFacts ==
  ASSUME IInv, NEW j \in Jobs, PressKey(j), NEW c, c = <<j, keys[j] + 1>>
  PROVE  /\ c \in Keys /\ c[1] = j /\ c[2] = keys[j] + 1
         /\ pc[j] \in {"subject", "text"} /\ UNCHANGED <<pc, on, outbox>>
         /\ pc[j] = "text" => c \in Whole(j)
         /\ pc[j] = "subject" => c \notin Whole(j)
         /\ keys' = [keys EXCEPT ![j] = @ + 1]
         /\ on[j] \in Jobs
         /\ \A p \in Jobs : \/ draft'[p] \subseteq draft[p]
                            \/ p = on[j] /\ draft'[p] \subseteq draft[p] \cup {c}
<1>0. TypeOK /\ KeysInv
  BY DEF IInv
<1>1. Length \in Nat /\ Subject[j] \in 0..Length /\ keys[j] \in 0..Length
  BY <1>0, JobsAssumption DEF TypeOK
<1>2. /\ pc[j] \in {"subject", "text"} /\ UNCHANGED <<pc, on, outbox>>
      /\ keys' = [keys EXCEPT ![j] = @ + 1] /\ keys[j] < LastKey(j)
      /\ on[j] \in Jobs
  BY <1>0 DEF PressKey, control, Answers, Shows, TypeOK
<1>3. keys'[j] = keys[j] + 1
  BY <1>0, <1>2 DEF TypeOK
<1>4. LastKey(j) = (IF pc[j] = "subject" THEN Subject[j] ELSE Length)
  BY DEF LastKey
<1>5. c \in Keys
  BY <1>1, <1>2, <1>4 DEF Keys
<1>6. pc[j] = "text" => c \in Whole(j)
  <2>1. pc[j] = "text" => keys[j] >= Subject[j]
    BY <1>0 DEF KeysInv
  <2>. QED
    BY <1>1, <1>5, <2>1, WholeKeys
<1>7. pc[j] = "subject" => c \notin Whole(j)
  BY <1>1, <1>2, <1>4, WholeKeys
<1>8. \/ UNCHANGED draft
      \/ \E kept \in Kept(j, on[j]) : draft' = [draft EXCEPT ![on[j]] = kept \cup {c}]
  BY <1>3 DEF PressKey
<1>9. \A kept \in Kept(j, on[j]) : kept \subseteq draft[on[j]]
  BY DEF Kept
<1>10. \A p \in Jobs : \/ draft'[p] \subseteq draft[p]
                       \/ p = on[j] /\ draft'[p] \subseteq draft[p] \cup {c}
  BY <1>0, <1>8, <1>9 DEF TypeOK
<1>. QED
  BY <1>2, <1>5, <1>6, <1>7, <1>10

\* It was neither in a field nor sent, and no later key of its message is.
LEMMA FreshKey ==
  ASSUME IInv, NEW c \in Keys, c[2] > keys[c[1]]
  PROVE  /\ \A p \in Jobs : c \notin draft[p]
         /\ c \notin Sent
         /\ \A o \in Order : o[1] = c => \A p \in Jobs : o[2] \notin draft[p]
<1>0. TypeOK /\ KeysInv
  BY DEF IInv
<1>1. c[1] \in Jobs /\ c[2] \in Nat /\ keys[c[1]] \in Nat
  BY <1>0, KeyFacts
<1>2. (\A p \in Jobs : c \notin draft[p]) /\ c \notin Sent
  BY <1>0, <1>1 DEF KeysInv
<1>3. ASSUME NEW o \in Order, o[1] = c, NEW p \in Jobs, o[2] \in draft[p]
      PROVE  FALSE
  <2>1. o[2][1] = c[1] /\ o[2][2] > c[2] /\ o[2][2] \in Nat
    BY <1>0, <1>3, KeyFacts
  <2>2. o[2][2] <= keys[o[2][1]]
    BY <1>0, <1>3 DEF KeysInv
  <2>. QED
    BY <1>1, <2>1, <2>2
<1>. QED
  BY <1>2, <1>3

LEMMA PressKeyInv ==
  ASSUME IInv, DeliveryInv, NEW j \in Jobs, PressKey(j)
  PROVE  DeliveryInv'
<1>. DEFINE c == <<j, keys[j] + 1>>
<1>0. TypeOK
  BY DEF IInv
<1>1. /\ c \in Keys /\ c[1] = j /\ c[2] = keys[j] + 1
      /\ pc[j] \in {"subject", "text"} /\ UNCHANGED <<pc, on, outbox>>
      /\ pc[j] = "text" => c \in Whole(j)
      /\ pc[j] = "subject" => c \notin Whole(j)
      /\ \A p \in Jobs : \/ draft'[p] \subseteq draft[p]
                         \/ p = on[j] /\ draft'[p] \subseteq draft[p] \cup {c}
  BY PressKeyFacts
<1>. HIDE DEF c
<1>2. /\ \A p \in Jobs : c \notin draft[p]
      /\ c \notin Sent
      /\ \A o \in Order : o[1] = c => \A p \in Jobs : o[2] \notin draft[p]
  <2>1. c[2] > keys[c[1]]
    BY <1>0, <1>1, KeyFacts
  <2>. QED
    BY <1>1, <2>1, FreshKey
<1>3. Sent' = Sent
  BY <1>1 DEF Sent
<1>4. \A p \in Jobs : \A k \in draft'[p] : k \in draft[p] \/ (k = c /\ p = on[j])
  BY <1>1
<1>5. \A p, q \in Jobs : draft'[p] \cap draft'[q] # {} => p = q
  BY <1>2, <1>4 DEF DeliveryInv
<1>6. \A p \in Jobs : draft'[p] \cap Sent' = {}
  BY <1>2, <1>3, <1>4 DEF DeliveryInv
<1>7. ASSUME NEW p \in Jobs, NEW q \in Jobs, NEW o \in Order,
             o[1] \in draft'[p], o[2] \in draft'[q]
      PROVE  p = q
  <2>0. o[1] # o[2] /\ o[1] \in Keys /\ o[2] \in Keys /\ o[1][1] = o[2][1]
        /\ Subject[o[1][1]] < o[1][2] /\ o[1][2] < o[2][2] /\ o[1][2] \in Nat
    <3>1. /\ o[1] \in Keys /\ o[2] \in Keys /\ o[1][1] = o[2][1]
          /\ Subject[o[1][1]] < o[1][2] /\ o[1][2] < o[2][2] /\ o[1][2] \in Nat
      BY <1>0, KeyFacts
    <3>. QED
      BY <3>1
  <2>1. CASE o[1] \in draft[p] /\ o[2] \in draft[q]
    BY <2>1 DEF DeliveryInv
  <2>2. CASE o[1] = c
    BY <1>2, <1>4, <1>7, <2>0, <2>2
  <2>3. CASE o[1] \in draft[p] /\ o[2] = c /\ q = on[j]
    <3>1. o[1] \in Whole(j) /\ c \in Whole(j)
      <4>1. c[2] \in Nat /\ Subject[j] \in Nat /\ Subject[j] < c[2]
        BY <1>0, <1>1, <2>0, <2>3, KeyFacts
      <4>. QED
        BY <1>1, <2>0, <2>3, <4>1, WholeKeys
    <3>2. pc[j] = "text"
      BY <1>1, <3>1
    <3>. QED
      BY <2>3, <3>1, <3>2 DEF DeliveryInv
  <2>. QED
    BY <1>4, <1>7, <2>1, <2>2, <2>3
<1>8. ASSUME NEW p \in Jobs, NEW k \in Jobs, pc'[k] = "text", draft'[p] \cap Whole(k) # {}
      PROVE  p = on'[k]
  <2>1. pc[k] = "text" /\ on'[k] = on[k]
    BY <1>1, <1>8
  <2>2. CASE draft[p] \cap Whole(k) # {}
    BY <2>1, <2>2 DEF DeliveryInv
  <2>3. CASE c \in Whole(k) /\ p = on[j]
    BY <1>1, <2>1, <2>3, WholeKeys
  <2>. QED
    BY <1>4, <1>8, <2>2, <2>3
<1>. QED
  BY <1>5, <1>6, <1>7, <1>8 DEF DeliveryInv

\* The key leaves those that wait, after those before it, and may be in a field.
LEMMA PressKeyPresses ==
  ASSUME IInv, TypeOK', NEW j \in Jobs, PressKey(j)
  PROVE  \E c \in Keys : Sending!Press(c)
<1>. DEFINE c == <<j, keys[j] + 1>>
<1>0. TypeOK
  BY DEF IInv
<1>1. /\ c \in Keys /\ c[1] = j /\ c[2] = keys[j] + 1
      /\ pc[j] \in {"subject", "text"} /\ UNCHANGED <<pc, outbox>>
      /\ keys' = [keys EXCEPT ![j] = @ + 1]
      /\ \A p \in Jobs : draft'[p] \subseteq draft[p] \cup {c}
  BY PressKeyFacts
<1>. HIDE DEF c
<1>2. keys'[j] = keys[j] + 1 /\ \A k \in Jobs : k # j => keys'[k] = keys[k]
  BY <1>0, <1>1 DEF TypeOK
<1>3. c \in Waiting
  BY <1>0, <1>1, KeyFacts DEF Waiting
<1>4. Waiting' \subseteq Waiting \ {c}
  BY <1>0, <1>1, <1>2, KeyFacts DEF Waiting
<1>5. Drafted' \subseteq Drafted \cup {c}
  BY <1>1 DEF Drafted
<1>6. ASSUME NEW o \in Order, o[2] = c
      PROVE  o[1] \notin Waiting
  BY <1>0, <1>1, <1>6, KeyFacts DEF Waiting
<1>. QED
  BY <1>1, <1>3, <1>4, <1>5, <1>6 DEF Sending!Press

-----------------------------------------------------------------------------
(* The button is clicked. *)

\* What a click on the send button of page p hands over: what it holds.
Sends(p, e) ==
  /\ draft[p] # {}
  /\ e.text = draft[p]
  /\ outbox' = Append(outbox, e)
  /\ draft' = [draft EXCEPT ![p] = {}]

\* It hands over nothing, and is quiet, or one entry.
LEMMA ClickSends ==
  ASSUME IInv, NEW j \in Jobs, ClickSend(j)
  PROVE  \/ Quiet
         \/ \E p \in Jobs : \E e \in Delivery :
              /\ Sends(p, e)
              /\ pc[j] = "filled" /\ pc' = [pc EXCEPT ![j] = "sent"]
              /\ on' = [on EXCEPT ![j] = frame] /\ keys' = keys
<1>. DEFINE p == button[j]
            e == [text |-> draft[p], lead |-> url[p], via |-> chosen[p]]
<1>0. TypeOK /\ LoadedInv
  BY DEF IInv
<1>1. /\ pc[j] = "filled" /\ p \in Jobs /\ view[p] = "lead"
      /\ Continue(j, "sent")
      /\ \/ draft[p] # {} /\ outbox' = Append(outbox, e) /\ draft' = [draft EXCEPT ![p] = {}]
         \/ (draft[p] = {} \/ p \in Refusing) /\ UNCHANGED <<draft, outbox>>
      /\ keys' = keys
  BY ClickSendFacts
<1>2. e \in Delivery /\ e.text = draft[p]
  BY <1>0, <1>1 DEF TypeOK, LoadedInv, Delivery
<1>. HIDE DEF e, p
<1>3. CASE UNCHANGED <<draft, outbox>>
  BY <1>0, <1>1, <1>3, ContinueQuiet
<1>4. CASE draft[p] # {} /\ outbox' = Append(outbox, e) /\ draft' = [draft EXCEPT ![p] = {}]
  BY <1>1, <1>2, <1>4 DEF Sends, Continue, ContinueOn
<1>. QED
  BY <1>1, <1>3, <1>4

LEMMA SendsInv ==
  ASSUME IInv, DeliveryInv, NEW j \in Jobs, NEW p \in Jobs, NEW e \in Delivery, Sends(p, e),
         pc[j] = "filled", pc' = [pc EXCEPT ![j] = "sent"], on' = [on EXCEPT ![j] = frame]
  PROVE  DeliveryInv'
<1>. USE DEF DeliveryInv
<1>0. TypeOK
  BY DEF IInv
<1>1. \A q \in Jobs : draft'[q] = IF q = p THEN {} ELSE draft[q]
  BY <1>0 DEF Sends, TypeOK
<1>2. Sent' = Sent \cup draft[p]
  BY <1>0, OneMore DEF Sends
<1>3. \A q, r \in Jobs : draft'[q] \cap draft'[r] # {} => q = r
  BY <1>1
<1>4. \A q \in Jobs : draft'[q] \cap Sent' = {}
  BY <1>1, <1>2
<1>5. \A q, r \in Jobs : \A o \in Order : o[1] \in draft'[q] /\ o[2] \in draft'[r] => q = r
  BY <1>1
<1>6. \A q, k \in Jobs : pc'[k] = "text" /\ draft'[q] \cap Whole(k) # {} => q = on'[k]
  <2>1. \A k \in Jobs : pc'[k] = "text" => pc[k] = "text" /\ on'[k] = on[k]
    BY <1>0 DEF TypeOK
  <2>. QED
    BY <1>1, <2>1
<1>. QED
  BY <1>3, <1>4, <1>5, <1>6

\* Earlier keys of the messages it holds parts of are not left elsewhere: those
\* in a field are in the same one, and those to come are later ones.
LEMMA SendsPosts ==
  ASSUME IInv, DeliveryInv, NEW j \in Jobs, NEW p \in Jobs, NEW e \in Delivery, Sends(p, e),
         pc[j] = "filled", pc' = [pc EXCEPT ![j] = "sent"], keys' = keys
  PROVE  Sending!Post(e)
<1>0. TypeOK /\ KeysInv
  BY DEF IInv
<1>1. \A q \in Jobs : draft'[q] = IF q = p THEN {} ELSE draft[q]
  BY <1>0 DEF Sends, TypeOK
<1>2. e.text # {} /\ e.text = draft[p] /\ e.text \subseteq Drafted
  BY DEF Sends, Drafted
<1>3. Drafted' \subseteq Drafted \ e.text
  BY <1>1, <1>2 DEF Drafted, DeliveryInv
<1>4. \A k \in Jobs : pc'[k] = "done" <=> pc[k] = "done"
  BY <1>0 DEF TypeOK
<1>5. Waiting' \subseteq Waiting
  BY <1>0, <1>4, KeyFacts DEF Waiting
<1>6. ASSUME NEW o \in Order, o[2] \in e.text, o[1] \notin e.text
      PROVE  o[1] \notin Waiting \cup Drafted
  <2>1. o[1] \notin Drafted
    BY <1>2, <1>6 DEF Drafted, DeliveryInv
  <2>2. o[1] \notin Waiting
    <3>1. o[1][1] = o[2][1] /\ o[1][2] < o[2][2] /\ o[1] \in Keys /\ o[2] \in Keys
      BY <1>0, KeyFacts
    <3>2. o[2][2] <= keys[o[2][1]]
      BY <1>0, <1>2, <1>6 DEF KeysInv
    <3>3. o[1][2] \in Nat /\ o[2][2] \in Nat /\ keys[o[2][1]] \in Nat
      BY <1>0, <3>1, KeyFacts
    <3>4. ~(o[1][2] > keys[o[1][1]])
      BY <3>1, <3>2, <3>3
    <3>. QED
      BY <3>4 DEF Waiting
  <2>. QED
    BY <2>1, <2>2
<1>. QED
  BY <1>2, <1>3, <1>5, <1>6 DEF Sending!Post, Sends

-----------------------------------------------------------------------------

\* Every step is quiet, presses a key or sends what a page holds.
LEMMA Steps ==
  ASSUME IInv, [Next]_vars
  PROVE  \/ Quiet
         \/ \E j \in Jobs : PressKey(j)
         \/ \E j, p \in Jobs : \E e \in Delivery :
              /\ Sends(p, e)
              /\ pc[j] = "filled" /\ pc' = [pc EXCEPT ![j] = "sent"]
              /\ on' = [on EXCEPT ![j] = frame] /\ keys' = keys
<1>0. TypeOK
  BY DEF IInv
<1>1. ASSUME NEW j \in Jobs, Step(j), ~PressKey(j)
      PROVE  \/ Quiet
             \/ \E p \in Jobs : \E e \in Delivery :
                  /\ Sends(p, e)
                  /\ pc[j] = "filled" /\ pc' = [pc EXCEPT ![j] = "sent"]
                  /\ on' = [on EXCEPT ![j] = frame] /\ keys' = keys
  BY <1>1, StepQuiet, ClickSends
<1>2. CASE LoadListenerFails
  BY <1>0, <1>2, CrashQuiet DEF LoadListenerFails
<1>3. CASE UNCHANGED vars
  <2>1. \A k \in Jobs : keys[k] \in Nat
    BY <1>0, JobsAssumption DEF TypeOK
  <2>. QED
    BY <1>3, <2>1 DEF vars, control, composer, Quiet
<1>. QED
  BY <1>0, <1>1, <1>2, <1>3, BrowserQuiet DEF Next

LEMMA InitDelivery == Init => DeliveryInv /\ Sending!Init
<1>. SUFFICES ASSUME Init PROVE DeliveryInv /\ Sending!Init
  OBVIOUS
<1>1. outbox = <<>> /\ Drafted = {} /\ \A p \in Jobs : draft[p] = {}
  BY DEF Init, Drafted
<1>2. DeliveryInv
  BY <1>1 DEF DeliveryInv
<1>3. Waiting = Keys
  <2>1. \A c \in Keys : c[1] \in Jobs /\ c[2] \in Nat /\ c[2] > 0
    BY JobsAssumption DEF Keys
  <2>. QED
    BY <2>1 DEF Init, Waiting
<1>. QED
  BY <1>1, <1>2, <1>3 DEF Sending!Init

LEMMA NextDelivery ==
  IInv /\ DeliveryInv /\ [Next]_vars => DeliveryInv'
<1>. QED
  BY Steps, QuietInv, PressKeyInv, SendsInv

LEMMA NextSends ==
  IInv /\ TypeOK' /\ DeliveryInv /\ [Next]_vars => [Sending!Next]_<<Waiting, Drafted, outbox>>
<1>. SUFFICES ASSUME IInv, TypeOK', DeliveryInv, [Next]_vars
              PROVE  [Sending!Next]_<<Waiting, Drafted, outbox>>
  OBVIOUS
<1>0. TypeOK
  BY DEF IInv
<1>1. CASE Quiet
  BY <1>0, <1>1, QuietLoses DEF Sending!Next
<1>2. ASSUME NEW j \in Jobs, PressKey(j)
      PROVE  Sending!Next
  BY <1>2, PressKeyPresses DEF Sending!Next
<1>3. ASSUME NEW j \in Jobs, NEW p \in Jobs, NEW e \in Delivery, Sends(p, e),
             pc[j] = "filled", pc' = [pc EXCEPT ![j] = "sent"], keys' = keys
      PROVE  Sending!Next
  BY <1>3, SendsPosts DEF Sending!Next
<1>. QED
  BY <1>1, <1>2, <1>3, Steps

\* For any jobs, each key is where the contract of sendMessage() says.
THEOREM DeliveryInvariance == Spec => []DeliveryInv
<1>. QED
  BY Invariance, InitDelivery, NextDelivery, PTL DEF Spec

\* sendMessage() implements the delivery contract for any jobs, leads, pages,
\* login forms and texts, although any job may click, type or reload between
\* two keys of another one: each key is pressed at most once and in its order,
\* accepted at most once, and never after it was lost.
THEOREM DeliveryImplemented == Spec => ImplementsDelivery
<1>1. IInv => TypeOK
  BY DEF IInv
<1>. QED
  BY <1>1, Invariance, DeliveryInvariance, InitDelivery, NextSends, PTL
  DEF Spec, ImplementsDelivery, Sending!Spec

-----------------------------------------------------------------------------
(* What the contract promises, and so the service keeps. *)

\* amoCRM accepts a key of a request at most once, in one entry.
SentOnce ==
  \A i, k \in 1..Len(outbox) : outbox[i].text \cap outbox[k].text # {} => i = k

\* It holds because the accepted keys neither wait nor are in a composer.
SentInv ==
  /\ outbox \in Seq(Delivery)
  /\ Waiting \cap Drafted = {}
  /\ Sent \cap (Waiting \cup Drafted) = {}
  /\ SentOnce

LEMMA InitSent == Sending!Init => SentInv
<1>. SUFFICES ASSUME Sending!Init PROVE SentInv
  OBVIOUS
<1>1. outbox = <<>> /\ Len(outbox) = 0 /\ outbox \in Seq(Delivery)
  BY DEF Sending!Init
<1>2. Sent = {}
  BY <1>1 DEF Sent
<1>3. SentOnce
  BY <1>1 DEF SentOnce
<1>. QED
  BY <1>1, <1>2, <1>3 DEF Sending!Init, SentInv

\* A key that left its place never comes back, and a sent one stays sent.
Final ==
  /\ Waiting' \subseteq Waiting
  /\ Drafted' \subseteq Waiting \cup Drafted
  /\ Sent \subseteq Sent'
  /\ Sent' \subseteq Drafted \cup Sent

LEMMA NextSent ==
  ASSUME SentInv, [Sending!Next]_<<Waiting, Drafted, outbox>>
  PROVE  SentInv' /\ Final
<1>. USE DEF SentInv
<1>. HIDE DEF Waiting, Drafted, Sent
<1>1. ASSUME UNCHANGED outbox
      PROVE  Sent' = Sent /\ SentOnce'
  BY <1>1 DEF Sent, SentOnce
<1>2. CASE Sending!Lose
  BY <1>1, <1>2 DEF Sending!Lose, Final
<1>3. ASSUME NEW c \in Keys, Sending!Press(c)
      PROVE  SentInv' /\ Final
  <2>1. /\ c \in Waiting /\ Waiting' \subseteq Waiting \ {c}
        /\ Drafted' \subseteq Drafted \cup {c} /\ UNCHANGED outbox
    BY <1>3 DEF Sending!Press
  <2>. QED
    BY <1>1, <2>1 DEF Final
<1>4. ASSUME NEW e \in Delivery, Sending!Post(e)
      PROVE  SentInv' /\ Final
  <2>1. /\ outbox' = Append(outbox, e) /\ e.text # {} /\ e.text \subseteq Drafted
        /\ Waiting' \subseteq Waiting /\ Drafted' \subseteq Drafted \ e.text
    BY <1>4 DEF Sending!Post
  <2>2. /\ outbox' \in Seq(Delivery)
        /\ Len(outbox') = Len(outbox) + 1 /\ Len(outbox) \in Nat
        /\ \A i \in 1..Len(outbox) : outbox'[i] = outbox[i]
        /\ outbox'[Len(outbox) + 1] = e
    BY <2>1
  <2>3. \A i \in 1..Len(outbox) : outbox[i].text \cap e.text = {}
    BY <2>1 DEF Sent
  <2>4. \A i \in 1..Len(outbox') : \/ i \in 1..Len(outbox) /\ outbox'[i] = outbox[i]
                                   \/ i = Len(outbox) + 1 /\ outbox'[i] = e
    BY <2>2
  <2>5. SentOnce'
    BY <2>2, <2>3, <2>4 DEF SentOnce
  <2>6. Sent' = Sent \cup e.text
    <3>1. Sent' \subseteq Sent \cup e.text
      BY <2>4 DEF Sent
    <3>2. \A i \in 1..Len(outbox) : i \in 1..Len(outbox')
      BY <2>2
    <3>3. Sent \subseteq Sent'
      BY <2>2, <3>2 DEF Sent
    <3>4. Len(outbox) + 1 \in 1..Len(outbox')
      BY <2>2
    <3>5. e.text \subseteq Sent'
      BY <2>2, <3>4 DEF Sent
    <3>. QED
      BY <3>1, <3>3, <3>5
  <2>. QED
    BY <2>1, <2>2, <2>5, <2>6 DEF Final
<1>5. CASE UNCHANGED <<Waiting, Drafted, outbox>>
  BY <1>1, <1>5 DEF Final
<1>. QED
  BY <1>2, <1>3, <1>4, <1>5 DEF Sending!Next

\* amoCRM never accepts a key of a request twice, so that two entries have no
\* text of a request in common, whoever clicks, types, reloads or shares a page
\* meanwhile: a consequence of the contract alone.
THEOREM EachSentOnce == Spec => []SentOnce
<1>1. SentInv /\ [Sending!Next]_<<Waiting, Drafted, outbox>> => SentInv'
  BY NextSent
<1>2. SentInv => SentOnce
  BY DEF SentInv
<1>. QED
  BY <1>1, <1>2, InitSent, DeliveryImplemented, PTL DEF ImplementsDelivery, Sending!Spec

\* A key that was pressed elsewhere, overwritten, cleared or closed over is never
\* typed or sent later, what is sent was in a composer just before, and a sent
\* key is not taken back: there is no second attempt in the code.
THEOREM FateIsFinal == Spec => [][Final]_<<Waiting, Drafted, outbox>>
<1>1. SentInv /\ [Sending!Next]_<<Waiting, Drafted, outbox>>
        => SentInv' /\ [Final]_<<Waiting, Drafted, outbox>>
  BY NextSent
<1>. QED
  BY <1>1, InitSent, DeliveryImplemented, PTL DEF ImplementsDelivery, Sending!Spec
=============================================================================
