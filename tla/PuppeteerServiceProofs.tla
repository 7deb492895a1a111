----------------------- MODULE PuppeteerServiceProofs -----------------------
(* Proofs about PuppeteerService, for any jobs, leads and pages. *)
EXTENDS PuppeteerService, TLAPS

-----------------------------------------------------------------------------
(* Type correctness. *)

\* The awaits a read leads to are awaits, and one that comes after
\* this.amoUsersIds was set is only reached from another such await, and so on.
LEMMA HopsAreAwaits ==
  ASSUME NEW kind \in Kinds, NEW h \in Hops(kind)
  PROVE  h[1] \in Awaits /\ h[2] \in Awaits
  BY DEF Kinds, Hops, Awaits

\* A read in progress is one of those its method makes.
LEMMA HopIsListed ==
  ASSUME TypeOK, NEW j \in Jobs, Hop(j)
  PROVE  \E h \in Hops(Kind[j]) : pc[j] = h[1] /\ Continue(j, h[2])
<1>1. PICK h \in HopsFrom[Kind[j]][pc[j]] : Continue(j, h[2])
  BY DEF Hop
<1>2. Kind[j] \in Kinds /\ pc[j] \in PCs
  BY JobsAssumption DEF TypeOK
<1>3. HopsFrom[Kind[j]][pc[j]] = {g \in Hops(Kind[j]) : g[1] = pc[j]}
  BY <1>2 DEF HopsFrom
<1>. QED
  BY <1>1, <1>3

LEMMA InitTypeOK == Init => TypeOK /\ LoadedInv
<1>. SUFFICES ASSUME Init PROVE TypeOK /\ LoadedInv
  OBVIOUS
<1>1. outbox \in Seq(Delivery)
  BY DEF Init
<1>2. LoadedInv
  BY DEF Init, LoadedInv
<1>3. keys \in [Jobs -> 0..Length]
  <2>1. 0 \in 0..Length
    BY JobsAssumption
  <2>. QED
    BY <2>1 DEF Init
<1>. QED
  BY <1>1, <1>2, <1>3 DEF Init, TypeOK, PCs, Views

\* Closing a page, ending a task function, and the end of the process leave
\* what they change well typed.
LEMMA ClosePageType ==
  ASSUME TypeOK, NEW p \in Jobs, NEW ended \in SUBSET Jobs, ClosePage(p, ended)
  PROVE  /\ view' \in [Jobs -> Views]
         /\ url' \in [Jobs -> Leads \cup {None}]
         /\ listening' \subseteq Jobs
         /\ chosen' \in [Jobs -> Jobs \cup {None}]
         /\ draft' \in [Jobs -> SUBSET Keys]
         /\ field' \in [Jobs -> Jobs \cup {None}]
         /\ button' \in [Jobs -> Jobs \cup {None}]
  BY DEF TypeOK, ClosePage, DropHandles, Views

LEMMA NavigateType ==
  ASSUME TypeOK, NEW p \in Jobs, Navigate(p)
  PROVE  /\ view' \in [Jobs -> Views]
         /\ field' \in [Jobs -> Jobs \cup {None}]
         /\ button' \in [Jobs -> Jobs \cup {None}]
  BY DEF TypeOK, Navigate, DropHandles, Views

LEMMA ContinueOnType ==
  ASSUME TypeOK, NEW j \in Jobs, NEW next \in Awaits, NEW p \in Jobs \cup {None},
         ContinueOn(j, next, p)
  PROVE  /\ pc' \in [Jobs -> PCs]
         /\ on' \in [Jobs -> Jobs \cup {None}]
         /\ focused' \subseteq Jobs
  BY DEF TypeOK, ContinueOn, Blur, PCs

LEMMA ContinueType ==
  ASSUME TypeOK, NEW j \in Jobs, NEW next \in Awaits, Continue(j, next)
  PROVE  /\ pc' \in [Jobs -> PCs]
         /\ on' \in [Jobs -> Jobs \cup {None}]
         /\ focused' \subseteq Jobs
  BY ContinueOnType DEF TypeOK, Continue

LEMMA FocusType ==
  ASSUME TypeOK, NEW j \in Jobs, NEW next \in Awaits, NEW p \in Jobs, Focus(j, next, p)
  PROVE  /\ pc' \in [Jobs -> PCs]
         /\ on' \in [Jobs -> Jobs \cup {None}]
         /\ focused' \subseteq Jobs
         /\ field' \in [Jobs -> Jobs \cup {None}]
  BY DEF TypeOK, Focus, Blur, PCs

LEMMA EndType ==
  ASSUME TypeOK, NEW j \in Jobs, NEW outcome \in {"ok", "failed"}, End(j, outcome)
  PROVE  /\ pc' \in [Jobs -> PCs]
         /\ on' \in [Jobs -> Jobs \cup {None}]
         /\ focused' \subseteq Jobs
         /\ verdict' \in [Jobs -> {"pending", "ok", "failed"}]
  BY DEF TypeOK, End, PCs

LEMMA ReturnType ==
  ASSUME TypeOK, NEW j \in Jobs, NEW data \in SUBSET Leads, Return(j, data),
         answered' \subseteq Jobs
  PROVE  TypeOK'
<1>1. End(j, "ok")
  BY DEF Return
<1>2. read' \in [Jobs -> SUBSET Leads]
  BY DEF Return, TypeOK
<1>3. ClosePage(j, {j})
  BY <1>1 DEF End
<1>. QED
  BY <1>1, <1>2, <1>3, EndType, ClosePageType
  DEF Return, TypeOK, service, events, history

LEMMA CrashType ==
  ASSUME TypeOK, Crash
  PROVE  TypeOK'
<1>1. pc' \in [Jobs -> PCs]
  BY DEF Crash, TypeOK, PCs
<1>2. view' \in [Jobs -> Views]
  BY DEF Crash, TypeOK, Views
<1>3. on' \in [Jobs -> Jobs \cup {None}]
  BY DEF Crash
<1>. QED
  BY <1>1, <1>2, <1>3 DEF Crash, TypeOK, results, history

LEMMA ContentType ==
  ASSUME TypeOK, LoadedInv
  PROVE  /\ \A p \in Jobs : Content(p) \subseteq Leads
         /\ IdsContent \subseteq Leads
  BY DEF TypeOK, LoadedInv, Content, IdsContent

-----------------------------------------------------------------------------

LEMMA NextTypeOK == TypeOK /\ LoadedInv /\ [Next]_vars => TypeOK'
<1>. SUFFICES ASSUME TypeOK, LoadedInv, [Next]_vars PROVE TypeOK'
  OBVIOUS
<1>. USE DEF service, control, handles, results, composer, pages, events, history
<1>1. ASSUME NEW j \in Jobs, Start(j) PROVE TypeOK'
  <2>1. pc' \in [Jobs -> PCs] /\ view' \in [Jobs -> Views] /\ on' \in [Jobs -> Jobs \cup {None}]
    BY <1>1 DEF Start, TypeOK, PCs, Awaits, Views
  <2>2. now' \in Nat /\ period' \in [Jobs -> Nat]
    BY <1>1 DEF Start, TypeOK
  <2>. QED
    BY <1>1, <2>1, <2>2 DEF Start, TypeOK
<1>2. ASSUME NEW j \in Jobs, OpenLead(j) PROVE TypeOK'
  <2>1. frame \in Jobs
    BY <1>2 DEF OpenLead, Shows, TypeOK
  <2>. QED
    BY <1>2, <2>1, NavigateType, ContinueType, JobsAssumption DEF OpenLead, TypeOK, Awaits
<1>3. ASSUME NEW j \in Jobs, Opened(j) \/ CheckAuth(j) \/ Landed(j) \/ Reloaded(j)
      PROVE  TypeOK'
  BY <1>3, ContinueType DEF Opened, CheckAuth, Landed, Reloaded, TypeOK, Awaits
<1>4. ASSUME NEW j \in Jobs, Hop(j) PROVE TypeOK'
  <2>1. PICK h \in Hops(Kind[j]) : pc[j] = h[1] /\ Continue(j, h[2])
    BY <1>4, HopIsListed
  <2>2. h[2] \in Awaits
    BY HopsAreAwaits, JobsAssumption
  <2>. QED
    BY <1>4, <2>1, <2>2, ContinueType DEF Hop, TypeOK
<1>5. ASSUME NEW j \in Jobs, StoreUserIds(j) PROVE TypeOK'
  BY <1>5, ContinueType, ContentType DEF StoreUserIds, TypeOK, Awaits, Answers, Shows
<1>6. ASSUME NEW j \in Jobs, ParseFields(j) PROVE TypeOK'
  <2>1. PICK next \in Awaits : Continue(j, next)
    BY <1>6 DEF ParseFields, NextPart, Awaits
  <2>2. Content(on[j]) \subseteq Leads
    BY <1>6, ContentType DEF ParseFields, Answers, Shows, TypeOK
  <2>. QED
    BY <1>6, <2>1, <2>2, ContinueType DEF ParseFields, TypeOK
<1>7. ASSUME NEW j \in Jobs, ReturnLead(j) \/ ReturnChats(j) \/ ReturnWithoutChats(j)
                              \/ ReturnSources(j)
                              \/ ReturnNotSent(j) \/ ReturnSent(j)
      PROVE  TypeOK'
  BY <1>7, ReturnType, ContentType
  DEF ReturnLead, ReturnChats, ReturnWithoutChats, ReturnSources, ReturnNotSent,
      ReturnSent, Answers, Shows, TypeOK
<1>8. ASSUME NEW j \in Jobs, ReadSources(j) PROVE TypeOK'
  BY <1>8, ContinueType, ContentType DEF ReadSources, TypeOK, Awaits, Answers, Shows
<1>9. ASSUME NEW j \in Jobs, ChooseSource(j) PROVE TypeOK'
  BY <1>9, ContinueType DEF ChooseSource, TypeOK, Awaits
<1>10. ASSUME NEW j \in Jobs, FindField(j) PROVE TypeOK'
  BY <1>10, ContinueType DEF FindField, TypeOK, Awaits, Answers, Shows
<1>11. ASSUME NEW j \in Jobs, ClickSubject(j) \/ ClickField(j) \/ Typed(j) PROVE TypeOK'
  <2>1. CASE ClickSubject(j)
    BY <2>1, FocusType DEF ClickSubject, TypeOK, Awaits, Answers, Shows
  <2>2. CASE ClickField(j)
    <3>1. field[j] \in Jobs
      BY <2>2 DEF ClickField, Shows, TypeOK
    <3>. QED
      BY <2>2, <3>1, FocusType, JobsAssumption DEF ClickField, TypeOK, Awaits
  <2>3. CASE Typed(j)
    <3>1. PICK next \in Awaits, p \in Jobs \cup {None} : ContinueOn(j, next, p)
      <4>1. frame \in Jobs \cup {None} /\ button[j] \in Jobs \cup {None}
        BY DEF TypeOK
      <4>. QED
        BY <2>3, <4>1 DEF Typed, Continue, Awaits
    <3>. QED
      BY <2>3, <3>1, ContinueOnType DEF Typed, TypeOK
  <2>. QED
    BY <1>11, <2>1, <2>2, <2>3
<1>12. ASSUME NEW j \in Jobs, PressKey(j) PROVE TypeOK'
  <2>1. keys' \in [Jobs -> 0..Length] /\ keys'[j] \in 1..Length
    <3>1. keys[j] \in 0..Length /\ LastKey(j) \in 0..Length /\ Length \in Nat
      BY JobsAssumption DEF LastKey, TypeOK
    <3>2. keys[j] < LastKey(j) /\ keys' = [keys EXCEPT ![j] = @ + 1]
      BY <1>12 DEF PressKey
    <3>3. keys[j] + 1 \in 1..Length
      BY <3>1, <3>2
    <3>. QED
      BY <3>2, <3>3 DEF TypeOK
  <2>2. \A kept \in Kept(j, on[j]) : kept \in SUBSET draft[on[j]]
    BY DEF Kept
  <2>3. draft' \in [Jobs -> SUBSET Keys]
    <3>1. on[j] \in Jobs
      BY <1>12 DEF PressKey, Answers, Shows, TypeOK
    <3>2. <<j, keys'[j]>> \in Keys
      BY <2>1 DEF Keys
    <3>3. \A kept \in Kept(j, on[j]) : kept \cup {<<j, keys'[j]>>} \in SUBSET Keys
      BY <2>2, <3>1, <3>2 DEF TypeOK
    <3>4. \/ draft' = draft
          \/ \E kept \in Kept(j, on[j]) :
               draft' = [draft EXCEPT ![on[j]] = kept \cup {<<j, keys'[j]>>}]
      BY <1>12 DEF PressKey
    <3>5. ASSUME NEW S \in SUBSET Keys, draft' = [draft EXCEPT ![on[j]] = S]
          PROVE  draft' \in [Jobs -> SUBSET Keys]
      BY <3>5 DEF TypeOK
    <3>6. draft \in [Jobs -> SUBSET Keys]
      BY DEF TypeOK
    <3>. QED
      BY <3>3, <3>4, <3>5, <3>6
  <2>. QED
    BY <1>12, <2>1, <2>3 DEF PressKey, TypeOK
<1>13. ASSUME NEW j \in Jobs, ClickSend(j) PROVE TypeOK'
  <2>1. button[j] \in Jobs /\ view[button[j]] = "lead"
    BY <1>13 DEF ClickSend, Shows, TypeOK
  <2>2. outbox' \in Seq(Delivery)
    <3>. DEFINE p == button[j]
                e == [text |-> draft[p], lead |-> url[p], via |-> chosen[p]]
    <3>1. e \in Delivery
      BY <2>1 DEF TypeOK, LoadedInv, Delivery
    <3>2. outbox \in Seq(Delivery)
      BY DEF TypeOK
    <3>. HIDE DEF e
    <3>3. Append(outbox, e) \in Seq(Delivery)
      BY <3>1, <3>2
    <3>. QED
      BY <1>13, <3>2, <3>3 DEF ClickSend, e
  <2>. QED
    BY <1>13, <2>1, <2>2, ContinueType DEF ClickSend, TypeOK, Awaits
<1>14. ASSUME NEW j \in Jobs, Reload(j) PROVE TypeOK'
  <2>1. frame \in Jobs
    BY <1>14 DEF Reload, Shows, TypeOK
  <2>. QED
    BY <1>14, <2>1, ContinueType, NavigateType DEF Reload, TypeOK, Awaits
<1>15. ASSUME NEW j \in Jobs, Fail(j) PROVE TypeOK'
  <2>1. End(j, "failed") /\ ClosePage(j, {j})
    BY <1>15 DEF Fail, End
  <2>2. read' \in [Jobs -> SUBSET Leads]
    BY <1>15 DEF Fail, TypeOK
  <2>. QED
    BY <1>15, <2>1, <2>2, EndType, ClosePageType DEF Fail, TypeOK
<1>16. ASSUME NEW j \in Jobs, Timeout(j) PROVE TypeOK'
  BY <1>16, ClosePageType DEF Timeout, TypeOK
<1>17. ASSUME NEW j \in Jobs, Rethrow(j) PROVE TypeOK'
  BY <1>17, CrashType DEF Rethrow
<1>18. ASSUME NEW p \in Jobs, Arrive(p) PROVE TypeOK'
  <2>1. pc' \in [Jobs -> PCs]
    BY <1>18 DEF Arrive, TypeOK, PCs, Awaits
  <2>2. view' \in [Jobs -> Views]
    BY <1>18 DEF Arrive, TypeOK, Views
  <2>3. /\ chosen' \in [Jobs -> Jobs \cup {None}]
        /\ draft' \in [Jobs -> SUBSET Keys]
        /\ probing' \subseteq Jobs
    BY <1>18 DEF Arrive, TypeOK
  <2>. QED
    BY <1>18, <2>1, <2>2, <2>3 DEF Arrive, TypeOK
<1>19. ASSUME NEW p \in Jobs, Request(p) PROVE TypeOK'
  BY <1>19 DEF Request, TypeOK
<1>20. ASSUME NEW p \in Jobs, Probe(p) PROVE TypeOK'
  BY <1>20 DEF Probe, TypeOK
<1>21. ASSUME NEW p \in Jobs, Submit(p) PROVE TypeOK'
  BY <1>21, NavigateType DEF Submit, TypeOK
<1>22. CASE LoadListenerFails
  BY <1>22, CrashType DEF LoadListenerFails
<1>23. CASE UNCHANGED vars
  BY <1>23 DEF vars, TypeOK
<1>. QED
  BY <1>1, <1>2, <1>3, <1>4, <1>5, <1>6, <1>7, <1>8, <1>9, <1>10, <1>11, <1>12,
     <1>13, <1>14, <1>15, <1>16, <1>17, <1>18, <1>19, <1>20, <1>21, <1>22, <1>23
  DEF Next, Step, Browser

LEMMA NextLoaded == TypeOK /\ LoadedInv /\ [Next]_vars => LoadedInv'
<1>. SUFFICES ASSUME TypeOK, LoadedInv, [Next]_vars PROVE LoadedInv'
  OBVIOUS
<1>. USE DEF service, control, handles, results, composer, pages, events, history
<1>1. ASSUME NEW j \in Jobs, OpenLead(j) PROVE LoadedInv'
  <2>1. LeadOf[j] # None
    BY JobsAssumption
  <2>. QED
    BY <1>1, <2>1 DEF OpenLead, Shows, Navigate, LoadedInv, TypeOK
<1>2. ASSUME NEW p \in Jobs, NEW ended, ClosePage(p, ended) PROVE LoadedInv'
  BY <1>2 DEF ClosePage, LoadedInv, TypeOK
<1>3. CASE Crash
  BY <1>3 DEF Crash, LoadedInv
<1>4. CASE UNCHANGED pages
  BY <1>4 DEF LoadedInv
<1>5. ASSUME NEW p \in Jobs, Arrive(p) PROVE LoadedInv'
  BY <1>5 DEF Arrive, LoadedInv, TypeOK
<1>6. ASSUME NEW j \in Jobs, Start(j) PROVE LoadedInv'
  BY <1>6 DEF Start, LoadedInv, TypeOK
<1>7. ASSUME NEW j \in Jobs, Reload(j) PROVE LoadedInv'
  <2>1. frame \in Jobs
    BY <1>7 DEF Reload, Shows, TypeOK
  <2>. QED
    BY <1>7, <2>1 DEF Reload, Shows, Navigate, LoadedInv, TypeOK
<1>8. ASSUME NEW p \in Jobs, Submit(p) PROVE LoadedInv'
  BY <1>8 DEF Submit, Navigate, LoadedInv, TypeOK
<1>9. ASSUME NEW j \in Jobs, Step(j) PROVE LoadedInv'
  BY <1>1, <1>2, <1>3, <1>4, <1>6, <1>7, <1>9
  DEF Step, Opened, CheckAuth, Landed, Hop, StoreUserIds, ParseFields, ReturnLead,
      ReturnSources, ReadSources, ReturnWithoutChats, ReturnChats, ChooseSource, FindField,
      ClickSubject, ClickField, PressKey, Typed, Focus, ClickSend, ReturnNotSent,
      Reloaded, ReturnSent, Fail, Timeout,
      Rethrow, Return, End
<1>10. ASSUME NEW p \in Jobs, Browser(p) PROVE LoadedInv'
  BY <1>4, <1>5, <1>8, <1>10 DEF Browser, Request, Probe
<1>. QED
  BY <1>3, <1>4, <1>9, <1>10 DEF Next, LoadListenerFails, vars

\* Every field of the service, every suspended call, every page and every
\* delivery keeps its type in every reachable state.
THEOREM TypeCorrect == Spec => [](TypeOK /\ LoadedInv)
<1>. QED
  BY InitTypeOK, NextTypeOK, NextLoaded, PTL DEF Spec

-----------------------------------------------------------------------------
(* The inductive invariant holds initially. *)

LEMMA InitIInv == Init => IInv
<1>. SUFFICES ASSUME Init PROVE IInv
  OBVIOUS
<1>1. TypeOK /\ LoadedInv
  BY InitTypeOK
<1>2. outbox = <<>> /\ Len(outbox) = 0 /\ answered = {}
  BY DEF Init
<1>3. MessagesStayInPeriod /\ AnswerMeansSent
  BY <1>2 DEF MessagesStayInPeriod, AnswerMeansSent
<1>4. PeriodInv /\ IdsInv /\ SoloInv
  BY DEF Init, PeriodInv, IdsInv, SoloInv, Running, Awaits, PastIds
<1>6. KeysInv
  <2>1. \A j \in Jobs : 0 <= Subject[j]
    BY JobsAssumption
  <2>2. Sent = {}
    BY <1>2 DEF Sent
  <2>. QED
    BY <2>1, <2>2 DEF Init, KeysInv, PastClick
<1>5. PageInv /\ ResultsStayInPeriod
  BY DEF Init, PageInv, ResultsStayInPeriod, Alive, Settled
<1>. QED
  BY <1>1, <1>3, <1>4, <1>5, <1>6 DEF IInv

-----------------------------------------------------------------------------
(* A job starts: the only step that changes the busy periods. *)

\* An entry is made of keys, and a key was pressed by a job that had started.
LEMMA OutboxKeys ==
  ASSUME TypeOK
  PROVE  \A i \in 1..Len(outbox) : \A c \in outbox[i].text :
            c \in Keys /\ c[1] \in Jobs /\ c[2] \in 1..Length
<1>1. \A i \in 1..Len(outbox) : outbox[i] \in Delivery
  BY DEF TypeOK
<1>. QED
  BY <1>1 DEF Delivery, Keys

\* The message of a request is those of its keys that are not the subject's.
LEMMA WholeKeys ==
  ASSUME NEW j \in Jobs
  PROVE  /\ Length \in Nat /\ Subject[j] \in Nat /\ Subject[j] <= Length
         /\ Whole(j) \subseteq Keys
         /\ \A c \in Whole(j) : c[1] = j /\ c[2] \in Nat /\ c[2] > Subject[j] /\ c[2] <= Length
         /\ \A c \in Keys : c[1] = j /\ c[2] > Subject[j] => c \in Whole(j)
<1>1. Length \in Nat /\ Subject[j] \in 0..Length
  BY JobsAssumption
<1>2. ASSUME NEW n \in Subject[j] + 1 .. Length
      PROVE  n \in 1..Length /\ n \in Nat /\ n > Subject[j] /\ n <= Length
  BY <1>1
<1>3. ASSUME NEW n \in 1..Length, n > Subject[j] PROVE n \in Subject[j] + 1 .. Length
  BY <1>1, <1>3
<1>. QED
  BY <1>1, <1>2, <1>3 DEF Whole, Keys

LEMMA SentWasPressed ==
  ASSUME IInv
  PROVE  \A i \in 1..Len(outbox) : \A c \in outbox[i].text :
            c[1] \in Jobs /\ pc[c[1]] # "queued"
<1>. SUFFICES ASSUME NEW i \in 1..Len(outbox), NEW c \in outbox[i].text
              PROVE  c[1] \in Jobs /\ pc[c[1]] # "queued"
  OBVIOUS
<1>1. c[1] \in Jobs /\ c[2] \in 1..Length
  BY OutboxKeys DEF IInv
<1>2. c[2] <= keys[c[1]]
  BY DEF IInv, KeysInv, Sent
<1>3. pc[c[1]] = "queued" => keys[c[1]] = 0
  BY <1>1 DEF IInv, PeriodInv
<1>. QED
  BY <1>1, <1>2, <1>3, JobsAssumption

\* Whoever had a companion keeps it, and a job that has read or
\* answered anything was started before.
LEMMA StartPeriods ==
  ASSUME IInv, NEW j \in Jobs, Start(j)
  PROVE  /\ period' = [period EXCEPT ![j] = now']
         /\ now' \in Nat /\ now <= now' /\ now' >= 1
         /\ period[j] = 0 /\ read[j] = {} /\ j \notin answered
         /\ \A k \in Jobs : Running(k) => now' = now
         /\ \A k \in Jobs : pc[k] # "queued" =>
               /\ k # j
               /\ Companions(k) \subseteq Companions(k)'
               /\ Alone(k)' => Alone(k)
<1>1. now \in Nat /\ period \in [Jobs -> Nat]
  BY DEF IInv, TypeOK
<1>2. pc[j] = "queued" /\ period[j] = 0 /\ read[j] = {} /\ j \notin answered
  BY DEF Start, IInv, PeriodInv
<1>3. \A k \in Jobs : Running(k) => period[k] = now /\ now >= 1
  BY <1>1 DEF IInv, PeriodInv, Running, Awaits
<1>4. /\ now' = IF \E k \in Jobs : Running(k) THEN now ELSE now + 1
      /\ period' = [period EXCEPT ![j] = now']
  BY DEF Start
<1>5. now' \in Nat /\ now <= now' /\ now' >= 1
  BY <1>1, <1>3, <1>4
<1>6. ASSUME NEW k \in Jobs, pc[k] # "queued"
      PROVE  k # j /\ Companions(k) \subseteq Companions(k)' /\ (Alone(k)' => Alone(k))
  <2>1. k # j /\ period[k] \in 1..now
    BY <1>2, <1>6 DEF IInv, PeriodInv
  <2>2. period'[k] = period[k]
    BY <1>1, <1>4, <2>1
  <2>3. Companions(k) \subseteq Companions(k)'
    BY <1>1, <1>2, <1>4, <2>1, <2>2 DEF Companions
  <2>4. k \in Companions(k)
    BY DEF Companions
  <2>. QED
    BY <2>1, <2>3, <2>4 DEF Alone
<1>. QED
  BY <1>2, <1>3, <1>4, <1>5, <1>6

LEMMA StartIInv ==
  ASSUME IInv, NEW j \in Jobs, Start(j), TypeOK', LoadedInv'
  PROVE  IInv'
<1>0. /\ period' = [period EXCEPT ![j] = now']
      /\ now' \in Nat /\ now <= now' /\ now' >= 1
      /\ period[j] = 0 /\ read[j] = {} /\ j \notin answered
      /\ \A k \in Jobs : Running(k) => now' = now
      /\ \A k \in Jobs : pc[k] # "queued" =>
            /\ k # j
            /\ Companions(k) \subseteq Companions(k)'
            /\ Alone(k)' => Alone(k)
  BY StartPeriods
<1>. USE <1>0
<1>1. /\ pc' = [pc EXCEPT ![j] = "cookies"]
      /\ view' = [view EXCEPT ![j] = "blank"]
      /\ pc[j] = "queued"
  BY DEF Start
<1>2. PeriodInv'
  <2>1. UNCHANGED <<verdict, read, answered, keys>>
    BY DEF Start, results, composer
  <2>2. \A k \in Jobs : pc'[k] = IF k = j THEN "cookies" ELSE pc[k]
    BY <1>1 DEF IInv, TypeOK
  <2>. QED
    BY <2>1, <2>2 DEF IInv, PeriodInv, Running, Awaits, TypeOK
<1>3. \A p \in Jobs : view[p] \in Alive => p # j /\ now' = now
  BY <1>1 DEF IInv, PageInv, Running, Awaits
<1>4. \A p \in Jobs : view[p] \in Alive =>
        Current \subseteq Current' /\ CurrentLeads \subseteq CurrentLeads'
  <2>. SUFFICES ASSUME NEW p \in Jobs, view[p] \in Alive
                PROVE  Current \subseteq Current'
    BY DEF CurrentLeads
  <2>1. now' = now /\ period[j] # now
    BY <1>3
  <2>. QED
    BY <2>1 DEF Current, IInv, TypeOK
<1>5. PageInv'
  <2>. SUFFICES ASSUME NEW p \in Jobs
                PROVE  /\ view'[p] \in Alive => Running(p)' /\ verdict'[p] = "pending"
                       /\ p \in listening' => view'[p] \in Alive
                       /\ url'[p] # None => view'[p] \in Alive /\ url'[p] \in CurrentLeads'
                       /\ chosen'[p] # None => view'[p] \in Alive /\ chosen'[p] \in Current'
                       /\ draft'[p] # {} => view'[p] \in Alive
                       /\ \A c \in draft'[p] : c[1] \in Current'
    BY DEF PageInv
  <2>1. UNCHANGED <<url, listening, chosen, draft, verdict>>
    BY DEF Start, composer, results
  <2>2. view'[p] = IF p = j THEN "blank" ELSE view[p]
    BY <1>1 DEF IInv, TypeOK
  <2>3. Running(p) => Running(p)'
    BY <1>1 DEF Running, IInv, TypeOK, Awaits
  <2>4. CASE p = j
    <3>1. view[p] \notin Alive
      BY <1>3, <2>4
    <3>2. url[p] = None /\ p \notin listening /\ chosen[p] = None /\ draft[p] = {}
      BY <3>1 DEF IInv, PageInv
    <3>3. verdict[p] = "pending" /\ Running(p)'
      BY <1>1, <2>4 DEF IInv, PeriodInv, TypeOK, Running, Awaits
    <3>. QED
      BY <2>1, <2>2, <2>4, <3>2, <3>3 DEF Alive, Settled
  <2>5. CASE p # j
    BY <1>4, <2>1, <2>2, <2>3, <2>5 DEF IInv, PageInv
  <2>. QED
    BY <2>4, <2>5
<1>6. IdsInv'
  <2>. SUFFICES ASSUME NEW k \in Jobs, pc'[k] \in PastIds
                PROVE  amoUsersIds' \in CurrentLeads' \cup {None}
    BY DEF IdsInv
  <2>1. k # j /\ pc[k] \in PastIds
    BY <1>1 DEF IInv, TypeOK, PastIds
  <2>2. now' = now
    BY <2>1 DEF PastIds, Running, Awaits
  <2>3. Current \subseteq Current'
    <3>1. \A i \in Jobs : period'[i] = IF i = j THEN now' ELSE period[i]
      BY DEF IInv, TypeOK
    <3>. QED
      BY <2>2, <3>1 DEF Current
  <2>4. CurrentLeads \subseteq CurrentLeads'
    BY <2>3 DEF CurrentLeads
  <2>. QED
    BY <2>1, <2>4 DEF Start, IInv, IdsInv
<1>7. SoloInv'
  <2>1. UNCHANGED <<field, button, chosen, draft, outbox, answered>>
    BY DEF Start, handles, composer, results
  <2>2. field[j] = None /\ button[j] = None
    BY <1>1 DEF IInv, SoloInv, Running, Awaits
  <2>3. ASSUME NEW k \in Jobs, ~Running(k)' PROVE field[k] = None /\ button[k] = None
    BY <1>1, <2>3 DEF IInv, SoloInv, TypeOK, Running, Awaits
  <2>4. ASSUME NEW k \in Jobs, Running(k)', Alone(k)' PROVE k = j
    <3>. SUFFICES ASSUME k # j PROVE FALSE
      OBVIOUS
    <3>1. Running(k)
      BY <1>1, <2>4 DEF Running, IInv, TypeOK
    <3>2. period[k] = now /\ now' = now /\ period'[k] = now /\ period'[j] = now
      BY <3>1 DEF IInv, PeriodInv, TypeOK
    <3>. QED
      BY <2>4, <3>2 DEF Alone, Companions
  <2>5. frame' = j /\ on'[j] = j /\ pc'[j] = "cookies"
    BY DEF Start, IInv, TypeOK
  <2>6. draft[j] = {}
    BY <1>3 DEF IInv, PageInv
  <2>. QED
    BY <2>1, <2>2, <2>3, <2>4, <2>5, <2>6 DEF SoloInv, Solo, Typing, PastChoice, PastClick
<1>8. /\ UNCHANGED <<read, answered, outbox>>
      /\ \A k \in Jobs : pc[k] # "queued" => pc'[k] # "queued"
  BY <1>1 DEF Start, results, composer, IInv, TypeOK
<1>9. KeysInv'
  <2>1. keys' = keys /\ draft' = draft /\ Sent' = Sent
    BY DEF Start, composer, Sent
  <2>2. keys[j] = 0 /\ 0 <= Subject[j]
    BY <1>1, JobsAssumption DEF IInv, PeriodInv
  <2>. QED
    BY <1>1, <2>1, <2>2 DEF IInv, TypeOK, KeysInv, PastClick
<1>10. ResultsStayInPeriod'
  <2>. SUFFICES ASSUME NEW k \in Jobs, NEW l \in read[k]
                PROVE  \E c \in Companions(k)' : l = LeadOf[c]
    BY <1>8 DEF ResultsStayInPeriod
  <2>1. pc[k] # "queued"
    BY DEF IInv, PeriodInv
  <2>2. \E c \in Companions(k) : l = LeadOf[c]
    BY DEF IInv, ResultsStayInPeriod
  <2>. QED
    BY <2>1, <2>2
<1>11. MessagesStayInPeriod'
  <2>1. ASSUME NEW i \in 1..Len(outbox), NEW c \in outbox[i].text, NEW k, k = c[1]
        PROVE  /\ \E m \in Companions(k)' : outbox[i].lead = LeadOf[m]
               /\ outbox[i].via \in Companions(k)' \cup {None}
               /\ \A d \in outbox[i].text : d[1] \in Companions(k)'
               /\ Alone(k)' => outbox[i].text = Whole(k) /\ outbox[i].via = k
    <3>1. k \in Jobs /\ pc[k] # "queued"
      BY <2>1, SentWasPressed
    <3>2. /\ \E m \in Companions(k) : outbox[i].lead = LeadOf[m]
          /\ outbox[i].via \in Companions(k) \cup {None}
          /\ \A d \in outbox[i].text : d[1] \in Companions(k)
          /\ Alone(k) => outbox[i].text = Whole(k) /\ outbox[i].via = k
      BY <2>1 DEF IInv, MessagesStayInPeriod
    <3>. QED
      BY <3>1, <3>2
  <2>2. outbox' = outbox
    BY <1>8
  <2>. QED
    BY <2>1, <2>2 DEF MessagesStayInPeriod, Companions, Alone
<1>12. AnswerMeansSent'
  BY <1>8 DEF IInv, AnswerMeansSent, PeriodInv, TypeOK, Posted
<1>. QED
  BY <1>2, <1>5, <1>6, <1>7, <1>9, <1>10, <1>11, <1>12 DEF IInv

-----------------------------------------------------------------------------
(* Every other step: the periods stay, and nobody but a running job moves.  *)

\* What a step of the running job j, or of its page, does to everybody else.
Keeps ==
  /\ UNCHANGED history
  /\ \A k \in Jobs : /\ Running(k)' => Running(k)
                     /\ pc'[k] = "queued" <=> pc[k] = "queued"

LEMMA KeptPeriods ==
  ASSUME Keeps
  PROVE  /\ Current' = Current /\ CurrentLeads' = CurrentLeads
         /\ \A k \in Jobs : Companions(k)' = Companions(k) /\ (Alone(k)' <=> Alone(k))
  BY DEF Keeps, history, Current, CurrentLeads, Companions, Alone

\* Two jobs that run at the same time are not alone.
LEMMA AloneIsAlone ==
  ASSUME IInv, NEW j \in Jobs, NEW k \in Jobs, Running(j), Running(k), Alone(k)
  PROVE  j = k
  BY DEF IInv, PeriodInv, Alone, Companions

LEMMA PeriodKept ==
  ASSUME IInv, Keeps, TypeOK',
         \A k \in Jobs : pc[k] = "queued" => /\ verdict'[k] = verdict[k]
                                             /\ read'[k] = read[k]
                                             /\ keys'[k] = keys[k]
                                             /\ k \in answered' => k \in answered
  PROVE  PeriodInv'
  BY DEF IInv, Keeps, PeriodInv, history

LEMMA PageKept ==
  ASSUME IInv, Keeps, UNCHANGED <<view, url, listening, chosen, draft, verdict>>,
         \A k \in Jobs : Running(k) => Running(k)'
  PROVE  PageInv'
  BY KeptPeriods DEF IInv, PageInv

LEMMA IdsKept ==
  ASSUME IInv, Keeps, UNCHANGED amoUsersIds,
         \A k \in Jobs : pc'[k] \in PastIds => pc[k] \in PastIds
  PROVE  IdsInv'
  BY KeptPeriods DEF IInv, IdsInv

LEMMA ResultsKept ==
  ASSUME IInv, Keeps,
         \A k \in Jobs : \A l \in read'[k] : l \in read[k] \/ (Running(k) /\ l \in CurrentLeads)
  PROVE  ResultsStayInPeriod'
<1>. SUFFICES ASSUME NEW k \in Jobs, NEW l \in read'[k]
              PROVE  \E c \in Companions(k) : l = LeadOf[c]
  BY KeptPeriods DEF ResultsStayInPeriod
<1>1. CASE l \in read[k]
  BY <1>1 DEF IInv, ResultsStayInPeriod
<1>2. CASE Running(k) /\ l \in CurrentLeads
  BY <1>2 DEF IInv, PeriodInv, CurrentLeads, Current, Companions
<1>. QED
  BY <1>1, <1>2

LEMMA OutboxKept ==
  ASSUME IInv, Keeps, UNCHANGED outbox
  PROVE  MessagesStayInPeriod' /\ Posted' = Posted /\ Sent' = Sent
<1>1. Posted' = Posted /\ Sent' = Sent
  BY DEF Posted, Sent
<1>2. MessagesStayInPeriod'
  BY DEF IInv, Keeps, history, MessagesStayInPeriod, Companions, Alone
<1>. QED
  BY <1>1, <1>2

\* The awaits before the keys of the message are pressed, and after that.
Early == PCs \ ({"text", "filled", "done"} \cup PastClick)
Late  == {"filled"} \cup PastClick

\* A step does not take a job from before its keys to after them, or back.
SameStage(k) ==
  \/ pc'[k] \in {pc[k], "done"}
  \/ pc[k] \in Early /\ pc'[k] \in Early
  \/ pc[k] \in Late /\ pc'[k] \in Late

LEMMA KeysKept ==
  ASSUME IInv, TypeOK', UNCHANGED <<keys, outbox>>,
         \A p \in Jobs : draft'[p] \subseteq draft[p],
         \A k \in Jobs : SameStage(k)
  PROVE  KeysInv'
<1>1. Sent' = Sent
  BY DEF Sent
<1>2. \A p \in Jobs : \A c \in draft'[p] : c[2] <= keys[c[1]]
  BY DEF IInv, KeysInv
<1>3. ASSUME NEW k \in Jobs
      PROVE  /\ pc'[k] \notin {"text", "filled", "done"} \cup PastClick => keys[k] <= Subject[k]
             /\ pc'[k] = "text" => keys[k] >= Subject[k]
             /\ pc'[k] \in {"filled"} \cup PastClick => keys[k] = Length
  BY DEF IInv, KeysInv, SameStage, Early, Late, PastClick
<1>. QED
  BY <1>1, <1>2, <1>3 DEF IInv, KeysInv

LEMMA AnswersKept ==
  ASSUME IInv, Keeps, UNCHANGED answered, Posted \subseteq Posted'
  PROVE  AnswerMeansSent'
  BY KeptPeriods DEF IInv, TypeOK, AnswerMeansSent

\* Only the running job that moves, if it is alone, has something to show.
LEMMA SoloStep ==
  ASSUME IInv, Keeps, NEW j \in Jobs, Running(j),
         \A k \in Jobs : ~Running(k)' => field'[k] = None /\ button'[k] = None,
         Running(j)' /\ Alone(j) => Solo(j)'
  PROVE  SoloInv'
<1>. SUFFICES ASSUME NEW k \in Jobs, Running(k)', Alone(k)' PROVE Solo(k)'
  BY DEF SoloInv
<1>1. Running(k) /\ Alone(k)
  BY KeptPeriods DEF Keeps
<1>2. k = j
  BY <1>1, AloneIsAlone
<1>. QED
  BY <1>1, <1>2

-----------------------------------------------------------------------------
(* The steps of a task function that goes on to its next await. *)

LEMMA StepKeeps ==
  ASSUME IInv, NEW j \in Jobs, Running(j), NEW next \in Awaits,
         pc' = [pc EXCEPT ![j] = next], UNCHANGED history
  PROVE  /\ Keeps
         /\ pc'[j] = next
         /\ \A k \in Jobs : k # j => pc'[k] = pc[k]
         /\ Running(j)'
         /\ \A k \in Jobs : Running(k) => Running(k)'
  BY DEF IInv, TypeOK, Keeps, Running, Awaits

LEMMA WalkKeeps ==
  ASSUME IInv, NEW j \in Jobs, Running(j), NEW next \in Awaits, Continue(j, next),
         UNCHANGED history
  PROVE  /\ Keeps
         /\ pc'[j] = next
         /\ \A k \in Jobs : k # j => pc'[k] = pc[k]
         /\ on'[j] = frame
         /\ Running(j)'
         /\ \A k \in Jobs : Running(k) => Running(k)'
<1>1. pc' = [pc EXCEPT ![j] = next] /\ on' = [on EXCEPT ![j] = frame]
  BY DEF Continue, ContinueOn
<1>2. on'[j] = frame
  BY <1>1 DEF IInv, TypeOK
<1>. QED
  BY <1>1, <1>2, StepKeeps

\* No await leads back before an assignment of this.amoUsersIds, the choice of
\* a source or the click; those where a job types are not reached like this.
Onward(j, next) ==
  /\ next \in PastIds => pc[j] \in PastIds
  /\ next \in PastChoice => pc[j] \in PastChoice
  /\ next \in PastClick <=> pc[j] \in PastClick
  /\ next \notin Typing /\ pc[j] \notin Typing

\* Such a step neither brings a job to its keys nor past them.
LEMMA OnwardStage ==
  ASSUME IInv, NEW j \in Jobs, Running(j), NEW next \in Awaits,
         \/ Onward(j, next)
         \/ next \notin PastClick \cup {"text", "filled"} /\ pc[j] \in Early,
         pc' = [pc EXCEPT ![j] = next]
  PROVE  \A k \in Jobs : SameStage(k)
<1>1. \A k \in Jobs : pc'[k] = IF k = j THEN next ELSE pc[k]
  BY DEF IInv, TypeOK
<1>2. SameStage(j)
  BY <1>1 DEF SameStage, Onward, Early, Late, Typing, PastClick, PCs, Running, Awaits
<1>. QED
  BY <1>1, <1>2 DEF SameStage

\* A step that only goes from one await to the next.
LEMMA QuietIInv ==
  ASSUME IInv, TypeOK', LoadedInv', NEW j \in Jobs, Running(j), NEW next \in Awaits,
         Continue(j, next), Onward(j, next),
         UNCHANGED <<service, handles, results, composer, pages, events, history>>
  PROVE  IInv'
<1>. USE DEF service, handles, results, composer, pages, events
<1>1. Keeps
  BY WalkKeeps
<1>2. PeriodInv' /\ PageInv' /\ ResultsStayInPeriod'
  BY <1>1, WalkKeeps, PeriodKept, PageKept, ResultsKept
<1>3. IdsInv'
  <2>1. \A k \in Jobs : pc'[k] \in PastIds => pc[k] \in PastIds
    BY WalkKeeps DEF Onward
  <2>. QED
    BY <1>1, <2>1, IdsKept
<1>4. MessagesStayInPeriod' /\ Posted' = Posted
  BY <1>1, OutboxKept
<1>5. AnswerMeansSent'
  BY <1>1, <1>4, AnswersKept
<1>7. KeysInv'
  BY OnwardStage, KeysKept DEF Continue, ContinueOn
<1>6. SoloInv'
  <2>1. ASSUME Alone(j) PROVE Solo(j)'
    <3>1. Solo(j)
      BY <2>1 DEF IInv, SoloInv
    <3>2. next \notin {"subject", "text"} /\ pc'[j] = next /\ on'[j] = frame
      BY WalkKeeps DEF Onward, Typing
    <3>3. Before(j)' = Before(j)
      BY DEF Before
    <3>. QED
      BY <1>4, <3>1, <3>2, <3>3 DEF Solo, Onward
  <2>2. \A k \in Jobs : ~Running(k)' => field'[k] = None /\ button'[k] = None
    BY <1>1, WalkKeeps DEF IInv, SoloInv
  <2>. QED
    BY <1>1, <2>1, <2>2, SoloStep
<1>. QED
  BY <1>2, <1>3, <1>4, <1>5, <1>6, <1>7 DEF IInv

LEMMA HopsGoOnward ==
  ASSUME NEW kind \in Kinds, NEW h \in Hops(kind), NEW j \in Jobs, pc[j] = h[1]
  PROVE  Onward(j, h[2])
  BY DEF Kinds, Hops, Onward, PastIds, PastChoice, PastClick, Typing

LEMMA QuietSteps ==
  ASSUME IInv, TypeOK', LoadedInv', NEW j \in Jobs,
         Opened(j) \/ CheckAuth(j) \/ Landed(j) \/ Reloaded(j) \/ Hop(j)
  PROVE  IInv'
<1>. USE DEF Onward, PastIds, PastChoice, PastClick, Typing, Running, Awaits
<1>1. CASE Opened(j)
  BY <1>1, QuietIInv DEF Opened
<1>2. CASE CheckAuth(j)
  BY <1>2, QuietIInv DEF CheckAuth
<1>3. CASE Landed(j)
  BY <1>3, QuietIInv DEF Landed
<1>4. CASE Reloaded(j)
  BY <1>4, QuietIInv DEF Reloaded
<1>5. CASE Hop(j)
  <2>1. PICK h \in Hops(Kind[j]) : pc[j] = h[1] /\ Continue(j, h[2])
    BY <1>5, HopIsListed DEF IInv
  <2>2. Kind[j] \in Kinds
    BY JobsAssumption
  <2>3. h[1] \in Awaits /\ h[2] \in Awaits /\ Onward(j, h[2])
    BY <2>1, <2>2, HopsAreAwaits, HopsGoOnward
  <2>4. UNCHANGED <<service, handles, results, composer, pages, events, history>>
    BY <1>5 DEF Hop
  <2>. HIDE DEF Onward, Awaits
  <2>5. Running(j)
    BY <2>1, <2>3
  <2>. QED
    BY <2>1, <2>3, <2>4, <2>5, QuietIInv
<1>. QED
  BY <1>1, <1>2, <1>3, <1>4, <1>5

LEMMA ContentIsCurrent ==
  ASSUME IInv
  PROVE  \A p \in Jobs : Content(p) \subseteq CurrentLeads
  BY DEF IInv, LoadedInv, PageInv, Content

LEMMA StoreUserIdsIInv ==
  ASSUME IInv, TypeOK', LoadedInv', NEW j \in Jobs, StoreUserIds(j)
  PROVE  IInv'
<1>. USE DEF handles, results, composer, pages
<1>. DEFINE next == IF Kind[j] = "getLeadSources" THEN "available" ELSE "expand"
<1>1. Running(j) /\ next \in Awaits /\ Continue(j, next) /\ UNCHANGED history /\ pc[j] = "constant"
      /\ next \notin PastClick \cup {"text", "filled"} /\ pc[j] \in Early
  BY DEF StoreUserIds, Running, Awaits, PastClick, Early, PCs
<1>2. Keeps
  BY <1>1, WalkKeeps
<1>3. PeriodInv' /\ PageInv' /\ ResultsStayInPeriod'
  BY <1>1, <1>2, WalkKeeps, PeriodKept, PageKept, ResultsKept DEF StoreUserIds
<1>4. IdsInv'
  <2>1. on[j] \in Jobs
    BY DEF StoreUserIds, Answers, Shows, IInv, TypeOK
  <2>2. amoUsersIds' \in CurrentLeads \cup {None}
    BY <2>1, ContentIsCurrent DEF StoreUserIds
  <2>. QED
    BY <1>2, <2>2, KeptPeriods DEF IdsInv
<1>5. MessagesStayInPeriod' /\ KeysInv' /\ Posted' = Posted
  BY <1>1, <1>2, OutboxKept, KeysKept, OnwardStage DEF StoreUserIds, Continue, ContinueOn
<1>6. AnswerMeansSent'
  BY <1>2, <1>5, AnswersKept DEF StoreUserIds
<1>7. SoloInv'
  <2>1. ASSUME Alone(j) PROVE Solo(j)'
    <3>1. Solo(j)
      BY <1>1, <2>1 DEF IInv, SoloInv
    <3>. QED
      BY <1>1, <3>1, WalkKeeps DEF Solo, StoreUserIds, Typing, PastChoice, PastClick
  <2>2. \A k \in Jobs : ~Running(k)' => field'[k] = None /\ button'[k] = None
    BY <1>1, WalkKeeps DEF IInv, SoloInv, StoreUserIds
  <2>. QED
    BY <1>1, <1>2, <2>1, <2>2, SoloStep
<1>. QED
  BY <1>3, <1>4, <1>5, <1>6, <1>7 DEF IInv

\* What a walking step that leaves the service and the outcomes alone keeps.
LEMMA StepIInv ==
  ASSUME IInv, TypeOK', NEW j \in Jobs, Running(j), NEW next \in Awaits,
         pc' = [pc EXCEPT ![j] = next], next \in PastIds => pc[j] \in PastIds,
         UNCHANGED <<service, verdict, answered, history>>,
         \A k \in Jobs : k # j => read'[k] = read[k] /\ keys'[k] = keys[k]
  PROVE  PeriodInv' /\ IdsInv'
<1>1. Keeps
  BY StepKeeps
<1>2. PeriodInv'
  BY <1>1, StepKeeps, PeriodKept DEF Running, Awaits
<1>3. \A k \in Jobs : pc'[k] \in PastIds => pc[k] \in PastIds
  BY StepKeeps
<1>. QED
  BY <1>1, <1>2, <1>3, IdsKept DEF service

LEMMA WalkIInv ==
  ASSUME IInv, TypeOK', NEW j \in Jobs, Running(j), NEW next \in Awaits,
         Continue(j, next), next \in PastIds => pc[j] \in PastIds,
         UNCHANGED <<service, verdict, answered, keys, history>>,
         \A k \in Jobs : k # j => read'[k] = read[k]
  PROVE  PeriodInv' /\ IdsInv'
  BY StepIInv DEF Continue, ContinueOn

LEMMA ReadIInv ==
  ASSUME IInv, TypeOK', LoadedInv', NEW j \in Jobs, ParseFields(j) \/ ReadSources(j)
  PROVE  IInv'
<1>. USE DEF service, handles, composer, pages
<1>1. PICK next \in Awaits : /\ Continue(j, next)
                             /\ next \in PastIds => pc[j] \in PastIds
                             /\ next \notin PastChoice \cup PastClick \cup Typing
                             /\ pc[j] \in Early
  BY DEF ParseFields, ReadSources, NextPart, Awaits, PastIds, PastChoice, PastClick, Typing,
         Early, PCs
<1>2. /\ Running(j)
      /\ read' = [read EXCEPT ![j] = @ \cup Content(on[j])]
      /\ on[j] \in Jobs
      /\ UNCHANGED <<service, handles, verdict, answered, composer, pages, history>>
  BY DEF ParseFields, ReadSources, NextPart, Running, Awaits, Answers, Shows, IInv, TypeOK
<1>3. Keeps
  BY <1>1, <1>2, WalkKeeps
<1>4. PeriodInv' /\ IdsInv'
  BY <1>1, <1>2, WalkIInv DEF IInv, TypeOK
<1>5. PageInv'
  BY <1>1, <1>2, <1>3, WalkKeeps, PageKept
<1>6. ResultsStayInPeriod'
  BY <1>2, <1>3, ContentIsCurrent, ResultsKept DEF IInv, TypeOK
<1>7. MessagesStayInPeriod' /\ KeysInv' /\ Posted' = Posted
  <2>1. \A k \in Jobs : SameStage(k)
    BY <1>1, <1>2, OnwardStage DEF Continue, ContinueOn, PastClick, Typing
  <2>. QED
    BY <1>2, <1>3, <2>1, OutboxKept, KeysKept
<1>8. AnswerMeansSent'
  BY <1>2, <1>3, <1>7, AnswersKept
<1>9. SoloInv'
  <2>1. ASSUME Alone(j) PROVE Solo(j)'
    <3>1. Solo(j)
      BY <1>2, <2>1 DEF IInv, SoloInv
    <3>. QED
      BY <1>1, <1>2, <3>1, WalkKeeps DEF Solo, PastChoice
  <2>2. \A k \in Jobs : ~Running(k)' => field'[k] = None /\ button'[k] = None
    BY <1>1, <1>2, WalkKeeps DEF IInv, SoloInv
  <2>. QED
    BY <1>2, <1>3, <2>1, <2>2, SoloStep
<1>. QED
  BY <1>4, <1>5, <1>6, <1>7, <1>8, <1>9 DEF IInv

LEMMA ChooseSourceIInv ==
  ASSUME IInv, TypeOK', LoadedInv', NEW j \in Jobs, ChooseSource(j)
  PROVE  IInv'
<1>. USE DEF service, handles, results, pages
<1>1. PICK next \in {"recipient", "theme", "compose"} : Continue(j, next)
  BY DEF ChooseSource
<1>2. /\ Running(j) /\ pc[j] \in PastIds /\ pc[j] \in Early /\ next \in Awaits
      /\ on[j] \in Jobs /\ view[on[j]] = "lead"
      /\ chosen' = [chosen EXCEPT ![on[j]] = j]
      /\ UNCHANGED <<service, handles, results, keys, draft, outbox, pages, history>>
  BY DEF ChooseSource, PastIds, PastClick, Early, PCs, Running, Awaits, Answers, Shows, IInv,
         TypeOK
<1>3. Keeps
  BY <1>1, <1>2, WalkKeeps
<1>4. PeriodInv' /\ IdsInv'
  BY <1>1, <1>2, WalkIInv
<1>5. PageInv'
  <2>1. j \in Current
    BY <1>2 DEF IInv, PeriodInv, Current
  <2>2. \A k \in Jobs : Running(k) => Running(k)'
    BY <1>1, <1>2, WalkKeeps
  <2>. QED
    BY <1>2, <1>3, <2>1, <2>2, KeptPeriods DEF IInv, PageInv, TypeOK, Alive, Settled
<1>6. ResultsStayInPeriod'
  BY <1>2, <1>3, ResultsKept
<1>7. MessagesStayInPeriod' /\ KeysInv' /\ Posted' = Posted
  <2>1. \A k \in Jobs : SameStage(k)
    BY <1>1, <1>2, OnwardStage DEF Continue, ContinueOn, PastClick, Typing
  <2>. QED
    BY <1>2, <1>3, <2>1, OutboxKept, KeysKept
<1>8. AnswerMeansSent'
  BY <1>2, <1>3, <1>7, AnswersKept
<1>9. SoloInv'
  <2>1. ASSUME Alone(j) PROVE Solo(j)'
    <3>1. Solo(j)
      BY <1>2, <2>1 DEF IInv, SoloInv
    <3>2. pc[j] \in {"target", "contact"} /\ Before(j)' = Before(j)
      BY DEF ChooseSource, Before
    <3>3. on[j] = j /\ draft[j] = Before(j)
      <4>1. on[j] = j /\ draft[j] \subseteq Whole(j)
        BY <3>1, <3>2 DEF Solo, Typing
      <4>2. keys[j] <= Subject[j] /\ \A c \in draft[j] : c[2] <= keys[c[1]]
        BY <3>2 DEF IInv, KeysInv, PastClick
      <4>3. /\ \A c \in Whole(j) : c[1] = j /\ c[2] \in Nat /\ c[2] > Subject[j]
            /\ keys[j] \in Nat /\ Subject[j] \in Nat
        BY WholeKeys DEF IInv, TypeOK
      <4>4. draft[j] = {} /\ Before(j) = {}
        <5>1. ~\E c \in Whole(j) : c[2] <= keys[j]
          BY <4>2, <4>3
        <5>2. \A c \in draft[j] : c \in Whole(j) /\ c[2] <= keys[j]
          BY <4>1, <4>2, <4>3
        <5>. QED
          BY <5>1, <5>2 DEF Before
      <4>. QED
        BY <4>1, <4>4
    <3>4. /\ pc'[j] = next /\ next \notin PastClick \cup Typing /\ on'[j] = j
          /\ view'[j] = "lead" /\ chosen'[j] = j
      BY <1>1, <1>2, <3>1, <3>3, WalkKeeps DEF Solo, PastClick, Typing, IInv, TypeOK
    <3>. QED
      BY <1>2, <3>1, <3>3, <3>2, <3>4 DEF Solo, PastClick, Typing
  <2>2. \A k \in Jobs : ~Running(k)' => field'[k] = None /\ button'[k] = None
    BY <1>1, <1>2, WalkKeeps DEF IInv, SoloInv
  <2>. QED
    BY <1>2, <1>3, <2>1, <2>2, SoloStep
<1>. QED
  BY <1>4, <1>5, <1>6, <1>7, <1>8, <1>9 DEF IInv

LEMMA FindFieldIInv ==
  ASSUME IInv, TypeOK', LoadedInv', NEW j \in Jobs, FindField(j)
  PROVE  IInv'
<1>. USE DEF service, results, composer, pages
<1>1. PICK next \in {"editor", "button"} : Continue(j, next)
  BY DEF FindField
<1>2. /\ Running(j) /\ pc[j] \in PastIds /\ pc[j] \in PastChoice /\ next \in Awaits
      /\ pc[j] \in Early
      /\ field' = field \/ field' = [field EXCEPT ![j] = on[j]]
      /\ UNCHANGED <<service, button, results, composer, pages, history>>
  BY DEF FindField, PastIds, PastChoice, PastClick, Early, PCs, Running, Awaits
<1>3. Keeps
  BY <1>1, <1>2, WalkKeeps
<1>4. PeriodInv' /\ IdsInv'
  BY <1>1, <1>2, WalkIInv
<1>5. PageInv'
  BY <1>1, <1>2, <1>3, WalkKeeps, PageKept
<1>6. ResultsStayInPeriod'
  BY <1>2, <1>3, ResultsKept
<1>7. MessagesStayInPeriod' /\ KeysInv' /\ Posted' = Posted
  <2>1. \A k \in Jobs : SameStage(k)
    BY <1>1, <1>2, OnwardStage DEF Continue, ContinueOn, PastClick, Typing
  <2>. QED
    BY <1>2, <1>3, <2>1, OutboxKept, KeysKept
<1>8. AnswerMeansSent'
  BY <1>2, <1>3, <1>7, AnswersKept
<1>9. SoloInv'
  <2>1. ASSUME Alone(j) PROVE Solo(j)'
    <3>1. Solo(j)
      BY <1>2, <2>1 DEF IInv, SoloInv
    <3>2. Before(j)' = Before(j)
      BY <1>2 DEF Before
    <3>3. pc'[j] = next /\ next \notin PastClick \cup Typing /\ on'[j] = frame
      BY <1>1, <1>2, WalkKeeps DEF PastClick, Typing
    <3>4. pc[j] \notin Typing
      BY DEF FindField, Typing
    <3>. QED
      BY <1>2, <3>1, <3>2, <3>3, <3>4 DEF Solo, Typing, IInv, TypeOK
  <2>2. \A k \in Jobs : ~Running(k)' => field'[k] = None /\ button'[k] = None
    BY <1>1, <1>2, WalkKeeps DEF IInv, SoloInv, TypeOK
  <2>. QED
    BY <1>2, <1>3, <2>1, <2>2, SoloStep
<1>. QED
  BY <1>4, <1>5, <1>6, <1>7, <1>8, <1>9 DEF IInv

\* Before the keys of its message are pressed, none of them is.
LEMMA NoneBefore ==
  ASSUME NEW j \in Jobs, keys[j] \in Nat, keys[j] <= Subject[j]
  PROVE  Before(j) = {}
<1>1. ASSUME NEW c \in Before(j) PROVE FALSE
  <2>1. c \in Whole(j) /\ c[2] <= keys[j]
    BY <1>1 DEF Before
  <2>. QED
    BY <2>1, WholeKeys
<1>. QED
  BY <1>1

\* What was pressed stays pressed.
LEMMA PressedKept ==
  ASSUME IInv, TypeOK', UNCHANGED outbox,
         \A k \in Jobs : keys[k] <= keys'[k],
         \A p \in Jobs : \A c \in draft'[p] : c \in draft[p] \/ c[2] <= keys'[c[1]]
  PROVE  /\ \A p \in Jobs : \A c \in draft'[p] : c[2] <= keys'[c[1]]
         /\ \A c \in Sent' : c[2] <= keys'[c[1]]
<1>1. \A k \in Jobs : keys[k] \in Nat /\ keys'[k] \in Nat
  BY JobsAssumption DEF IInv, TypeOK
<1>2. ASSUME NEW c \in Keys, c[2] <= keys[c[1]] PROVE c[2] <= keys'[c[1]]
  <2>1. c[1] \in Jobs /\ c[2] \in Nat
    BY JobsAssumption DEF Keys
  <2>. QED
    BY <1>1, <1>2, <2>1
<1>3. \A p \in Jobs : \A c \in draft'[p] : c[2] <= keys'[c[1]]
  BY <1>2 DEF IInv, TypeOK, KeysInv
<1>4. \A c \in Sent : c \in Keys /\ c[2] <= keys[c[1]]
  BY OutboxKeys DEF IInv, KeysInv, Sent
<1>5. Sent' = Sent
  BY DEF Sent
<1>. QED
  BY <1>2, <1>3, <1>4, <1>5

\* A job clicks a field to type into.
LEMMA FocusIInv ==
  ASSUME IInv, TypeOK', LoadedInv', NEW j \in Jobs, ClickSubject(j) \/ ClickField(j)
  PROVE  IInv'
<1>. USE DEF service, results, pages
<1>1. PICK next \in {"subject", "text"}, p \in Jobs :
        /\ Focus(j, next, p)
        /\ next = "subject" => ClickSubject(j) /\ p = on[j]
        /\ next = "text" => ClickField(j) /\ p = field[j]
  BY DEF ClickSubject, ClickField, Answers, Shows, IInv, TypeOK
<1>2. /\ Running(j) /\ next \in Awaits /\ pc' = [pc EXCEPT ![j] = next]
      /\ pc[j] \in PastIds /\ pc[j] \in PastChoice /\ pc[j] \in Early /\ pc[j] \notin Typing
      /\ on[j] \in Jobs /\ view[on[j]] = "lead"
      /\ UNCHANGED <<service, results, chosen, draft, outbox, pages, history>>
  BY <1>1 DEF ClickSubject, ClickField, Focus, composer, PastIds, PastChoice, PastClick, Early,
              Typing, PCs, Running, Awaits, Answers, Shows, IInv, TypeOK
<1>3. /\ next = "subject" => keys' = keys /\ button' = button
      /\ next = "text" => /\ keys' = [keys EXCEPT ![j] = Subject[j]]
                          /\ button' = [button EXCEPT ![j] = on[j]]
  BY <1>1 DEF ClickSubject, ClickField, composer
<1>4. /\ keys[j] \in Nat /\ keys[j] <= Subject[j]
      /\ keys'[j] \in Nat /\ keys'[j] <= Subject[j]
      /\ next = "text" => keys'[j] = Subject[j]
      /\ \A k \in Jobs : keys[k] <= keys'[k] /\ (k # j => keys'[k] = keys[k])
  <2>1. keys[j] <= Subject[j]
    BY <1>2 DEF IInv, KeysInv, Early, PastClick
  <2>2. keys \in [Jobs -> Nat]
    BY JobsAssumption DEF IInv, TypeOK
  <2>. QED
    BY <1>1, <1>3, <2>1, <2>2, WholeKeys
<1>5. Keeps
  BY <1>2, StepKeeps
<1>6. PeriodInv' /\ IdsInv'
  BY <1>2, <1>4, StepIInv
<1>7. PageInv' /\ ResultsStayInPeriod'
  BY <1>2, <1>5, StepKeeps, PageKept, ResultsKept
<1>8. MessagesStayInPeriod' /\ Posted' = Posted
  BY <1>2, <1>5, OutboxKept
<1>9. AnswerMeansSent'
  BY <1>2, <1>5, <1>8, AnswersKept
<1>10. KeysInv'
  <2>1. /\ \A q \in Jobs : \A c \in draft'[q] : c[2] <= keys'[c[1]]
        /\ \A c \in Sent' : c[2] <= keys'[c[1]]
    BY <1>2, <1>4, PressedKept
  <2>2. \A k \in Jobs : k # j => pc'[k] = pc[k] /\ keys'[k] = keys[k]
    BY <1>2, <1>4, StepKeeps
  <2>3. pc'[j] = next
    BY <1>2, StepKeeps
  <2>. QED
    BY <1>1, <1>4, <2>1, <2>2, <2>3 DEF IInv, KeysInv, PastClick
<1>11. SoloInv'
  <2>1. ASSUME Alone(j) PROVE Solo(j)'
    <3>1. Solo(j)
      BY <1>2, <2>1 DEF IInv, SoloInv
    <3>2. p = j /\ on[j] = j
      BY <1>1, <1>2, <3>1, JobsAssumption DEF Solo
    <3>3. on'[j] = j /\ field'[j] = j /\ j \in focused' /\ button'[j] \in {j, None}
      BY <1>1, <1>3, <3>1, <3>2 DEF Focus, Solo, IInv, TypeOK
    <3>4. Before(j) = {} /\ Before(j)' = {}
      <4>1. Before(j) = {}
        BY <1>4, NoneBefore
      <4>2. ASSUME NEW c \in Before(j)' PROVE FALSE
        <5>1. c \in Whole(j) /\ c[2] <= keys'[j]
          BY <4>2 DEF Before
        <5>. QED
          BY <1>4, <5>1, WholeKeys
      <4>. QED
        BY <4>1, <4>2
    <3>5. pc'[j] = next /\ next \in Typing /\ next \notin PastClick
      BY <1>1, <1>2, StepKeeps DEF Typing, PastClick
    <3>. QED
      BY <1>2, <3>1, <3>2, <3>3, <3>4, <3>5, JobsAssumption DEF Solo, Focused
  <2>2. \A k \in Jobs : ~Running(k)' => field'[k] = None /\ button'[k] = None
    <3>1. \A k \in Jobs : k # j => field'[k] = field[k] /\ button'[k] = button[k]
      BY <1>1, <1>3 DEF Focus, IInv, TypeOK
    <3>2. \A k \in Jobs : k # j => (Running(k) <=> Running(k)')
      BY <1>2, StepKeeps DEF Running
    <3>. QED
      BY <1>2, <3>1, <3>2, StepKeeps DEF IInv, SoloInv
  <2>. QED
    BY <1>2, <1>5, <2>1, <2>2, SoloStep
<1>. QED
  BY <1>6, <1>7, <1>8, <1>9, <1>10, <1>11 DEF IInv

\* A job presses a key: into the message field, or elsewhere.
LEMMA PressKeyIInv ==
  ASSUME IInv, TypeOK', LoadedInv', NEW j \in Jobs, PressKey(j)
  PROVE  IInv'
<1>. USE DEF service, control, handles, results, pages
<1>. DEFINE p == on[j]
            c == <<j, keys[j] + 1>>
<1>1. /\ Running(j) /\ pc[j] \in {"subject", "text"} /\ p \in Jobs /\ view[p] \in Alive
      /\ keys' = [keys EXCEPT ![j] = @ + 1]
      /\ keys[j] < LastKey(j)
      /\ UNCHANGED <<service, control, handles, results, chosen, outbox, pages, history>>
  BY DEF PressKey, Running, Awaits, Answers, Shows, IInv, TypeOK
<1>2. \/ /\ view[p] = "lead" /\ (pc[j] = "text" \/ ~Focused(j))
         /\ \E kept \in Kept(j, p) : draft' = [draft EXCEPT ![p] = kept \cup {c}]
      \/ (pc[j] = "subject" \/ ~Focused(j)) /\ draft' = draft
  BY <1>1 DEF PressKey, IInv, TypeOK
<1>3. /\ keys[j] \in Nat /\ keys'[j] = keys[j] + 1 /\ keys'[j] <= LastKey(j)
      /\ LastKey(j) \in Nat
      /\ \A k \in Jobs : keys[k] <= keys'[k] /\ (k # j => keys'[k] = keys[k])
  <2>1. keys \in [Jobs -> Nat] /\ LastKey(j) \in Nat
    BY JobsAssumption DEF LastKey, IInv, TypeOK
  <2>. QED
    BY <1>1, <2>1
<1>4. /\ \A q \in Jobs : \A d \in draft'[q] : d \in draft[q] \/ (q = p /\ d = c)
      /\ draft' # draft => view[p] = "lead"
  <2>1. \A kept \in Kept(j, p) : kept \subseteq draft[p]
    BY DEF Kept
  <2>2. draft \in [Jobs -> SUBSET Keys]
    BY DEF IInv, TypeOK
  <2>. HIDE DEF c
  <2>. QED
    BY <1>1, <1>2, <2>1, <2>2
<1>5. Keeps /\ \A k \in Jobs : Running(k) <=> Running(k)'
  BY <1>1 DEF Keeps, Running
<1>6. PeriodInv' /\ IdsInv' /\ ResultsStayInPeriod'
  <2>1. \A k \in Jobs : pc[k] = "queued" => keys'[k] = keys[k]
    BY <1>1, <1>3
  <2>. QED
    BY <1>1, <1>5, <2>1, PeriodKept, IdsKept, ResultsKept
<1>7. PageInv'
  <2>1. c[1] = j /\ j \in Current
    BY <1>1 DEF IInv, PeriodInv, Current
  <2>2. ASSUME NEW q \in Jobs
        PROVE  /\ draft'[q] # {} => view[q] \in Alive
               /\ \A d \in draft'[q] : d[1] \in Current
    <3>. HIDE DEF c
    <3>. QED
      BY <1>1, <1>4, <2>1 DEF IInv, PageInv
  <2>. QED
    BY <1>1, <1>5, <2>2, KeptPeriods DEF IInv, PageInv
<1>8. MessagesStayInPeriod' /\ Posted' = Posted
  BY <1>1, <1>5, OutboxKept
<1>9. AnswerMeansSent'
  BY <1>1, <1>5, <1>8, AnswersKept
<1>10. KeysInv'
  <2>1. c[2] <= keys'[c[1]]
    BY <1>3
  <2>2. /\ \A q \in Jobs : \A d \in draft'[q] : d[2] <= keys'[d[1]]
        /\ \A d \in Sent' : d[2] <= keys'[d[1]]
    <3>. HIDE DEF c
    <3>. QED
      BY <1>1, <1>3, <1>4, <2>1, PressedKept
  <2>3. /\ pc[j] = "text" => keys[j] >= Subject[j]
        /\ \A k \in Jobs : k # j =>
              /\ pc[k] \notin {"text", "filled", "done"} \cup PastClick => keys[k] <= Subject[k]
              /\ pc[k] = "text" => keys[k] >= Subject[k]
              /\ pc[k] \in {"filled"} \cup PastClick => keys[k] = Length
    BY DEF IInv, KeysInv
  <2>4. /\ pc[j] \notin {"text", "filled", "done"} \cup PastClick => keys'[j] <= Subject[j]
        /\ pc[j] = "text" => keys'[j] >= Subject[j]
        /\ pc[j] \notin {"filled"} \cup PastClick
    BY <1>1, <1>3, <2>3, WholeKeys DEF LastKey, PastClick
  <2>. QED
    BY <1>1, <1>3, <2>2, <2>3, <2>4 DEF KeysInv
<1>11. SoloInv'
  <2>1. ASSUME Alone(j) PROVE Solo(j)'
    <3>1. Solo(j)
      BY <1>1, <2>1 DEF IInv, SoloInv
    <3>2. p = j /\ pc[j] \in Typing /\ pc[j] \in PastChoice /\ pc[j] \notin PastClick
      BY <1>1, <3>1, JobsAssumption DEF Solo, Typing, PastChoice, PastClick
    <3>3. view[j] = "lead" /\ Focused(j) /\ draft[j] = Before(j)
      BY <1>1, <3>1, <3>2 DEF Solo, Alive, Settled
    <3>4. CASE pc[j] = "subject"
      <4>1. draft' = draft
        BY <1>2, <3>3, <3>4
      <4>2. keys[j] <= Subject[j] /\ keys'[j] <= Subject[j] /\ keys'[j] \in Nat
        BY <1>3, <3>4, WholeKeys DEF LastKey
      <4>3. Before(j) = {} /\ Before(j)' = {}
        <5>1. ASSUME NEW d \in Before(j)' PROVE FALSE
          <6>1. d \in Whole(j) /\ d[2] <= keys'[j]
            BY <5>1 DEF Before
          <6>. QED
            BY <4>2, <6>1, WholeKeys
        <5>. QED
          BY <1>3, <4>2, <5>1, NoneBefore
      <4>. QED
        BY <1>1, <1>8, <3>1, <3>3, <4>1, <4>3 DEF Solo, Focused
    <3>5. CASE pc[j] = "text"
      <4>1. PICK kept \in Kept(j, j) : draft' = [draft EXCEPT ![j] = kept \cup {c}]
        BY <1>2, <3>2, <3>3, <3>5
      <4>2. keys[j] >= Subject[j] /\ keys[j] + 1 <= Length
        BY <1>3, <3>5 DEF IInv, KeysInv, LastKey
      <4>3. kept = Before(j)
        <5>1. CASE keys[j] > Subject[j]
          BY <3>3, <4>1, <5>1 DEF Kept
        <5>2. CASE keys[j] <= Subject[j]
          <6>1. Before(j) = {}
            BY <1>3, <5>2, NoneBefore
          <6>2. kept \subseteq draft[j]
            BY <4>1 DEF Kept
          <6>. QED
            BY <3>3, <6>1, <6>2
        <5>. QED
          BY <1>3, <4>2, <5>1, <5>2, WholeKeys
      <4>4. Before(j)' = Before(j) \cup {c}
        <5>1. c \in Whole(j)
          BY <1>3, <4>2, WholeKeys DEF Whole
        <5>2. ASSUME NEW d \in Whole(j) PROVE d[2] <= keys'[j] <=> (d[2] <= keys[j] \/ d = c)
          <6>1. d = <<j, d[2]>> /\ d[2] \in Nat
            BY WholeKeys DEF Whole
          <6>. QED
            BY <1>3, <6>1
        <5>. QED
          BY <5>1, <5>2 DEF Before
      <4>5. draft'[j] = Before(j)'
        BY <4>1, <4>3, <4>4 DEF IInv, TypeOK
      <4>6. Before(j)' \subseteq Whole(j)
        BY DEF Before
      <4>. QED
        BY <1>1, <1>8, <3>1, <3>2, <3>3, <4>5, <4>6 DEF Solo, Focused
    <3>. QED
      BY <1>1, <3>4, <3>5
  <2>2. \A k \in Jobs : ~Running(k)' => field'[k] = None /\ button'[k] = None
    BY <1>1, <1>5 DEF IInv, SoloInv
  <2>. QED
    BY <1>1, <1>5, <2>1, <2>2, SoloStep
<1>. QED
  BY <1>6, <1>7, <1>8, <1>9, <1>10, <1>11 DEF IInv

\* The last key is pressed: the job goes on to the message, or to the button.
LEMMA TypedIInv ==
  ASSUME IInv, TypeOK', LoadedInv', NEW j \in Jobs, Typed(j)
  PROVE  IInv'
<1>. USE DEF service, results, composer, pages
<1>1. PICK next \in {"compose", "filled"}, p \in {frame, button[j]} :
        /\ ContinueOn(j, next, p)
        /\ next = "compose" => pc[j] = "subject"
        /\ next = "filled" => pc[j] = "text"
  BY DEF Typed, Continue
<1>2. /\ Running(j) /\ next \in Awaits /\ pc' = [pc EXCEPT ![j] = next]
      /\ pc[j] \in PastIds /\ pc[j] \in PastChoice /\ pc[j] \notin PastClick
      /\ keys[j] = LastKey(j)
      /\ field' = [field EXCEPT ![j] = None]
      /\ UNCHANGED <<service, button, results, composer, pages, history>>
  BY <1>1 DEF Typed, ContinueOn, PastIds, PastChoice, PastClick, Running, Awaits
<1>3. Keeps
  BY <1>2, StepKeeps
<1>4. PeriodInv' /\ IdsInv'
  BY <1>2, StepIInv
<1>5. PageInv' /\ ResultsStayInPeriod'
  BY <1>2, <1>3, StepKeeps, PageKept, ResultsKept
<1>6. MessagesStayInPeriod' /\ Posted' = Posted /\ Sent' = Sent
  BY <1>2, <1>3, OutboxKept
<1>7. AnswerMeansSent'
  BY <1>2, <1>3, <1>6, AnswersKept
<1>8. KeysInv'
  <2>1. \A k \in Jobs : pc'[k] = IF k = j THEN next ELSE pc[k]
    BY <1>2, StepKeeps
  <2>2. /\ next = "compose" => keys[j] <= Subject[j]
        /\ next = "filled" => keys[j] = Length
    BY <1>1, <1>2, WholeKeys DEF LastKey
  <2>. QED
    BY <1>1, <1>2, <1>6, <2>1, <2>2 DEF IInv, KeysInv, PastClick
<1>9. SoloInv'
  <2>1. ASSUME Alone(j) PROVE Solo(j)'
    <3>1. Solo(j)
      BY <1>2, <2>1 DEF IInv, SoloInv
    <3>2. pc'[j] = next /\ on'[j] = p /\ field'[j] = None
      BY <1>1, <1>2, StepKeeps DEF ContinueOn, IInv, TypeOK
    <3>3. Before(j)' = Before(j)
      BY <1>2 DEF Before
    <3>4. next = "compose" => on'[j] = j
      BY <1>1, <3>1, <3>2 DEF Typed, Continue, ContinueOn, Solo, IInv, TypeOK
    <3>. QED
      BY <1>1, <1>2, <1>6, <3>1, <3>2, <3>3, <3>4 DEF Solo, Typing, PastClick
  <2>2. \A k \in Jobs : ~Running(k)' => field'[k] = None /\ button'[k] = None
    BY <1>2, StepKeeps DEF IInv, SoloInv, TypeOK
  <2>. QED
    BY <1>2, <1>3, <2>1, <2>2, SoloStep
<1>. QED
  BY <1>4, <1>5, <1>6, <1>7, <1>8, <1>9 DEF IInv

\* What a click by j sends is on the page p: the field of p is emptied into an
\* entry, or amoCRM does not take it.
LEMMA ClickSendFacts ==
  ASSUME IInv, NEW j \in Jobs, ClickSend(j), NEW p, p = button[j],
         NEW e, e = [text |-> draft[p], lead |-> url[p], via |-> chosen[p]]
  PROVE  /\ Running(j) /\ pc[j] = "filled" /\ p \in Jobs /\ view[p] = "lead"
         /\ Continue(j, "sent")
         /\ \/ draft[p] # {} /\ outbox' = Append(outbox, e) /\ draft' = [draft EXCEPT ![p] = {}]
            \/ (draft[p] = {} \/ p \in Refusing) /\ UNCHANGED <<draft, outbox>>
         /\ UNCHANGED <<service, handles, results, chosen, keys, pages, events, history>>
  BY DEF ClickSend, Running, Awaits, Shows, IInv, TypeOK

\* The entries are those there were, and perhaps that one.
LEMMA OneMore ==
  ASSUME TypeOK, NEW e, outbox' = Append(outbox, e)
  PROVE  /\ \A i \in 1..Len(outbox') : (i \in 1..Len(outbox) /\ outbox'[i] = outbox[i]) \/ outbox'[i] = e
         /\ \A i \in 1..Len(outbox) : i \in 1..Len(outbox') /\ outbox'[i] = outbox[i]
         /\ \E i \in 1..Len(outbox') : outbox'[i] = e
         /\ \A i \in DOMAIN outbox' \ DOMAIN outbox : outbox'[i] = e
         /\ Posted \subseteq Posted'
         /\ \A k \in Jobs : e.text = Whole(k) => k \in Posted'
         /\ Sent' = Sent \cup e.text
<1>1. outbox \in Seq(Delivery)
  BY DEF TypeOK
<1>2. /\ Len(outbox) \in Nat /\ Len(outbox') = Len(outbox) + 1
      /\ \A i \in 1..Len(outbox) : outbox'[i] = outbox[i]
      /\ outbox'[Len(outbox) + 1] = e
      /\ DOMAIN outbox' = 1..Len(outbox') /\ DOMAIN outbox = 1..Len(outbox)
  BY <1>1
<1>3. /\ \A i \in 1..Len(outbox') : (i \in 1..Len(outbox) /\ outbox'[i] = outbox[i]) \/ outbox'[i] = e
      /\ \A i \in 1..Len(outbox) : i \in 1..Len(outbox') /\ outbox'[i] = outbox[i]
      /\ \E i \in 1..Len(outbox') : outbox'[i] = e
      /\ \A i \in DOMAIN outbox' \ DOMAIN outbox : outbox'[i] = e
  BY <1>2
<1>4. Posted \subseteq Posted' /\ \A k \in Jobs : e.text = Whole(k) => k \in Posted'
  BY <1>3 DEF Posted
<1>5. Sent' = Sent \cup e.text
  BY <1>3 DEF Sent
<1>. QED
  BY <1>3, <1>4, <1>5

LEMMA ClickSendIInv ==
  ASSUME IInv, TypeOK', LoadedInv', NEW j \in Jobs, ClickSend(j)
  PROVE  IInv'
<1>. USE DEF service, handles, results, pages
<1>. DEFINE p == button[j]
<1>. SUFFICES ASSUME NEW e, e = [text |-> draft[p], lead |-> url[p], via |-> chosen[p]]
              PROVE  IInv'
  OBVIOUS
<1>1. /\ Continue(j, "sent") /\ Running(j) /\ "sent" \in Awaits
      /\ pc[j] \in PastIds /\ pc[j] \in PastChoice /\ pc[j] = "filled"
      /\ p \in Jobs /\ view[p] = "lead"
      /\ UNCHANGED <<service, handles, results, chosen, keys, pages, history>>
  BY ClickSendFacts DEF PastIds, PastChoice, Awaits
<1>2. \/ draft[p] # {} /\ outbox' = Append(outbox, e) /\ draft' = [draft EXCEPT ![p] = {}]
      \/ (draft[p] = {} \/ p \in Refusing) /\ UNCHANGED <<draft, outbox>>
  BY ClickSendFacts
<1>3. /\ e.text = draft[p] /\ e.lead = url[p] /\ e.via = chosen[p]
      /\ \A q \in Jobs : draft'[q] \subseteq draft[q]
  BY <1>1, <1>2 DEF IInv, TypeOK
<1>4. Keeps /\ pc'[j] = "sent" /\ (\A k \in Jobs : k # j => pc'[k] = pc[k])
      /\ (\A k \in Jobs : Running(k) => Running(k)')
  BY <1>1, WalkKeeps
<1>5. PeriodInv' /\ IdsInv'
  BY <1>1, WalkIInv
<1>6. PageInv'
  BY <1>1, <1>3, <1>4, KeptPeriods DEF IInv, PageInv
<1>7. ResultsStayInPeriod'
  BY <1>1, <1>4, ResultsKept
<1>8. j \in Current
  BY <1>1 DEF IInv, PeriodInv, Current
<1>9. Alone(j) => p = j /\ draft[j] = Whole(j) /\ chosen[j] = j
  <2>. SUFFICES ASSUME Alone(j) PROVE p = j /\ draft[j] = Whole(j) /\ chosen[j] = j
    OBVIOUS
  <2>1. Solo(j)
    BY <1>1 DEF IInv, SoloInv
  <2>2. p = j /\ draft[j] = Before(j) /\ chosen[j] = j
    BY <1>1, <2>1, JobsAssumption DEF Solo
  <2>3. keys[j] = Length
    BY <1>1 DEF IInv, KeysInv
  <2>. QED
    BY <2>2, <2>3, WholeKeys DEF Before
<1>10. ASSUME NEW c \in draft[p]
       PROVE  /\ \E k \in Companions(c[1]) : e.lead = LeadOf[k]
              /\ e.via \in Companions(c[1]) \cup {None}
              /\ \A d \in e.text : d[1] \in Companions(c[1])
              /\ Alone(c[1]) => e.text = Whole(c[1]) /\ e.via = c[1]
  <2>1. /\ \A d \in draft[p] : d[1] \in Current
        /\ url[p] \in CurrentLeads /\ chosen[p] \in Current \cup {None}
    BY <1>1 DEF IInv, PageInv, LoadedInv
  <2>2. Companions(c[1]) = Current
    BY <2>1 DEF Companions, Current
  <2>3. Alone(c[1]) => c[1] = j
    BY <1>8, <2>2 DEF Alone
  <2>. QED
    BY <1>3, <1>9, <2>1, <2>2, <2>3 DEF CurrentLeads
<1>11. KeysInv'
  <2>1. keys[j] = Length
    BY <1>1 DEF IInv, KeysInv
  <2>2. \A c \in Sent' : c[2] <= keys[c[1]]
    <3>1. Sent' = Sent \/ Sent' = Sent \cup draft[p]
      BY <1>2, <1>3, OneMore DEF Sent, IInv
    <3>. QED
      BY <1>1, <3>1 DEF IInv, KeysInv
  <2>3. \A q \in Jobs : \A c \in draft'[q] : c[2] <= keys[c[1]]
    BY <1>3 DEF IInv, KeysInv
  <2>. QED
    BY <1>1, <1>4, <2>1, <2>2, <2>3 DEF IInv, KeysInv, PastClick
<1>12. MessagesStayInPeriod'
  <2>1. ASSUME NEW i \in 1..Len(outbox'), NEW c \in outbox'[i].text
        PROVE  /\ \E k \in Companions(c[1]) : outbox'[i].lead = LeadOf[k]
               /\ outbox'[i].via \in Companions(c[1]) \cup {None}
               /\ \A d \in outbox'[i].text : d[1] \in Companions(c[1])
               /\ Alone(c[1]) => outbox'[i].text = Whole(c[1]) /\ outbox'[i].via = c[1]
    <3>1. CASE i \in 1..Len(outbox) /\ outbox'[i] = outbox[i]
      BY <2>1, <3>1 DEF IInv, MessagesStayInPeriod
    <3>2. CASE outbox'[i] = e
      BY <1>3, <1>10, <2>1, <3>2
    <3>. QED
      BY <1>2, <3>1, <3>2, OneMore DEF IInv
  <2>2. UNCHANGED period
    BY <1>1 DEF history
  <2>. QED
    BY <2>1, <2>2 DEF MessagesStayInPeriod, Companions, Alone
<1>13. Posted \subseteq Posted'
  BY <1>2, OneMore DEF Posted, IInv
<1>14. AnswerMeansSent'
  BY <1>1, <1>4, <1>13, AnswersKept
<1>15. SoloInv'
  <2>1. ASSUME Alone(j) PROVE Solo(j)'
    <3>1. Solo(j)
      BY <1>1, <2>1 DEF IInv, SoloInv
    <3>2. j \in Posted' \/ j \in Refusing \/ Whole(j) = {}
      BY <1>2, <1>3, <1>9, <2>1, OneMore DEF IInv
    <3>3. on'[j] = frame
      BY <1>1, WalkKeeps
    <3>4. draft'[j] \subseteq Whole(j)
      BY <1>3, <3>1 DEF Solo
    <3>. QED
      BY <1>1, <1>4, <3>1, <3>2, <3>3, <3>4 DEF Solo, Typing, PastChoice
  <2>2. \A k \in Jobs : ~Running(k)' => field'[k] = None /\ button'[k] = None
    BY <1>1, <1>4 DEF IInv, SoloInv
  <2>. QED
    BY <1>1, <1>4, <2>1, <2>2, SoloStep
<1>. QED
  BY <1>5, <1>6, <1>7, <1>11, <1>12, <1>14, <1>15 DEF IInv

LEMMA OpenLeadIInv ==
  ASSUME IInv, TypeOK', LoadedInv', NEW j \in Jobs, OpenLead(j) \/ Reload(j)
  PROVE  IInv'
<1>. USE DEF service, results, composer
<1>1. PICK next \in {"goto", "reload"} :
        /\ Continue(j, next)
        /\ next = "reload" => pc[j] = "sent"
        /\ next = "goto" => pc[j] = "cookies"
  BY DEF OpenLead, Reload
<1>2. /\ Running(j) /\ next \in Awaits
      /\ next \in PastIds => pc[j] \in PastIds
      /\ pc[j] \in {"cookies", "sent"}
      /\ frame \in Jobs /\ view[frame] \in Alive
      /\ view' = [view EXCEPT ![frame] = "loading"]
      /\ DropHandles(frame, {})
      /\ url' = url \/ url' = [url EXCEPT ![frame] = LeadOf[j]]
      /\ listening' = listening \/ listening' = listening \cup {frame}
      /\ UNCHANGED <<service, results, composer, history>>
  BY <1>1 DEF OpenLead, Reload, Navigate, PastIds, Running, Awaits, Shows, IInv, TypeOK
<1>3. Keeps
  BY <1>1, <1>2, WalkKeeps
<1>4. PeriodInv' /\ IdsInv'
  BY <1>1, <1>2, WalkIInv
<1>5. PageInv'
  <2>1. LeadOf[j] \in CurrentLeads
    BY <1>2 DEF IInv, PeriodInv, Current, CurrentLeads
  <2>2. \A k \in Jobs : Running(k) => Running(k)'
    BY <1>1, <1>2, WalkKeeps
  <2>. QED
    BY <1>2, <1>3, <2>1, <2>2, KeptPeriods DEF IInv, PageInv, TypeOK, Alive, Settled
<1>6. ResultsStayInPeriod'
  BY <1>2, <1>3, ResultsKept
<1>7. MessagesStayInPeriod' /\ KeysInv' /\ Posted' = Posted
  <2>1. \A k \in Jobs : SameStage(k)
    <3>1. \A k \in Jobs : pc'[k] = IF k = j THEN next ELSE pc[k]
      BY <1>1, <1>2, WalkKeeps
    <3>. QED
      BY <1>1, <1>2, <3>1 DEF SameStage, Early, Late, PastClick, PCs, Awaits, OpenLead, Reload
  <2>. QED
    BY <1>2, <1>3, <2>1, OutboxKept, KeysKept
<1>8. AnswerMeansSent'
  BY <1>2, <1>3, <1>7, AnswersKept
<1>9. SoloInv'
  <2>1. ASSUME Alone(j) PROVE Solo(j)'
    <3>1. Solo(j)
      BY <1>2, <2>1 DEF IInv, SoloInv
    <3>2. pc'[j] = next /\ on'[j] = frame /\ next \notin PastChoice \cup Typing
      BY <1>1, <1>2, WalkKeeps DEF PastChoice, Typing
    <3>3. field'[j] \in {j, None} /\ button'[j] \in {j, None}
      BY <1>2, <3>1 DEF Solo, DropHandles
    <3>. QED
      BY <1>1, <1>2, <1>7, <3>1, <3>2, <3>3 DEF Solo, Typing, PastClick
  <2>2. \A k \in Jobs : ~Running(k)' => field'[k] = None /\ button'[k] = None
    BY <1>1, <1>2, WalkKeeps DEF IInv, SoloInv, TypeOK, DropHandles
  <2>. QED
    BY <1>2, <1>3, <2>1, <2>2, SoloStep
<1>. QED
  BY <1>4, <1>5, <1>6, <1>7, <1>8, <1>9 DEF IInv

-----------------------------------------------------------------------------
(* The end of a task function, its time limit, and the end of the process. *)

LEMMA ClosedPage ==
  ASSUME IInv, Keeps, NEW j \in Jobs, NEW ended, ClosePage(j, ended),
         \A k \in Jobs : k # j => /\ Running(k) => Running(k)'
                                  /\ verdict'[k] = verdict[k]
  PROVE  /\ PageInv'
         /\ view'[j] = "closed"
         /\ \A k \in Jobs : field'[k] \in {field[k], None} /\ button'[k] \in {button[k], None}
  BY KeptPeriods
  DEF IInv, TypeOK, PageInv, ClosePage, DropHandles, Alive, Settled

LEMMA EndIInv ==
  ASSUME IInv, TypeOK', LoadedInv', NEW j \in Jobs, Running(j),
         NEW outcome \in {"ok", "failed"}, End(j, outcome),
         UNCHANGED <<service, keys, outbox, history>>,
         \A k \in Jobs : k # j => read'[k] = read[k],
         \A l \in read'[j] : l \in read[j] \/ l \in CurrentLeads,
         \/ UNCHANGED answered
         \/ answered' = answered \cup {j} /\ pc[j] \in PastClick
  PROVE  IInv'
<1>1. /\ pc'[j] = "done"
      /\ \A k \in Jobs : k # j => pc'[k] = pc[k] /\ verdict'[k] = verdict[k]
      /\ ClosePage(j, {j})
  BY DEF End, IInv, TypeOK
<1>2. Keeps /\ ~Running(j)' /\ \A k \in Jobs : k # j => (Running(k) <=> Running(k)')
  BY <1>1 DEF Keeps, Running, Awaits
<1>3. PeriodInv'
  BY <1>1, <1>2, PeriodKept DEF Running, Awaits
<1>4. PageInv'
  BY <1>1, <1>2, ClosedPage
<1>5. IdsInv'
  <2>1. \A k \in Jobs : pc'[k] \in PastIds => pc[k] \in PastIds
    BY <1>1 DEF PastIds
  <2>. QED
    BY <1>2, <2>1, IdsKept DEF service
<1>6. ResultsStayInPeriod'
  BY <1>2, ResultsKept
<1>7. MessagesStayInPeriod' /\ KeysInv' /\ Posted' = Posted
  <2>1. \A p \in Jobs : draft'[p] \subseteq draft[p]
    BY <1>1 DEF ClosePage, IInv, TypeOK
  <2>2. \A k \in Jobs : SameStage(k)
    BY <1>1 DEF SameStage
  <2>. QED
    BY <1>2, <2>1, <2>2, OutboxKept, KeysKept
<1>8. AnswerMeansSent'
  <2>1. CASE UNCHANGED answered
    BY <1>2, <1>7, <2>1, AnswersKept
  <2>2. CASE answered' = answered \cup {j} /\ pc[j] \in PastClick
    <3>1. Alone(j) => j \in Posted \/ j \in Refusing \/ Whole(j) = {}
      BY <2>2 DEF IInv, SoloInv, Solo
    <3>2. answered \subseteq Jobs
      BY DEF IInv, TypeOK
    <3>. QED
      BY <1>2, <1>7, <2>2, <3>1, <3>2, KeptPeriods DEF IInv, AnswerMeansSent
  <2>. QED
    BY <2>1, <2>2
<1>9. SoloInv'
  <2>1. field'[j] = None /\ button'[j] = None
    BY <1>1 DEF ClosePage, DropHandles
  <2>2. ASSUME NEW k \in Jobs, ~Running(k)' PROVE field'[k] = None /\ button'[k] = None
    BY <1>1, <1>2, <2>1, <2>2, ClosedPage DEF IInv, SoloInv
  <2>. QED
    BY <1>2, <2>2, SoloStep
<1>. QED
  BY <1>3, <1>4, <1>5, <1>6, <1>7, <1>8, <1>9 DEF IInv

LEMMA EndSteps ==
  ASSUME IInv, TypeOK', LoadedInv', NEW j \in Jobs,
         \/ ReturnLead(j) \/ ReturnSources(j) \/ ReturnWithoutChats(j)
         \/ ReturnChats(j) \/ ReturnNotSent(j) \/ ReturnSent(j) \/ Fail(j)
  PROVE  IInv'
<1>1. CASE Fail(j)
  BY <1>1, EndIInv DEF Fail, IInv, TypeOK
<1>2. ASSUME NEW data \in SUBSET CurrentLeads, Return(j, data), Running(j),
             UNCHANGED answered \/ (answered' = answered \cup {j} /\ pc[j] \in PastClick)
      PROVE  IInv'
  <2>1. read' = [read EXCEPT ![j] = @ \cup data] /\ read \in [Jobs -> SUBSET Leads]
    BY <1>2 DEF Return, IInv, TypeOK
  <2>2. End(j, "ok") /\ UNCHANGED <<service, keys, outbox, history>>
    BY <1>2 DEF Return
  <2>3. /\ \A k \in Jobs : k # j => read'[k] = read[k]
        /\ \A l \in read'[j] : l \in read[j] \/ l \in CurrentLeads
    BY <2>1
  <2>. QED
    BY <1>2, <2>2, <2>3, EndIInv
<1>3. CASE ~Fail(j)
  <2>1. on[j] \in Jobs /\ Running(j)
    BY <1>3 DEF ReturnLead, ReturnSources, ReturnWithoutChats, ReturnChats, ReturnNotSent,
                ReturnSent, Answers, Shows, IInv, TypeOK, Running, Awaits
  <2>2. Content(on[j]) \subseteq CurrentLeads
    BY <2>1, ContentIsCurrent
  <2>3. pc[j] \in PastIds => IdsContent \subseteq CurrentLeads
    BY DEF IInv, IdsInv, IdsContent
  <2>. QED
    BY <1>2, <1>3, <2>1, <2>2, <2>3
    DEF ReturnLead, ReturnSources, ReturnWithoutChats, ReturnChats, ReturnNotSent,
        ReturnSent, PastIds, PastClick
<1>. QED
  BY <1>1, <1>3

LEMMA TimeoutIInv ==
  ASSUME IInv, TypeOK', LoadedInv', NEW j \in Jobs, Timeout(j)
  PROVE  IInv'
<1>. USE DEF service, control
<1>1. /\ Running(j) /\ ClosePage(j, {})
      /\ \A k \in Jobs : k # j => verdict'[k] = verdict[k]
      /\ UNCHANGED <<service, control, read, answered, keys, outbox, history>>
  BY DEF Timeout, IInv, TypeOK
<1>2. Keeps /\ \A k \in Jobs : Running(k) <=> Running(k)'
  BY <1>1 DEF Keeps, Running
<1>3. PeriodInv'
  BY <1>1, <1>2, PeriodKept DEF Running, Awaits
<1>4. PageInv'
  BY <1>1, <1>2, ClosedPage
<1>5. IdsInv' /\ ResultsStayInPeriod'
  BY <1>1, <1>2, IdsKept, ResultsKept
<1>6. MessagesStayInPeriod' /\ KeysInv' /\ Posted' = Posted
  <2>1. \A p \in Jobs : draft'[p] \subseteq draft[p]
    BY <1>1 DEF ClosePage, IInv, TypeOK
  <2>2. \A k \in Jobs : SameStage(k)
    BY <1>1 DEF SameStage
  <2>. QED
    BY <1>1, <1>2, <2>1, <2>2, OutboxKept, KeysKept
<1>7. AnswerMeansSent'
  BY <1>1, <1>2, <1>6, AnswersKept
<1>8. SoloInv'
  <2>1. ASSUME Alone(j) PROVE Solo(j)'
    <3>1. Solo(j)
      BY <1>1, <2>1 DEF IInv, SoloInv
    <3>2. view'[j] = "closed" /\ field'[j] \in {j, None} /\ button'[j] \in {j, None}
      BY <1>1, <1>2, <3>1, ClosedPage DEF Solo
    <3>3. draft'[j] \subseteq Whole(j)
      BY <1>1, <3>1 DEF ClosePage, Solo, IInv, TypeOK
    <3>. QED
      BY <1>1, <1>6, <3>1, <3>2, <3>3 DEF Solo
  <2>2. ASSUME NEW k \in Jobs, ~Running(k)' PROVE field'[k] = None /\ button'[k] = None
    BY <1>1, <1>2, <2>2, ClosedPage DEF IInv, SoloInv
  <2>. QED
    BY <1>1, <1>2, <2>1, <2>2, SoloStep
<1>. QED
  BY <1>3, <1>4, <1>5, <1>6, <1>7, <1>8 DEF IInv

LEMMA CrashIInv ==
  ASSUME IInv, TypeOK', LoadedInv', Crash
  PROVE  IInv'
<1>. USE DEF results
<1>1. /\ \A k \in Jobs : /\ pc'[k] \notin Awaits
                         /\ pc'[k] = "queued" <=> pc[k] = "queued"
                         /\ view'[k] \in {"none", "closed"}
                         /\ url'[k] = None /\ chosen'[k] = None /\ draft'[k] = {}
                         /\ field'[k] = None /\ button'[k] = None
      /\ listening' = {}
      /\ UNCHANGED <<results, keys, outbox, history>>
  BY DEF Crash, Running, Awaits, IInv, TypeOK
<1>2. Keeps
  BY <1>1 DEF Keeps, Running
<1>3. PeriodInv' /\ ResultsStayInPeriod'
  BY <1>1, <1>2, PeriodKept, ResultsKept
<1>4. PageInv' /\ IdsInv' /\ SoloInv'
  BY <1>1 DEF PageInv, IdsInv, SoloInv, Alive, Settled, PastIds, Awaits, Running
<1>5. MessagesStayInPeriod' /\ KeysInv' /\ Posted' = Posted
  <2>1. \A k \in Jobs : SameStage(k)
    BY DEF Crash, SameStage
  <2>. QED
    BY <1>1, <1>2, <2>1, OutboxKept, KeysKept
<1>6. AnswerMeansSent'
  BY <1>1, <1>2, <1>5, AnswersKept
<1>. QED
  BY <1>3, <1>4, <1>5, <1>6 DEF IInv

-----------------------------------------------------------------------------
(* The browser and the listeners. *)

LEMMA ArriveIInv ==
  ASSUME IInv, TypeOK', LoadedInv', NEW p \in Jobs, Arrive(p)
  PROVE  IInv'
<1>. USE DEF service, handles, results
<1>1. /\ view[p] = "loading" /\ Running(p)
      /\ \E v \in {"blank", "login", "lead"} : view' = [view EXCEPT ![p] = v]
      /\ chosen' = [chosen EXCEPT ![p] = None]
      /\ draft' = [draft EXCEPT ![p] = {}]
      /\ UNCHANGED <<service, on, focused, handles, results, keys, outbox, url, listening, history>>
  BY DEF Arrive, IInv, PageInv, Alive
<1>2. \A k \in Jobs : pc'[k] = pc[k] \/ /\ pc[k] = "navigation" /\ pc'[k] = "landed"
                                     \/ /\ pc[k] = "renavigation" /\ pc'[k] = "relanded"
  BY DEF Arrive
<1>3. Keeps /\ \A k \in Jobs : Running(k) <=> Running(k)'
  BY <1>1, <1>2 DEF Keeps, Running, Awaits
<1>4. PeriodInv'
  BY <1>1, <1>3, PeriodKept
<1>5. PageInv'
  BY <1>1, <1>3, KeptPeriods DEF IInv, PageInv, TypeOK, Alive, Settled
<1>6. IdsInv'
  <2>1. \A k \in Jobs : pc'[k] \in PastIds => pc[k] \in PastIds
    BY <1>2 DEF PastIds
  <2>. QED
    BY <1>1, <1>3, <2>1, IdsKept
<1>7. ResultsStayInPeriod'
  BY <1>1, <1>3, ResultsKept
<1>8. MessagesStayInPeriod' /\ KeysInv' /\ Posted' = Posted
  <2>1. \A q \in Jobs : draft'[q] \subseteq draft[q]
    BY <1>1 DEF IInv, TypeOK
  <2>2. \A k \in Jobs : SameStage(k)
    BY <1>2 DEF SameStage, Early, Late, PastClick, PCs, Awaits
  <2>. QED
    BY <1>1, <1>3, <2>1, <2>2, OutboxKept, KeysKept
<1>9. AnswerMeansSent'
  BY <1>1, <1>3, <1>8, AnswersKept
<1>10. SoloInv'
  <2>1. ASSUME Alone(p) PROVE Solo(p)'
    <3>1. Solo(p)
      BY <1>1, <2>1 DEF IInv, SoloInv
    <3>2. pc[p] \notin PastChoice
      BY <1>1, <3>1 DEF Solo
    <3>3. pc'[p] \notin PastChoice \cup Typing /\ pc[p] \notin Typing
      BY <1>2, <3>2 DEF PastChoice, Typing
    <3>4. draft'[p] \subseteq Whole(p)
      BY <1>1 DEF IInv, TypeOK
    <3>. QED
      BY <1>1, <1>2, <1>8, <3>1, <3>3, <3>4 DEF Solo, Typing, PastClick
  <2>2. \A k \in Jobs : ~Running(k)' => field'[k] = None /\ button'[k] = None
    BY <1>1, <1>3 DEF IInv, SoloInv
  <2>. QED
    BY <1>1, <1>3, <2>1, <2>2, SoloStep
<1>. QED
  BY <1>4, <1>5, <1>6, <1>7, <1>8, <1>9, <1>10 DEF IInv

\* A listener that leaves the pages and the composers alone.
LEMMA ListenerIInv ==
  ASSUME IInv, TypeOK', LoadedInv', NEW p \in Jobs, Request(p) \/ Probe(p)
  PROVE  IInv'
<1>. USE DEF control, handles, results, composer, pages, history
<1>1. /\ UNCHANGED <<amoUsersIds, control, handles, results, composer, pages, history>>
      /\ frame' = frame \/ (frame' = p /\ Running(p))
  BY DEF Request, Probe, IInv, PageInv, Alive, Settled
<1>2. Keeps /\ \A k \in Jobs : Running(k) <=> Running(k)'
  BY <1>1 DEF Keeps, Running
<1>3. PeriodInv' /\ PageInv' /\ IdsInv' /\ ResultsStayInPeriod'
  BY <1>1, <1>2, PeriodKept, PageKept, IdsKept, ResultsKept
<1>4. MessagesStayInPeriod' /\ KeysInv' /\ Posted' = Posted
  <2>1. \A k \in Jobs : SameStage(k)
    BY <1>1 DEF SameStage
  <2>. QED
    BY <1>1, <1>2, <2>1, OutboxKept, KeysKept
<1>5. AnswerMeansSent'
  BY <1>1, <1>2, <1>4, AnswersKept
<1>6. SoloInv'
  <2>1. ASSUME NEW k \in Jobs, Running(k), Alone(k) PROVE Solo(k)'
    <3>1. Solo(k)
      BY <2>1 DEF IInv, SoloInv
    <3>2. frame' = k
      BY <1>1, <2>1, <3>1, AloneIsAlone DEF Solo
    <3>. QED
      BY <1>1, <1>4, <3>1, <3>2 DEF Solo, Before, Focused
  <2>. QED
    BY <1>1, <1>2, <2>1, KeptPeriods DEF IInv, SoloInv
<1>. QED
  BY <1>3, <1>4, <1>5, <1>6 DEF IInv

LEMMA SubmitIInv ==
  ASSUME IInv, TypeOK', LoadedInv', NEW p \in Jobs, Submit(p)
  PROVE  IInv'
<1>. USE DEF control, results, composer
<1>1. /\ view[p] = "login" /\ Running(p)
      /\ view' = [view EXCEPT ![p] = "loading"]
      /\ DropHandles(p, {})
      /\ UNCHANGED <<frame, amoUsersIds, control, results, composer, url, listening, history>>
  BY DEF Submit, Navigate, IInv, PageInv, Alive, Settled
<1>2. Keeps /\ \A k \in Jobs : Running(k) <=> Running(k)'
  BY <1>1 DEF Keeps, Running
<1>3. PeriodInv' /\ IdsInv' /\ ResultsStayInPeriod'
  BY <1>1, <1>2, PeriodKept, IdsKept, ResultsKept
<1>4. PageInv'
  BY <1>1, <1>2, KeptPeriods DEF IInv, PageInv, TypeOK, Alive, Settled
<1>5. MessagesStayInPeriod' /\ KeysInv' /\ Posted' = Posted
  <2>1. \A k \in Jobs : SameStage(k)
    BY <1>1 DEF SameStage
  <2>. QED
    BY <1>1, <1>2, <2>1, OutboxKept, KeysKept
<1>6. AnswerMeansSent'
  BY <1>1, <1>2, <1>5, AnswersKept
<1>7. \A k \in Jobs : field'[k] \in {field[k], None} /\ button'[k] \in {button[k], None}
  BY <1>1 DEF DropHandles
<1>8. SoloInv'
  <2>1. ASSUME Alone(p) PROVE Solo(p)'
    <3>1. Solo(p)
      BY <1>1, <2>1 DEF IInv, SoloInv
    <3>2. pc[p] \notin PastChoice
      BY <1>1, <3>1 DEF Solo
    <3>3. pc[p] \notin Typing
      BY <3>2 DEF PastChoice, Typing
    <3>. QED
      BY <1>1, <1>5, <1>7, <3>1, <3>2, <3>3 DEF Solo, Typing
  <2>2. \A k \in Jobs : ~Running(k)' => field'[k] = None /\ button'[k] = None
    BY <1>2, <1>7 DEF IInv, SoloInv
  <2>. QED
    BY <1>1, <1>2, <2>1, <2>2, SoloStep
<1>. QED
  BY <1>3, <1>4, <1>5, <1>6, <1>8 DEF IInv

-----------------------------------------------------------------------------
(* The theorems. *)

LEMMA NextIInv == IInv /\ [Next]_vars => IInv'
<1>. SUFFICES ASSUME IInv, [Next]_vars PROVE IInv'
  OBVIOUS
<1>1. TypeOK' /\ LoadedInv'
  BY NextTypeOK, NextLoaded DEF IInv
<1>2. ASSUME NEW j \in Jobs, Step(j) PROVE IInv'
  BY <1>1, <1>2, StartIInv, OpenLeadIInv, QuietSteps, StoreUserIdsIInv, ReadIInv,
     EndSteps, ChooseSourceIInv, FindFieldIInv, FocusIInv, PressKeyIInv, TypedIInv,
     ClickSendIInv, TimeoutIInv, CrashIInv
  DEF Step, Rethrow
<1>3. ASSUME NEW p \in Jobs, Browser(p) PROVE IInv'
  BY <1>1, <1>3, ArriveIInv, ListenerIInv, SubmitIInv DEF Browser
<1>4. CASE LoadListenerFails
  BY <1>1, <1>4, CrashIInv DEF LoadListenerFails
<1>5. CASE UNCHANGED vars
  <2>. USE <1>5 DEF vars, service, control, handles, results, composer, pages, events
  <2>1. Keeps /\ \A k \in Jobs : Running(k) <=> Running(k)'
    BY DEF Keeps, Running
  <2>2. PeriodInv' /\ PageInv' /\ IdsInv' /\ ResultsStayInPeriod'
    BY <1>1, <2>1, PeriodKept, PageKept, IdsKept, ResultsKept
  <2>3. MessagesStayInPeriod' /\ KeysInv' /\ Posted' = Posted
    <3>1. \A k \in Jobs : SameStage(k)
      BY DEF SameStage
    <3>. QED
      BY <1>1, <2>1, <3>1, OutboxKept, KeysKept
  <2>4. AnswerMeansSent'
    BY <2>1, <2>3, AnswersKept
  <2>5. SoloInv'
    BY <2>1, <2>3, KeptPeriods DEF IInv, SoloInv, Solo, Before, Focused
  <2>. QED
    BY <1>1, <2>2, <2>3, <2>4, <2>5 DEF IInv
<1>. QED
  BY <1>2, <1>3, <1>4, <1>5 DEF Next

\* The inductive invariant holds in every reachable state.
THEOREM Invariance == Spec => []IInv
<1>. QED
  BY InitIInv, NextIInv, PTL DEF Spec

\* No result ever holds data of a lead that only a job of another busy period
\* asked for, whatever jobs overlap, fail or outlive their time limit.
THEOREM ResultsIsolated == Spec => []ResultsStayInPeriod
<1>1. IInv => ResultsStayInPeriod
  BY DEF IInv
<1>. QED
  BY <1>1, Invariance, PTL

\* No key ever reaches a lead, goes through a source, or gets into an entry with
\* a key, of another busy period; a job that is alone sends its message whole, to
\* its lead and through its source.
THEOREM MessagesIsolated == Spec => []MessagesStayInPeriod
<1>1. IInv => MessagesStayInPeriod
  BY DEF IInv
<1>. QED
  BY <1>1, Invariance, PTL

\* A sendMessage job that was alone and answers with a message has sent its own,
\* or amoCRM refused it.
THEOREM AnswersAreTrue == Spec => []AnswerMeansSent
<1>1. IInv => AnswerMeansSent
  BY DEF IInv
<1>. QED
  BY <1>1, Invariance, PTL

\* amoCRM accepts no key of a job that is alone after its caller was told the
\* outcome.
THEOREM NothingAfterVerdict == Spec => NoSendAfterVerdict
<1>. DEFINE Punctual == \A i \in DOMAIN outbox' \ DOMAIN outbox : \A c \in outbox'[i].text :
                        Alone(c[1]) => verdict[c[1]] = "pending"
<1>1. ASSUME IInv, NEW j \in Jobs, ClickSend(j) PROVE Punctual
  <2>. DEFINE p == button[j]
  <2>. SUFFICES ASSUME NEW e, e = [text |-> draft[p], lead |-> url[p], via |-> chosen[p]]
                PROVE  Punctual
    OBVIOUS
  <2>1. /\ Running(j) /\ pc[j] = "filled" /\ p \in Jobs /\ view[p] = "lead"
        /\ outbox' = outbox \/ outbox' = Append(outbox, e)
    BY <1>1, ClickSendFacts
  <2>2. CASE outbox' = outbox
    BY <2>2
  <2>3. CASE outbox' = Append(outbox, e)
    <3>1. \A i \in DOMAIN outbox' \ DOMAIN outbox : outbox'[i] = e
      BY <1>1, <2>3, OneMore DEF IInv
    <3>2. ASSUME NEW c \in draft[p], Alone(c[1]) PROVE verdict[c[1]] = "pending"
      <4>1. c[1] \in Current /\ j \in Current
        BY <1>1, <2>1 DEF IInv, PageInv, PeriodInv, Current
      <4>2. c[1] = j /\ Alone(j)
        BY <3>2, <4>1 DEF Alone, Companions, Current
      <4>3. p = j
        BY <1>1, <2>1, <4>2, JobsAssumption DEF IInv, SoloInv, Solo
      <4>. QED
        BY <1>1, <2>1, <4>2, <4>3 DEF IInv, PageInv, Alive, Settled
    <3>3. e.text = draft[p]
      OBVIOUS
    <3>. QED
      BY <3>1, <3>2, <3>3
  <2>. QED
    BY <2>1, <2>2, <2>3
<1>2. IInv /\ [Next]_vars => [Punctual]_vars
  <2>. SUFFICES ASSUME IInv, Next, ~\E j \in Jobs : ClickSend(j) PROVE outbox' = outbox
    BY <1>1
  <2>. USE DEF composer
  <2>1. ASSUME NEW j \in Jobs, Step(j) PROVE outbox' = outbox
    BY <2>1
    DEF Step, Start, OpenLead, Opened, CheckAuth, Landed, Hop, StoreUserIds, ParseFields,
        ReturnLead, ReturnSources, ReadSources, ReturnWithoutChats, ReturnChats,
        ChooseSource, ClickSubject, FindField, ClickField, PressKey, Typed, ReturnNotSent,
        Reload, Reloaded, ReturnSent, Fail, Timeout, Rethrow, Return, Crash
  <2>2. ASSUME NEW p \in Jobs, Browser(p) PROVE outbox' = outbox
    BY <2>2 DEF Browser, Arrive, Request, Probe, Submit
  <2>. QED
    BY <2>1, <2>2 DEF Next, LoadListenerFails, Crash
<1>3. [][Punctual]_vars <=> NoSendAfterVerdict
  BY DEF NoSendAfterVerdict
<1>. HIDE DEF Punctual
<1>. QED
  BY <1>2, <1>3, Invariance, PTL DEF Spec

-----------------------------------------------------------------------------
(* What a client can do about the two claims of README.md that the service  *)
(* breaks when jobs overlap: hypotheses on when the requests come.          *)

\* A job begins its task function in this step.
Starts(j) == pc[j] = "queued" /\ pc'[j] # "queued"

\* What a step that starts nobody does to a job: it goes on, or ends, and is
\* told its outcome once.
Steady ==
  \A k \in Jobs : /\ verdict[k] = "failed" => verdict'[k] = "failed"
                  /\ verdict'[k] = "pending" => verdict[k] = "pending"
                  /\ Running(k)' => verdict'[k] \in {verdict[k], "failed"}
                  /\ pc'[k] = "cookies" => pc[k] = "cookies" /\ on'[k] = on[k]

\* Only Start() leaves "queued", enters a busy period or asks for cookies.
LEMMA OnlyStartStarts ==
  ASSUME IInv, TypeOK', [Next]_vars, ~\E j \in Jobs : Start(j)
  PROVE  Keeps /\ Steady
<1>. USE DEF service, control, handles, results, composer, pages, events, history
<1>1. ASSUME NEW j \in Jobs, NEW next \in Awaits \ {"cookies"}, Running(j),
             pc' = [pc EXCEPT ![j] = next], NEW p, on' = [on EXCEPT ![j] = p],
             UNCHANGED <<verdict, history>>
      PROVE  Keeps /\ Steady
  BY <1>1, StepKeeps DEF Steady, IInv, TypeOK
<1>2. ASSUME NEW j \in Jobs, Opened(j) \/ CheckAuth(j) \/ Landed(j) \/ Reloaded(j)
                              \/ OpenLead(j) \/ StoreUserIds(j) \/ ParseFields(j)
                              \/ ReadSources(j) \/ ChooseSource(j) \/ FindField(j)
                              \/ ClickSend(j) \/ Reload(j)
      PROVE  Keeps /\ Steady
  <2>1. PICK next \in Awaits \ {"cookies"} : Continue(j, next)
    BY <1>2 DEF Opened, CheckAuth, Landed, Reloaded, OpenLead, StoreUserIds, ParseFields,
                NextPart, ReadSources, ChooseSource, FindField, ClickSend, Reload, Awaits
  <2>2. Running(j) /\ UNCHANGED <<verdict, history>>
    BY <1>2 DEF Opened, CheckAuth, Landed, Reloaded, OpenLead, StoreUserIds, ParseFields,
                NextPart, ReadSources, ChooseSource, FindField, ClickSend, Reload, Running,
                Awaits
  <2>. QED
    BY <1>1, <2>1, <2>2 DEF Continue, ContinueOn
<1>11. ASSUME NEW j \in Jobs, ClickSubject(j) \/ ClickField(j) \/ Typed(j)
       PROVE  Keeps /\ Steady
  <2>1. /\ Running(j) /\ UNCHANGED <<verdict, history>>
        /\ \E next \in Awaits \ {"cookies"}, p \in {on[j], field[j], button[j], frame} :
             pc' = [pc EXCEPT ![j] = next] /\ on' = [on EXCEPT ![j] = p]
    BY <1>11 DEF ClickSubject, ClickField, Typed, Focus, Continue, ContinueOn, Running, Awaits
  <2>. QED
    BY <1>1, <2>1
<1>12. ASSUME NEW j \in Jobs, PressKey(j) PROVE Keeps /\ Steady
  BY <1>12 DEF PressKey, Keeps, Steady, Running
<1>3. ASSUME NEW j \in Jobs, Hop(j) PROVE Keeps /\ Steady
  <2>1. PICK h \in Hops(Kind[j]) : pc[j] = h[1] /\ Continue(j, h[2])
    BY <1>3, HopIsListed DEF IInv
  <2>2. Kind[j] \in Kinds
    BY JobsAssumption
  <2>3. h[1] \in Awaits /\ h[2] \in Awaits \ {"cookies"}
    BY <2>2 DEF Kinds, Hops, Awaits
  <2>. QED
    BY <1>1, <1>3, <2>1, <2>3 DEF Hop, Continue, ContinueOn, Running
<1>4. ASSUME NEW j \in Jobs, Running(j), NEW outcome \in {"ok", "failed"}, End(j, outcome),
             UNCHANGED history
      PROVE  Keeps /\ Steady
  BY <1>4 DEF Keeps, Steady, End, Running, Awaits, IInv, TypeOK
<1>5. ASSUME NEW j \in Jobs, \/ ReturnLead(j) \/ ReturnSources(j) \/ ReturnWithoutChats(j)
                             \/ ReturnChats(j) \/ ReturnNotSent(j) \/ ReturnSent(j)
                             \/ Fail(j)
      PROVE  Keeps /\ Steady
  <2>1. Running(j) /\ UNCHANGED history /\ (End(j, "ok") \/ End(j, "failed"))
    BY <1>5 DEF ReturnLead, ReturnSources, ReturnWithoutChats, ReturnChats, ReturnNotSent,
                ReturnSent, Fail, Return, Running, Awaits
  <2>. QED
    BY <1>4, <2>1
<1>6. ASSUME NEW j \in Jobs, Timeout(j) PROVE Keeps /\ Steady
  BY <1>6 DEF Keeps, Steady, Timeout, Running, IInv, TypeOK
<1>7. CASE Crash
  BY <1>7 DEF Keeps, Steady, Crash, Running, Awaits, IInv, TypeOK
<1>8. ASSUME NEW p \in Jobs, Arrive(p) PROVE Keeps /\ Steady
  BY <1>8 DEF Keeps, Steady, Arrive, Running, Awaits, IInv, TypeOK
<1>9. ASSUME NEW p \in Jobs, Request(p) \/ Probe(p) \/ Submit(p) PROVE Keeps /\ Steady
  BY <1>9 DEF Keeps, Steady, Request, Probe, Submit, Running
<1>10. CASE UNCHANGED vars
  BY <1>10 DEF Keeps, Steady, vars, Running
<1>. QED
  BY <1>2, <1>3, <1>5, <1>6, <1>7, <1>8, <1>9, <1>10, <1>11, <1>12
  DEF Next, Step, Browser, Rethrow, LoadListenerFails

\* No two jobs were started in the same busy period.
StartedApart ==
  \A j, k \in Jobs :
     pc[j] # "queued" /\ pc[k] # "queued" /\ period[j] = period[k] => j = k

\* Requests come one at a time: none begins while a task function is running,
\* be it one whose caller was told the outcome already.
OneAtATime == [][ \A j \in Jobs : Starts(j) => \A k \in Jobs : ~Running(k) ]_vars

\* A job that starts when nobody runs is the first of its busy period.
LEMMA ApartSteps ==
  ASSUME IInv, TypeOK', StartedApart, [Next]_vars,
         \A j \in Jobs : Starts(j) => \A k \in Jobs : ~Running(k)
  PROVE  StartedApart'
<1>1. ASSUME NEW j \in Jobs, Start(j) PROVE StartedApart'
  <2>1. pc[j] = "queued" /\ pc' = [pc EXCEPT ![j] = "cookies"]
    BY <1>1 DEF Start
  <2>2. Starts(j)
    BY <2>1 DEF Starts, IInv, TypeOK
  <2>3. now' = now + 1 /\ period' = [period EXCEPT ![j] = now']
    BY <1>1, <2>2 DEF Start
  <2>4. \A k \in Jobs : pc[k] # "queued" => period[k] <= now
    BY DEF IInv, PeriodInv, TypeOK
  <2>. QED
    BY <2>1, <2>3, <2>4 DEF StartedApart, IInv, TypeOK
<1>2. CASE ~\E j \in Jobs : Start(j)
  <2>1. Keeps
    BY <1>2, OnlyStartStarts
  <2>. QED
    BY <2>1 DEF Keeps, history, StartedApart
<1>. QED
  BY <1>1, <1>2

\* A job whose busy period has no other start has no companion.
LEMMA StartedAlone ==
  ASSUME IInv, StartedApart, NEW j \in Jobs, pc[j] # "queued"
  PROVE  Alone(j)
<1>1. \A k \in Jobs : period[k] = period[j] => pc[k] # "queued"
  BY DEF IInv, PeriodInv, TypeOK
<1>. QED
  BY <1>1 DEF StartedApart, Alone, Companions

\* An entry that holds a key of a request is what that request asked for, and a
\* job that answers with a message has sent its own.
EntriesAreMeant ==
  \A i \in 1..Len(outbox) : \A c \in outbox[i].text :
     /\ outbox[i].text = Whole(c[1])
     /\ outbox[i].lead = LeadOf[c[1]]
     /\ outbox[i].via = c[1]

AnswersAreMeant == \A j \in answered : j \in Posted \/ j \in Refusing \/ Whole(j) = {}

\* Under that hypothesis both claims of README.md hold: every result is of the
\* lead of its request, every entry is the whole message of one request, for its
\* lead and through its source, and an answer with a message means it was sent
\* unless amoCRM refused it.
THEOREM OneAtATimeIsSafe ==
  Spec /\ OneAtATime =>
    [](ResultIsOfItsLead /\ MessageReachesItsLead /\ EntriesAreMeant /\ AnswersAreMeant)
<1>. DEFINE Quiet == \A j \in Jobs : Starts(j) => \A k \in Jobs : ~Running(k)
<1>1. Init => StartedApart
  BY DEF Init, StartedApart
<1>2. IInv /\ IInv' /\ StartedApart /\ [Next]_vars /\ [Quiet]_vars => StartedApart'
  <2>. SUFFICES ASSUME IInv, IInv', StartedApart, [Next]_vars, [Quiet]_vars
                PROVE  StartedApart'
    OBVIOUS
  <2>1. UNCHANGED vars => Quiet
    BY DEF vars, control, Starts
  <2>. QED
    BY <2>1, ApartSteps DEF IInv
<1>3. IInv /\ StartedApart =>
        ResultIsOfItsLead /\ MessageReachesItsLead /\ EntriesAreMeant /\ AnswersAreMeant
  <2>. SUFFICES ASSUME IInv, StartedApart
                PROVE  /\ ResultIsOfItsLead /\ MessageReachesItsLead
                       /\ EntriesAreMeant /\ AnswersAreMeant
    OBVIOUS
  <2>1. ASSUME NEW j \in Jobs, pc[j] # "queued" PROVE Alone(j)
    BY <2>1, StartedAlone
  <2>2. ASSUME NEW j \in Jobs PROVE read[j] \subseteq {LeadOf[j]}
    <3>1. CASE pc[j] = "queued"
      BY <3>1 DEF IInv, PeriodInv
    <3>2. CASE pc[j] # "queued"
      <4>1. Companions(j) = {j}
        BY <2>1, <3>2 DEF Alone
      <4>. QED
        BY <4>1 DEF IInv, ResultsStayInPeriod
    <3>. QED
      BY <3>1, <3>2
  <2>3. ASSUME NEW i \in 1..Len(outbox), NEW c \in outbox[i].text
        PROVE  /\ outbox[i].text = Whole(c[1])
               /\ outbox[i].lead = LeadOf[c[1]]
               /\ outbox[i].via = c[1]
    <3>1. Alone(c[1])
      BY <2>1, <2>3, SentWasPressed
    <3>. QED
      BY <2>3, <3>1 DEF IInv, MessagesStayInPeriod, Alone
  <2>4. AnswersAreMeant
    BY <2>1 DEF AnswersAreMeant, IInv, AnswerMeansSent, PeriodInv, TypeOK
  <2>. QED
    BY <2>2, <2>3, <2>4 DEF ResultIsOfItsLead, MessageReachesItsLead, EntriesAreMeant
<1>4. OneAtATime <=> [][Quiet]_vars
  BY DEF OneAtATime
<1>. HIDE DEF Quiet
<1>. QED
  BY <1>1, <1>2, <1>3, <1>4, Invariance, PTL DEF Spec

\* Nor is any key sent then after its caller was told the outcome.
THEOREM OneAtATimeInTime ==
  Spec /\ OneAtATime =>
    [][ \A i \in DOMAIN outbox' \ DOMAIN outbox : \A c \in outbox'[i].text :
          verdict[c[1]] = "pending" ]_vars
<1>. DEFINE Quiet    == \A j \in Jobs : Starts(j) => \A k \in Jobs : ~Running(k)
            Punctual == \A i \in DOMAIN outbox' \ DOMAIN outbox : \A c \in outbox'[i].text :
                          Alone(c[1]) => verdict[c[1]] = "pending"
            Goal     == \A i \in DOMAIN outbox' \ DOMAIN outbox : \A c \in outbox'[i].text :
                          verdict[c[1]] = "pending"
<1>1. Init => StartedApart
  BY DEF Init, StartedApart
<1>2. IInv /\ IInv' /\ StartedApart /\ [Next]_vars /\ [Quiet]_vars => StartedApart'
  <2>1. UNCHANGED vars => Quiet
    BY DEF vars, control, Starts
  <2>. QED
    BY <2>1, ApartSteps DEF IInv
<1>3. ASSUME IInv, IInv', StartedApart, Next, Punctual PROVE Goal
  <2>. SUFFICES ASSUME NEW i \in DOMAIN outbox' \ DOMAIN outbox, NEW c \in outbox'[i].text
                PROVE  Alone(c[1])
    BY <1>3
  <2>1. ~\E j \in Jobs : Start(j)
    BY DEF Start, composer
  <2>2. Keeps
    BY <1>3, <2>1, OnlyStartStarts DEF IInv
  <2>3. i \in 1..Len(outbox')
    BY <1>3 DEF IInv, TypeOK
  <2>4. c[1] \in Jobs /\ pc'[c[1]] # "queued"
    <3>1. IInv' /\ outbox'[i] \in Delivery
      <4>1. outbox' \in Seq(Delivery)
        BY <1>3 DEF IInv, TypeOK
      <4>. QED
        BY <1>3, <2>3, <4>1
    <3>2. c \in Keys /\ c[1] \in Jobs /\ c[2] \in 1..Length
      BY <3>1 DEF Delivery, Keys
    <3>3. c[2] <= keys'[c[1]]
      BY <2>3, <3>1 DEF IInv, KeysInv, Sent
    <3>4. pc'[c[1]] = "queued" => keys'[c[1]] = 0
      <4>1. PeriodInv'
        BY <3>1 DEF IInv
      <4>. QED
        BY <3>2, <4>1 DEF PeriodInv
    <3>. QED
      BY <3>2, <3>3, <3>4, JobsAssumption
  <2>5. pc[c[1]] # "queued"
    BY <2>2, <2>4 DEF Keeps
  <2>. QED
    BY <1>3, <2>4, <2>5, StartedAlone
<1>4. (OneAtATime <=> [][Quiet]_vars) /\ (NoSendAfterVerdict <=> [][Punctual]_vars)
  BY DEF OneAtATime, NoSendAfterVerdict
<1>. HIDE DEF Quiet, Punctual, Goal
<1>5. Spec /\ OneAtATime => [][Goal]_vars
  BY <1>1, <1>2, <1>3, <1>4, Invariance, NothingAfterVerdict, PTL DEF Spec
<1>. QED
  BY <1>5 DEF Goal

-----------------------------------------------------------------------------
(* A weaker hypothesis: the clients wait for the report of a job before     *)
(* they ask for the next one, but not for task functions that outlive their *)
(* time limit, of which no report tells.                                    *)

\* The caller of j is still waiting for it.
Pending(j) == Running(j) /\ verdict[j] = "pending"

\* No request is made while a caller waits for the outcome of another.
AfterReports == [][ \A j \in Jobs : Starts(j) => \A k \in Jobs : ~Pending(k) ]_vars

\* Such a hypothesis keeps one job pending, and only its page is open; it is on
\* that page until it has opened its lead there, and what it reads of the
\* service is of its lead.  All others have been told that they failed.
OnePending  == \A j, k \in Jobs : Pending(j) /\ Pending(k) => j = k
OkIsOver    == \A j \in Jobs : Running(j) => verdict[j] # "ok"
OwnCookies  == \A j \in Jobs : pc[j] = "cookies" => on[j] = j
OwnUrl      == \A p \in Jobs : url[p] # None => url[p] = LeadOf[p]
OwnIds      == \A j \in Jobs : pc[j] \in PastIds /\ verdict[j] = "pending" =>
                                 amoUsersIds \in {LeadOf[j], None}
OwnRead     == \A j \in Jobs : verdict[j] # "failed" => read[j] \subseteq {LeadOf[j]}
OwnDraft    == \A p \in Jobs : \A c \in draft[p] : c[1] = p \/ verdict[c[1]] = "failed"
OwnMessages == \A i \in 1..Len(outbox) : \A c \in outbox[i].text :
                 outbox[i].lead = LeadOf[c[1]] \/ verdict[c[1]] = "failed"

OwnInv ==
  /\ OnePending /\ OkIsOver /\ OwnCookies /\ OwnUrl /\ OwnIds
  /\ OwnRead /\ OwnDraft /\ OwnMessages

LEMMA InitOwn == Init => OwnInv
<1>. SUFFICES ASSUME Init PROVE OwnInv
  OBVIOUS
<1>1. outbox = <<>> /\ Len(outbox) = 0
  BY DEF Init
<1>2. OwnMessages
  BY <1>1 DEF OwnMessages
<1>. QED
  BY <1>2 DEF Init, OwnInv, OnePending, OkIsOver, OwnCookies, OwnUrl, OwnIds, OwnRead,
              OwnDraft, Pending, Running, Awaits, PastIds

\* Any page that is open is the one of the pending job.
LEMMA OnlyPage ==
  ASSUME IInv, OwnInv, NEW p \in Jobs, view[p] \in Alive, NEW j \in Jobs, Pending(j)
  PROVE  p = j
  BY DEF IInv, PageInv, OwnInv, OnePending, Pending

\* What such a page shows is the lead of its job.
LEMMA OwnContent ==
  ASSUME IInv, OwnInv, NEW p \in Jobs
  PROVE  Content(p) \subseteq {LeadOf[p]}
  BY DEF IInv, LoadedInv, OwnInv, OwnUrl, Content

\* Whoever starts, starts alone among the pending jobs; nobody else joins them.
LEMMA PendingSteps ==
  ASSUME IInv, TypeOK', OwnInv, [Next]_vars,
         \A j \in Jobs : Starts(j) => \A k \in Jobs : ~Pending(k)
  PROVE  /\ OnePending' /\ OkIsOver' /\ OwnCookies'
         /\ \A k \in Jobs : /\ verdict[k] = "failed" => verdict'[k] = "failed"
                            /\ verdict'[k] = "pending" => verdict[k] = "pending"
<1>1. ASSUME NEW j \in Jobs, Start(j)
      PROVE  OnePending' /\ OkIsOver' /\ OwnCookies' /\ verdict' = verdict
  <2>1. /\ pc[j] = "queued" /\ pc' = [pc EXCEPT ![j] = "cookies"]
        /\ on' = [on EXCEPT ![j] = j] /\ verdict' = verdict
    BY <1>1 DEF Start, results
  <2>2. Starts(j)
    BY <2>1 DEF Starts, IInv, TypeOK
  <2>3. \A k \in Jobs : ~Pending(k)
    BY <2>2
  <2>4. verdict[j] = "pending"
    BY <2>1 DEF IInv, PeriodInv
  <2>. QED
    BY <2>1, <2>3, <2>4
    DEF OwnInv, OnePending, OkIsOver, OwnCookies, Pending, Running, IInv, TypeOK
<1>2. CASE ~\E j \in Jobs : Start(j)
  <2>1. Keeps /\ Steady
    BY <1>2, OnlyStartStarts
  <2>. QED
    BY <2>1 DEF Keeps, Steady, OwnInv, OnePending, OkIsOver, OwnCookies, Pending
<1>. QED
  BY <1>1, <1>2

\* A job is told to open its own lead, on its own page.
LEMMA OwnUrlSteps ==
  ASSUME IInv, OwnInv, [Next]_vars
  PROVE  OwnUrl'
<1>. USE DEF service, control, handles, results, composer, pages, events, history
<1>1. ASSUME NEW j \in Jobs, OpenLead(j) PROVE OwnUrl'
  <2>1. on[j] = j /\ view[j] \in Alive
    BY <1>1 DEF OpenLead, Answers, Shows, OwnInv, OwnCookies
  <2>2. Pending(j)
    BY <2>1 DEF IInv, PageInv, Pending
  <2>3. frame = j
    BY <1>1, <2>2, OnlyPage DEF OpenLead, Shows, IInv, TypeOK
  <2>. QED
    BY <1>1, <2>3 DEF OpenLead, OwnInv, OwnUrl, IInv, TypeOK
<1>2. ASSUME NEW p \in Jobs, NEW ended, ClosePage(p, ended) PROVE OwnUrl'
  BY <1>2 DEF ClosePage, OwnInv, OwnUrl, IInv, TypeOK
<1>3. CASE Crash
  BY <1>3 DEF Crash, OwnUrl
<1>4. CASE UNCHANGED url
  BY <1>4 DEF OwnInv, OwnUrl
<1>5. ASSUME NEW j \in Jobs, Step(j) PROVE OwnUrl'
  BY <1>1, <1>2, <1>3, <1>4, <1>5
  DEF Step, Start, Opened, CheckAuth, Landed, Hop, StoreUserIds, ParseFields, ReturnLead,
      ReturnSources, ReadSources, ReturnWithoutChats, ReturnChats, ChooseSource, FindField,
      ClickSubject, ClickField, PressKey, Typed, ClickSend, ReturnNotSent, Reload, Reloaded,
      ReturnSent, Fail, Timeout, Rethrow, Return, End
<1>6. ASSUME NEW p \in Jobs, Browser(p) PROVE OwnUrl'
  BY <1>4, <1>6 DEF Browser, Arrive, Request, Probe, Submit
<1>. QED
  BY <1>3, <1>4, <1>5, <1>6 DEF Next, LoadListenerFails, vars

\* Only StoreUserIds() leads past the assignment of this.amoUsersIds.
LEMMA IdsSteps ==
  ASSUME IInv, TypeOK', [Next]_vars, ~\E j \in Jobs : StoreUserIds(j)
  PROVE  /\ amoUsersIds' \in {amoUsersIds, None}
         /\ \A k \in Jobs : pc'[k] \in PastIds => pc[k] \in PastIds
<1>. DEFINE Claim == /\ amoUsersIds' \in {amoUsersIds, None}
                     /\ \A k \in Jobs : pc'[k] \in PastIds => pc[k] \in PastIds
<1>. USE DEF service, control, handles, results, composer, pages, events, history
<1>1. ASSUME NEW j \in Jobs, NEW next, pc' = [pc EXCEPT ![j] = next],
             next \in PastIds => pc[j] \in PastIds, UNCHANGED amoUsersIds
      PROVE  Claim
  BY <1>1 DEF IInv, TypeOK
<1>2. ASSUME NEW j \in Jobs, Opened(j) \/ CheckAuth(j) \/ Landed(j) \/ Reloaded(j)
                              \/ OpenLead(j) \/ ParseFields(j) \/ ReadSources(j)
                              \/ ChooseSource(j) \/ ClickSubject(j) \/ FindField(j)
                              \/ ClickField(j) \/ Typed(j) \/ ClickSend(j) \/ Reload(j)
      PROVE  Claim
  <2>1. PICK next \in PCs : pc' = [pc EXCEPT ![j] = next] /\ (next \in PastIds => pc[j] \in PastIds)
    BY <1>2 DEF Opened, CheckAuth, Landed, Reloaded, OpenLead, ParseFields, NextPart,
                ReadSources, ChooseSource, ClickSubject, FindField, ClickField, Typed,
                ClickSend, Reload, Focus, Continue, ContinueOn, PCs, Awaits, PastIds
  <2>2. UNCHANGED amoUsersIds
    BY <1>2 DEF Opened, CheckAuth, Landed, Reloaded, OpenLead, ParseFields,
                ReadSources, ChooseSource, ClickSubject, FindField, ClickField, Typed,
                ClickSend, Reload
  <2>. QED
    BY <1>1, <2>1, <2>2
<1>3. ASSUME NEW j \in Jobs, Hop(j) PROVE Claim
  <2>1. PICK h \in Hops(Kind[j]) : pc[j] = h[1] /\ Continue(j, h[2])
    BY <1>3, HopIsListed DEF IInv
  <2>2. h[2] \in PastIds => pc[j] \in PastIds
    BY <2>1, HopsGoOnward, JobsAssumption DEF Onward
  <2>. QED
    BY <1>1, <1>3, <2>1, <2>2 DEF Hop, Continue, ContinueOn
<1>4. ASSUME NEW j \in Jobs, Start(j) \/ Timeout(j) \/ Fail(j) \/ ReturnLead(j)
                              \/ ReturnSources(j) \/ ReturnWithoutChats(j)
                              \/ ReturnChats(j) \/ ReturnNotSent(j) \/ ReturnSent(j)
      PROVE  Claim
  <2>1. UNCHANGED amoUsersIds /\ \E next \in {pc[j], "cookies", "done"} : pc' = [pc EXCEPT ![j] = next]
    BY <1>4 DEF Start, Timeout, Fail, ReturnLead, ReturnSources, ReturnWithoutChats,
                ReturnChats, ReturnNotSent, ReturnSent, Return, End, IInv, TypeOK
  <2>. QED
    BY <2>1 DEF PastIds, IInv, TypeOK
<1>8. ASSUME NEW j \in Jobs, PressKey(j) PROVE Claim
  BY <1>8 DEF PressKey
<1>5. CASE Crash
  BY <1>5 DEF Crash, PastIds
<1>6. ASSUME NEW p \in Jobs, Browser(p) PROVE Claim
  BY <1>6 DEF Browser, Arrive, Request, Probe, Submit, PastIds, IInv, TypeOK
<1>7. CASE UNCHANGED vars
  BY <1>7 DEF vars
<1>. QED
  BY <1>2, <1>3, <1>4, <1>5, <1>6, <1>7, <1>8 DEF Next, Step, Rethrow, LoadListenerFails

\* The lists are parsed from the page of the pending job, whoever does it.
LEMMA OwnIdsSteps ==
  ASSUME IInv, TypeOK', OwnInv, [Next]_vars,
         \A k \in Jobs : verdict'[k] = "pending" => verdict[k] = "pending"
  PROVE  OwnIds'
<1>1. CASE ~\E k \in Jobs : StoreUserIds(k)
  BY <1>1, IdsSteps DEF OwnInv, OwnIds
<1>2. ASSUME NEW k \in Jobs, StoreUserIds(k),
             NEW j \in Jobs, pc'[j] \in PastIds, verdict'[j] = "pending"
      PROVE  amoUsersIds' \in {LeadOf[j], None}
  <2>1. on[k] \in Jobs /\ view[on[k]] \in Alive /\ amoUsersIds' \in Content(on[k]) \cup {None}
    BY <1>2 DEF StoreUserIds, Answers, Shows, Alive, IInv, TypeOK
  <2>2. Running(k)
    BY <1>2 DEF StoreUserIds, Running, Awaits
  <2>3. \A m \in Jobs : m # k => pc'[m] = pc[m]
    BY <1>2 DEF StoreUserIds, Continue, ContinueOn, IInv, TypeOK
  <2>4. Pending(j)
    BY <1>2, <2>2, <2>3 DEF Pending, Running, PastIds, Awaits
  <2>. QED
    BY <2>1, <2>4, OnlyPage, OwnContent
<1>. QED
  BY <1>1, <1>2 DEF OwnIds

\* A pending job only reads its own page and lists of its own lead.
LEMMA OwnReadSteps ==
  ASSUME IInv, TypeOK', OwnInv, [Next]_vars,
         \A k \in Jobs : verdict[k] = "failed" => verdict'[k] = "failed"
  PROVE  OwnRead'
<1>. USE DEF service, control, handles, results, composer, pages, events, history
<1>1. ASSUME NEW j \in Jobs, NEW data, read' = [read EXCEPT ![j] = @ \cup data],
             Pending(j) => data \subseteq {LeadOf[j]}, Running(j)
      PROVE  OwnRead'
  <2>1. verdict[j] = "failed" \/ Pending(j)
    BY <1>1 DEF OwnInv, OkIsOver, Pending, IInv, TypeOK
  <2>. QED
    BY <1>1, <2>1 DEF OwnInv, OwnRead, IInv, TypeOK
<1>2. ASSUME NEW j \in Jobs, on[j] \in Jobs, view[on[j]] \in Alive, Pending(j)
      PROVE  /\ Content(on[j]) \subseteq {LeadOf[j]}
             /\ pc[j] \in PastIds => IdsContent \subseteq {LeadOf[j]}
  <2>1. Content(on[j]) \subseteq {LeadOf[j]}
    BY <1>2, OnlyPage, OwnContent
  <2>2. pc[j] \in PastIds => IdsContent \subseteq {LeadOf[j]}
    BY <1>2 DEF OwnInv, OwnIds, Pending, IdsContent
  <2>. QED
    BY <2>1, <2>2
<1>3. ASSUME NEW j \in Jobs, ParseFields(j) \/ ReadSources(j) PROVE OwnRead'
  <2>1. /\ Running(j) /\ on[j] \in Jobs /\ view[on[j]] \in Alive
        /\ read' = [read EXCEPT ![j] = @ \cup Content(on[j])]
    BY <1>3 DEF ParseFields, NextPart, ReadSources, Answers, Shows, Alive, Settled, Running,
                Awaits, IInv, TypeOK
  <2>. QED
    BY <1>1, <1>2, <2>1
<1>4. ASSUME NEW j \in Jobs, \/ ReturnLead(j) \/ ReturnSources(j) \/ ReturnWithoutChats(j)
                             \/ ReturnChats(j) \/ ReturnNotSent(j) \/ ReturnSent(j)
      PROVE  OwnRead'
  <2>1. PICK data \in SUBSET (Content(on[j]) \cup IdsContent) :
               read' = [read EXCEPT ![j] = @ \cup data]
    BY <1>4 DEF ReturnLead, ReturnSources, ReturnWithoutChats, ReturnChats, ReturnNotSent,
                ReturnSent, Return
  <2>2. Running(j) /\ pc[j] \in PastIds /\ on[j] \in Jobs /\ view[on[j]] \in Alive
    BY <1>4 DEF ReturnLead, ReturnSources, ReturnWithoutChats, ReturnChats, ReturnNotSent,
                ReturnSent, Answers, Shows, Alive, Settled, Running, Awaits, PastIds,
                IInv, TypeOK
  <2>. QED
    BY <1>1, <1>2, <2>1, <2>2
<1>5. ASSUME NEW j \in Jobs, Fail(j) PROVE OwnRead'
  BY <1>5 DEF Fail, OwnInv, OwnRead, IInv, TypeOK
<1>6. CASE UNCHANGED read
  BY <1>6 DEF OwnInv, OwnRead, IInv, TypeOK
<1>7. ASSUME NEW j \in Jobs, Step(j) PROVE OwnRead'
  BY <1>3, <1>4, <1>5, <1>6, <1>7
  DEF Step, Start, OpenLead, Opened, CheckAuth, Landed, Hop, StoreUserIds, ChooseSource,
      FindField, ClickSubject, ClickField, PressKey, Typed, ClickSend, Reload, Reloaded,
      Timeout, Rethrow, Crash
<1>8. ASSUME NEW p \in Jobs, Browser(p) PROVE OwnRead'
  BY <1>6, <1>8 DEF Browser, Arrive, Request, Probe, Submit
<1>. QED
  BY <1>6, <1>7, <1>8 DEF Next, LoadListenerFails, Crash, vars

\* A key on the page of somebody else is one of a job that was told it failed.
LEMMA OwnDraftSteps ==
  ASSUME IInv, TypeOK', OwnInv, [Next]_vars,
         \A k \in Jobs : verdict[k] = "failed" => verdict'[k] = "failed"
  PROVE  OwnDraft'
<1>. USE DEF service, control, handles, results, composer, pages, events, history
<1>9. \A p \in Jobs : \A c \in draft[p] : c[1] \in Jobs
  BY DEF IInv, TypeOK, Keys
<1>1. ASSUME \A p \in Jobs : draft'[p] \subseteq draft[p] PROVE OwnDraft'
  BY <1>9, <1>1 DEF OwnInv, OwnDraft
<1>2. ASSUME NEW j \in Jobs, PressKey(j) PROVE OwnDraft'
  <2>1. on[j] \in Jobs /\ view[on[j]] \in Alive /\ Running(j)
    BY <1>2 DEF PressKey, Answers, Shows, Running, Awaits, IInv, TypeOK
  <2>2. verdict[j] = "failed" \/ Pending(j)
    BY <2>1 DEF OwnInv, OkIsOver, Pending, IInv, TypeOK
  <2>3. verdict'[j] = "failed" \/ on[j] = j
    BY <2>1, <2>2, OnlyPage
  <2>. SUFFICES ASSUME NEW p \in Jobs, NEW c \in draft'[p]
                PROVE  c[1] = p \/ verdict'[c[1]] = "failed"
    BY DEF OwnDraft
  <2>4. c \in draft[p] \/ (p = on[j] /\ c = <<j, keys'[j]>>)
    <3>1. \A kept \in Kept(j, on[j]) : kept \subseteq draft[on[j]]
      BY DEF Kept
    <3>2. \/ draft' = draft
          \/ \E kept \in Kept(j, on[j]) :
               draft' = [draft EXCEPT ![on[j]] = kept \cup {<<j, keys'[j]>>}]
      BY <1>2 DEF PressKey
    <3>3. draft \in [Jobs -> SUBSET Keys]
      BY DEF IInv, TypeOK
    <3>. QED
      BY <2>1, <3>1, <3>2, <3>3
  <2>. QED
    BY <1>9, <2>3, <2>4 DEF OwnInv, OwnDraft
<1>3. ASSUME NEW p \in Jobs, NEW ended, ClosePage(p, ended) PROVE OwnDraft'
  BY <1>1, <1>3 DEF ClosePage, IInv, TypeOK
<1>4. CASE Crash
  BY <1>1, <1>4 DEF Crash
<1>5. CASE UNCHANGED draft
  BY <1>1, <1>5
<1>6. ASSUME NEW j \in Jobs, ClickSend(j) PROVE OwnDraft'
  BY <1>1, <1>6 DEF ClickSend, IInv, TypeOK
<1>7. ASSUME NEW j \in Jobs, Step(j) PROVE OwnDraft'
  BY <1>2, <1>3, <1>4, <1>5, <1>6, <1>7
  DEF Step, Start, OpenLead, Opened, CheckAuth, Landed, Hop, StoreUserIds, ParseFields,
      ReturnLead, ReturnSources, ReadSources, ReturnWithoutChats, ReturnChats, ChooseSource,
      ClickSubject, FindField, ClickField, Typed, ReturnNotSent, Reload, Reloaded,
      ReturnSent, Fail, Timeout, Rethrow, Return, End
<1>8. ASSUME NEW p \in Jobs, Browser(p) PROVE OwnDraft'
  BY <1>1, <1>5, <1>8 DEF Browser, Arrive, Request, Probe, Submit, IInv, TypeOK
<1>. QED
  BY <1>4, <1>5, <1>7, <1>8 DEF Next, LoadListenerFails, vars

\* What is sent is the text of a page, to the lead of that page.
LEMMA OwnMessagesSteps ==
  ASSUME IInv, TypeOK', OwnInv, [Next]_vars,
         \A k \in Jobs : verdict[k] = "failed" => verdict'[k] = "failed"
  PROVE  OwnMessages'
<1>. USE DEF service, control, handles, results, composer, pages, events, history
<1>1. CASE UNCHANGED outbox
  BY <1>1, OutboxKeys DEF OwnInv, OwnMessages, IInv
<1>2. ASSUME NEW j \in Jobs, ClickSend(j), outbox' # outbox PROVE OwnMessages'
  <2>. DEFINE p == button[j]
  <2>. SUFFICES ASSUME NEW e, e = [text |-> draft[p], lead |-> url[p], via |-> chosen[p]]
                PROVE  OwnMessages'
    OBVIOUS
  <2>1. p \in Jobs /\ view[p] = "lead" /\ outbox' = Append(outbox, e)
    BY <1>2, ClickSendFacts
  <2>2. url[p] = LeadOf[p]
    BY <2>1 DEF IInv, LoadedInv, OwnInv, OwnUrl
  <2>3. \A c \in draft[p] : c[1] \in Jobs /\ (c[1] = p \/ verdict[c[1]] = "failed")
    <3>1. draft[p] \subseteq Keys
      BY <2>1 DEF IInv, TypeOK
    <3>2. \A c \in draft[p] : c[1] \in Jobs
      BY <3>1 DEF Keys
    <3>. QED
      BY <2>1, <3>2 DEF OwnInv, OwnDraft
  <2>4. e.text = draft[p] /\ e.lead = url[p]
    OBVIOUS
  <2>5. \A c \in e.text : e.lead = LeadOf[c[1]] \/ verdict'[c[1]] = "failed"
    BY <2>2, <2>3, <2>4
  <2>6. \A i \in 1..Len(outbox') : (i \in 1..Len(outbox) /\ outbox'[i] = outbox[i]) \/ outbox'[i] = e
    BY <2>1, OneMore DEF IInv
  <2>. QED
    BY <2>5, <2>6, OutboxKeys DEF OwnInv, OwnMessages, IInv
<1>3. ASSUME NEW j \in Jobs, Step(j) PROVE OwnMessages'
  BY <1>1, <1>2, <1>3
  DEF Step, Start, OpenLead, Opened, CheckAuth, Landed, Hop, StoreUserIds, ParseFields,
      ReturnLead, ReturnSources, ReadSources, ReturnWithoutChats, ReturnChats, ChooseSource,
      FindField, ClickSubject, ClickField, PressKey, Typed, ReturnNotSent, Reload, Reloaded,
      ReturnSent, Fail, Timeout, Rethrow, Return, Crash
<1>4. ASSUME NEW p \in Jobs, Browser(p) PROVE OwnMessages'
  BY <1>1, <1>4 DEF Browser, Arrive, Request, Probe, Submit
<1>. QED
  BY <1>1, <1>3, <1>4 DEF Next, LoadListenerFails, Crash, vars

\* Clients that wait for the report of a job before they ask for the next one
\* get what README.md promises of results, although timed-out task functions
\* go on on the pages of later jobs: a job that is reported as completed holds
\* data of the lead of its request only, and a key that reaches another lead is
\* one of a request that was reported as failed.
THEOREM AfterReportsOwn ==
  Spec /\ AfterReports =>
    []( /\ \A j \in Jobs : verdict[j] = "ok" => read[j] \subseteq {LeadOf[j]}
        /\ OwnMessages )
<1>. DEFINE Quiet == \A j \in Jobs : Starts(j) => \A k \in Jobs : ~Pending(k)
            Goal  == /\ \A j \in Jobs : verdict[j] = "ok" => read[j] \subseteq {LeadOf[j]}
                     /\ OwnMessages
<1>1. IInv /\ IInv' /\ OwnInv /\ [Next]_vars /\ [Quiet]_vars => OwnInv'
  <2>. SUFFICES ASSUME IInv, IInv', OwnInv, [Next]_vars, [Quiet]_vars
                PROVE  OwnInv'
    OBVIOUS
  <2>1. UNCHANGED vars => Quiet
    BY DEF vars, control, Starts
  <2>2. TypeOK' /\ Quiet
    BY <2>1 DEF IInv
  <2>3. OnePending' /\ OkIsOver' /\ OwnCookies'
    BY <2>2, PendingSteps
  <2>4. \A k \in Jobs : /\ verdict[k] = "failed" => verdict'[k] = "failed"
                        /\ verdict'[k] = "pending" => verdict[k] = "pending"
    BY <2>2, PendingSteps
  <2>. QED
    BY <2>2, <2>3, <2>4, OwnUrlSteps, OwnIdsSteps, OwnReadSteps, OwnDraftSteps,
       OwnMessagesSteps
    DEF OwnInv
<1>2. OwnInv => Goal
  BY DEF OwnInv, OwnRead
<1>3. AfterReports <=> [][Quiet]_vars
  BY DEF AfterReports
<1>. HIDE DEF Quiet, Goal
<1>4. Spec /\ AfterReports => []Goal
  BY <1>1, <1>2, <1>3, InitOwn, Invariance, PTL DEF Spec
<1>. QED
  BY <1>4 DEF Goal

\* No task function outlives its time limit.
InTime == \A j \in Jobs : Running(j) => verdict[j] = "pending"

\* With both claims of README.md at stake, waiting for the reports is enough as
\* long as no job times out: then the report of a job comes when it is over.
THEOREM AfterReportsInTime ==
  Spec /\ AfterReports /\ []InTime =>
    [](ResultIsOfItsLead /\ MessageReachesItsLead /\ EntriesAreMeant /\ AnswersAreMeant)
<1>. DEFINE Quiet == \A j \in Jobs : Starts(j) => \A k \in Jobs : ~Pending(k)
            Apart == \A j \in Jobs : Starts(j) => \A k \in Jobs : ~Running(k)
<1>1. InTime /\ [Quiet]_vars => [Apart]_vars
  BY DEF InTime, Pending
<1>2. (AfterReports <=> [][Quiet]_vars) /\ (OneAtATime <=> [][Apart]_vars)
  BY DEF AfterReports, OneAtATime
<1>. HIDE DEF Quiet, Apart
<1>3. AfterReports /\ []InTime => OneAtATime
  BY <1>1, <1>2, PTL
<1>. QED
  BY <1>3, OneAtATimeIsSafe
=============================================================================
