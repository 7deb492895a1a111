------------------------- MODULE TaskReportingProofs -------------------------
(* Proofs about TaskReporting, for any processes, tasks and job kinds, with  *)
(* and without an endpoint.                                                  *)
EXTENDS TaskReporting, SequenceTheorems, TLAPS

-----------------------------------------------------------------------------
(* What posting does to the reports of a task.                              *)

Reports == Seq({"result", "error"})

\* The first report of a task is its only one.
LEMMA FirstReport ==
  ASSUME NEW body \in {"result", "error"}
  PROVE  Append(<<>>, body) = <<body>>
<1>1. Append(<<>>, body) \in Seq({body})
  OBVIOUS
<1>2. Len(Append(<<>>, body)) = 1 /\ Append(<<>>, body)[1] = body
  OBVIOUS
<1>. QED
  BY <1>1, <1>2, SMT

\* An error report after the result comes second.
LEMMA SecondReport == Append(<<"result">>, "error") = <<"result", "error">>
<1>1. <<"result">> \in Reports /\ <<"result", "error">> \in Reports
  BY DEF Reports
<1>2. Append(<<"result">>, "error") \in Reports
  BY <1>1, AppendProperties DEF Reports
<1>3. Len(Append(<<"result">>, "error")) = 2 /\ Len(<<"result", "error">>) = 2
  OBVIOUS
<1>4. /\ Append(<<"result">>, "error")[1] = <<"result", "error">>[1]
      /\ Append(<<"result">>, "error")[2] = <<"result", "error">>[2]
  OBVIOUS
<1>5. \A i \in 1..2 : Append(<<"result">>, "error")[i] = <<"result", "error">>[i]
  BY <1>4
<1>. QED
  BY <1>1, <1>2, <1>3, <1>5, SeqEqual DEF Reports

\* The histories a task can have are told apart by their bodies.
LEMMA ReportsDiffer ==
  /\ <<>> # <<"result">>
  /\ <<>> # <<"error">>
  /\ <<>> # <<"result", "error">>
  /\ <<"result">> # <<"error">>
  /\ <<"result">> # <<"result", "error">>
  /\ <<"error">> # <<"result", "error">>
<1>1. <<>> # <<"result">> /\ <<>> # <<"error">> /\ <<>> # <<"result", "error">>
  BY SMT
<1>2. <<"result">> # <<"error">> /\ <<"result">> # <<"result", "error">>
  BY SMT
<1>3. <<"error">> # <<"result", "error">>
  BY SMT
<1>. QED
  BY <1>1, <1>2, <1>3

\* An arrival adds one report to those of task t: the others keep theirs.
LEMMA ArrivePosts ==
  ASSUME TypeOK, PhaseInv, NEW t \in Tasks, Arrive(t)
  PROVE  /\ posts' \in [Tasks -> Reports]
         /\ \A u \in Tasks \ {t} : posts'[u] = posts[u]
         /\ \/ phase[t] = "posting" /\ posts'[t] = <<"result">>
            \/ phase[t] = "excusing" /\ posts[t] = <<>> /\ posts'[t] = <<"error">>
            \/ /\ phase[t] = "excusing"
               /\ posts[t] = <<"result">>
               /\ posts'[t] = <<"result", "error">>
<1>1. /\ posts \in [Tasks -> Reports]
      /\ \A body \in {"result", "error"} : Append(posts[t], body) \in Reports
  BY AppendProperties DEF TypeOK, Reports
<1>2. CASE phase[t] = "posting"
  <2>1. posts' = [posts EXCEPT ![t] = Append(posts[t], "result")] /\ posts[t] = <<>>
    BY <1>2 DEF Arrive, Active, PhaseInv
  <2>. QED
    BY <1>1, <1>2, <2>1, FirstReport
<1>3. CASE phase[t] = "excusing"
  <2>1. posts' = [posts EXCEPT ![t] = Append(posts[t], "error")]
    BY <1>3 DEF Arrive, Active
  <2>2. posts[t] \in {<<>>, <<"result">>}
    BY <1>3 DEF PhaseInv
  <2>. QED
    BY <1>1, <1>3, <2>1, <2>2, FirstReport, SecondReport
<1>. QED
  BY <1>2, <1>3 DEF Arrive, Active

-----------------------------------------------------------------------------
(* The invariant.                                                           *)

\* The invariant of one task.
TaskInv(t) ==
  /\ phase[t] \in {"waiting", "launching", "executing", "closing", "posting"} =>
       posts[t] = <<>>
  /\ phase[t] = "posted" => posts[t] = <<"result">>
  /\ phase[t] = "excusing" => posts[t] \in {<<>>, <<"result">>}
  /\ phase[t] = "excused" => posts[t] \in {<<"error">>, <<"result", "error">>}
  /\ phase[t] \in {"waiting", "launching", "posting", "posted"} => browser[t] # "open"
  /\ phase[t] \in {"excusing", "excused"} /\ browser[t] = "open" =>
       posts[t] \in {<<>>, <<"error">>}
  /\ posts[t] \in {<<>>, <<"result">>, <<"error">>, <<"result", "error">>}
  /\ phase[t] = "resolved" /\ Configured => posts[t] # <<>>
  /\ phase[t] \in Over /\ browser[t] = "open" =>
       \/ phase[t] = "killed"
       \/ /\ Kind[t] = "getLead"
          /\ phase[t] = "resolved"
          /\ posts[t] \in {<<>>, <<"error">>}

LEMMA IInvByTask == IInv <=> TypeOK /\ (\A t \in Tasks : TaskInv(t))
  BY DEF IInv, TaskInv, PhaseInv, ReportsInOrder, ResolvedIsReported,
         LeaksAreSwallowedErrors

LEMMA IInvByTaskNext == TypeOK' /\ (\A t \in Tasks : TaskInv(t)') => IInv'
  BY DEF IInv, TaskInv, PhaseInv, ReportsInOrder, ResolvedIsReported,
         LeaksAreSwallowedErrors

\* It holds before any request was accepted.
LEMMA InitInv == Init => IInv
<1>. SUFFICES ASSUME Init PROVE IInv
  OBVIOUS
<1>1. TypeOK
  <2>1. posts \in [Tasks -> Reports]
    BY DEF Init, Reports
  <2>. QED
    BY <2>1 DEF Init, TypeOK, Phases, Reports
<1>2. ASSUME NEW t \in Tasks PROVE TaskInv(t)
  BY DEF Init, TaskInv, Over
<1>. QED
  BY <1>1, <1>2, IInvByTask

\* A step of one task keeps the invariant if it keeps that of the task.
LEMMA StepInv ==
  ASSUME IInv, NEW t \in Tasks, TypeOK', TaskInv(t)',
         \A u \in Tasks \ {t} : /\ phase'[u] = phase[u]
                                /\ browser'[u] = browser[u]
                                /\ posts'[u] = posts[u]
  PROVE  IInv'
<1>1. ASSUME NEW u \in Tasks PROVE TaskInv(u)'
  BY IInvByTask DEF TaskInv
<1>. QED
  BY <1>1, IInvByTaskNext

\* The end of a process keeps it, whoever rejects: the reports stay as they
\* are, and of its browsers none is left open.
LEMMA DieInv ==
  ASSUME IInv, NEW w \in Workers, NEW rejecting \in SUBSET Tasks,
         \A t \in rejecting : home[t] = w,
         Die(w, rejecting), UNCHANGED posts
  PROVE  IInv'
<1>1. /\ \A t \in Tasks : phase'[t] \in {phase[t], "rejected", "lost"}
      /\ \A t \in Tasks : home[t] # w => phase'[t] = phase[t]
      /\ \A t \in Tasks :
           browser'[t] = IF home[t] = w /\ browser[t] = "open" THEN "closed" ELSE browser[t]
  BY DEF Die
<1>2. TypeOK'
  BY <1>1 DEF IInv, TypeOK, Die, Phases, Over
<1>3. ASSUME NEW t \in Tasks PROVE TaskInv(t)'
  <2>1. TaskInv(t)
    BY IInvByTask
  <2>2. CASE home[t] = w
    <3>1. browser'[t] # "open" /\ posts'[t] = posts[t]
      BY <1>1, <2>2
    <3>. QED
      BY <1>1, <2>1, <3>1 DEF TaskInv, Over
  <2>3. CASE home[t] # w
    <3>1. phase'[t] = phase[t] /\ browser'[t] = browser[t] /\ posts'[t] = posts[t]
      BY <1>1, <2>3
    <3>. QED
      BY <2>1, <3>1 DEF TaskInv
  <2>. QED
    BY <2>2, <2>3
<1>. QED
  BY <1>2, <1>3, IInvByTaskNext

\* So does a kill from outside, which leaves the browsers of its jobs.
LEMMA KillInv ==
  ASSUME IInv, NEW w \in Workers, Kill(w)
  PROVE  IInv'
<1>1. /\ \A t \in Tasks : \/ phase'[t] = phase[t]
                          \/ phase'[t] = "killed" /\ phase[t] \in Busy
      /\ browser' = browser /\ posts' = posts
  BY DEF Kill
<1>2. TypeOK'
  BY <1>1 DEF IInv, TypeOK, Kill, Phases, Over
<1>3. ASSUME NEW t \in Tasks PROVE TaskInv(t)'
  BY <1>1, IInvByTask DEF TaskInv, Over
<1>. QED
  BY <1>2, <1>3, IInvByTaskNext

\* Every step keeps the invariant.
LEMMA NextInv == IInv /\ [Next]_vars => IInv'
<1>. SUFFICES ASSUME IInv, [Next]_vars PROVE IInv'
  OBVIOUS
<1>0. TypeOK /\ PhaseInv /\ (\A t \in Tasks : TaskInv(t))
  BY IInvByTask DEF IInv
<1>1. ASSUME NEW t \in Tasks, Accept(t) \/ Launch(t) \/ Execute(t) \/ Close(t)
      PROVE  IInv'
  <2>1. TypeOK'
    BY <1>0, <1>1 DEF TypeOK, Accept, Launch, Execute, Close, Go, Phases, Busy
  <2>2. TaskInv(t) /\ posts' = posts
    BY <1>0, <1>1 DEF Accept, Launch, Execute, Close
  <2>3. ASSUME Accept(t) PROVE TaskInv(t)'
    BY <1>0, <2>2, <2>3 DEF TypeOK, TaskInv, Accept, Go, Active, Over
  <2>4. ASSUME Launch(t) PROVE TaskInv(t)'
    BY <1>0, <2>2, <2>4, ReportsDiffer DEF TypeOK, TaskInv, Launch, Go, Active, Over
  <2>5. ASSUME Execute(t) PROVE TaskInv(t)'
    BY <1>0, <2>2, <2>5, ReportsDiffer DEF TypeOK, TaskInv, Execute, Go, Active, Over
  <2>6. ASSUME Close(t) PROVE TaskInv(t)'
    BY <1>0, <2>2, <2>6, ReportsDiffer DEF TypeOK, TaskInv, Close, Go, Active, Over
  <2>7. TaskInv(t)'
    BY <1>1, <2>3, <2>4, <2>5, <2>6
  <2>. QED
    BY <1>0, <1>1, <2>1, <2>2, <2>7, StepInv
    DEF TypeOK, Accept, Launch, Execute, Close, Go, Active
<1>2. ASSUME NEW t \in Tasks, Arrive(t) PROVE IInv'
  <2>1. /\ posts' \in [Tasks -> Reports]
        /\ \A u \in Tasks \ {t} : posts'[u] = posts[u]
        /\ \/ phase[t] = "posting" /\ posts'[t] = <<"result">>
           \/ phase[t] = "excusing" /\ posts[t] = <<>> /\ posts'[t] = <<"error">>
           \/ /\ phase[t] = "excusing"
              /\ posts[t] = <<"result">>
              /\ posts'[t] = <<"result", "error">>
    BY <1>0, <1>2, ArrivePosts
  <2>2. /\ \/ phase[t] = "posting" /\ phase' = [phase EXCEPT ![t] = "posted"]
           \/ phase[t] = "excusing" /\ phase' = [phase EXCEPT ![t] = "excused"]
        /\ UNCHANGED <<up, home, browser>>
    BY <1>2 DEF Arrive, Active, Go
  <2>3. TypeOK'
    BY <1>0, <2>1, <2>2 DEF TypeOK, Reports, Phases, Busy
  <2>4. TaskInv(t)'
    BY <1>0, <2>1, <2>2, ReportsDiffer DEF TypeOK, TaskInv, Over
  <2>. QED
    BY <1>0, <2>1, <2>2, <2>3, <2>4, StepInv DEF TypeOK
<1>3. ASSUME NEW t \in Tasks, PostResult(t) \/ Excuse(t) PROVE IInv'
  <2>1. UNCHANGED <<up, home, browser, posts>>
    BY <1>3 DEF PostResult, Excuse
  <2>2. TypeOK'
    BY <1>0, <1>3, <2>1 DEF TypeOK, PostResult, Excuse, Go, Phases, Busy, Over
  <2>3. ASSUME PostResult(t) PROVE TaskInv(t)'
    BY <1>0, <2>1, <2>3, ReportsDiffer
    DEF TypeOK, TaskInv, PostResult, Reported, Unanswered, Active, Go, Over
  <2>4. ASSUME Excuse(t) PROVE TaskInv(t)'
    BY <1>0, <2>1, <2>4, ReportsDiffer
    DEF TypeOK, TaskInv, Excuse, Reported, Active, Go, Over
  <2>. QED
    BY <1>0, <1>3, <2>1, <2>2, <2>3, <2>4, StepInv DEF TypeOK, PostResult, Excuse, Go
<1>4. ASSUME NEW t \in Tasks, Reject(t) \/ ListenerFails(t) PROVE IInv'
  <2>1. home[t] \in Workers /\ UNCHANGED posts
    BY <1>0, <1>4 DEF TypeOK, Reject, ListenerFails
  <2>2. Die(home[t], {t}) \/ Die(home[t], {})
    BY <1>4 DEF Reject, ListenerFails
  <2>. QED
    BY <2>1, <2>2, DieInv
<1>5. ASSUME NEW w \in Workers, Kill(w) \/ Fork(w) PROVE IInv'
  <2>1. ASSUME Fork(w) PROVE IInv'
    <3>1. TypeOK' /\ UNCHANGED <<phase, home, browser, posts>>
      BY <1>0, <2>1 DEF TypeOK, Fork
    <3>. QED
      BY <3>1 DEF IInv, PhaseInv, ReportsInOrder, ResolvedIsReported,
                  LeaksAreSwallowedErrors
  <2>. QED
    BY <1>5, <2>1, KillInv
<1>6. CASE UNCHANGED vars
  BY <1>6 DEF vars, IInv, TypeOK, PhaseInv, ReportsInOrder, ResolvedIsReported,
              LeaksAreSwallowedErrors
<1>. QED
  BY <1>1, <1>2, <1>3, <1>4, <1>5, <1>6 DEF Next

-----------------------------------------------------------------------------
(* The theorems.                                                            *)

\* The invariant holds for any processes, tasks and kinds of jobs.
THEOREM Invariance == Spec => []IInv
  BY InitInv, NextInv, PTL DEF Spec

\* The types hold for any processes, tasks and kinds of jobs.
THEOREM TypeCorrect == Spec => []TypeOK
<1>1. IInv => TypeOK
  BY DEF IInv
<1>. QED
  BY <1>1, Invariance, PTL

\* A task is reported at most once as a success, then at most once as a
\* failure: sendResult() never posts a task a third time.
THEOREM Reporting == Spec => []ReportsInOrder
<1>1. IInv => ReportsInOrder
  BY DEF IInv
<1>. QED
  BY <1>1, Invariance, PTL

\* A job that ran to its end was reported if there is a sendEndpoint.
THEOREM ResolvedAreReported == Spec => []ResolvedIsReported
<1>1. IInv => ResolvedIsReported
  BY DEF IInv
<1>. QED
  BY <1>1, Invariance, PTL

\* The only browsers that outlive their job are those of a killed process, and
\* of getLead jobs that failed and whose error getLead() swallowed.
THEOREM Cleanup == Spec => []LeaksAreSwallowedErrors
<1>1. IInv => LeaksAreSwallowedErrors
  BY DEF IInv
<1>. QED
  BY <1>1, Invariance, PTL

\* Whatever happens to its process later, the outcome and the reports of a job
\* that is over are final.
THEOREM Finality == Spec => OverIsFinal
<1>1. TypeOK /\ [Next]_vars =>
        [\A t \in Tasks : phase[t] \in Over => phase'[t] = phase[t] /\ posts'[t] = posts[t]]_vars
  <2>. SUFFICES ASSUME TypeOK, Next, NEW u \in Tasks, phase[u] \in Over
                PROVE  phase'[u] = phase[u] /\ posts'[u] = posts[u]
    OBVIOUS
  <2>. USE DEF Over, Active, Go, Busy
  <2>1. ASSUME NEW t \in Tasks, Accept(t) \/ Launch(t) \/ Execute(t) \/ Close(t)
        PROVE  phase'[u] = phase[u] /\ posts'[u] = posts[u]
    BY <2>1 DEF TypeOK, Accept, Launch, Execute, Close
  <2>2. ASSUME NEW t \in Tasks, Arrive(t)
        PROVE  phase'[u] = phase[u] /\ posts'[u] = posts[u]
    BY <2>2 DEF TypeOK, Arrive
  <2>3. ASSUME NEW t \in Tasks, PostResult(t) \/ Excuse(t)
        PROVE  phase'[u] = phase[u] /\ posts'[u] = posts[u]
    BY <2>3 DEF TypeOK, PostResult, Excuse, Reported, Unanswered
  <2>4. ASSUME NEW t \in Tasks, Reject(t)
        PROVE  phase'[u] = phase[u] /\ posts'[u] = posts[u]
    <3>1. Die(home[t], {t}) /\ phase[t] \in {"excusing", "excused"} /\ posts' = posts
      BY <2>4 DEF Reject, Reported, Unanswered
    <3>. QED
      BY <3>1 DEF Die
  <2>5. ASSUME NEW t \in Tasks, ListenerFails(t)
        PROVE  phase'[u] = phase[u] /\ posts'[u] = posts[u]
    BY <2>5 DEF ListenerFails, Die
  <2>6. ASSUME NEW w \in Workers, Kill(w) \/ Fork(w)
        PROVE  phase'[u] = phase[u] /\ posts'[u] = posts[u]
    BY <2>6 DEF Kill, Fork
  <2>. QED
    BY <2>1, <2>2, <2>3, <2>4, <2>5, <2>6 DEF Next
<1>2. IInv => TypeOK
  BY DEF IInv
<1>. QED
  BY <1>1, <1>2, Invariance, PTL DEF Spec, OverIsFinal

-----------------------------------------------------------------------------
(* One attempt per request. *)

\* How far a job has come; whatever ends it comes last.
Rank(p) == CASE p = "waiting"   -> 0
             [] p = "launching" -> 1
             [] p = "executing" -> 2
             [] p = "closing"   -> 3
             [] p = "posting"   -> 4
             [] p = "posted"    -> 5
             [] p = "excusing"  -> 6
             [] p = "excused"   -> 7
             [] OTHER           -> 8

\* A job never goes back, whichever process it runs in and whatever is forked
\* after it: a request is launched once and executed once, puppeteer-cluster's
\* retries and the restart of a process included.
THEOREM JobsAreNotRetried ==
  Spec => [][ \A t \in Tasks : phase'[t] # phase[t] => Rank(phase[t]) < Rank(phase'[t]) ]_vars
<1>. DEFINE Forward == \A t \in Tasks : phase'[t] # phase[t] => Rank(phase[t]) < Rank(phase'[t])
<1>1. ASSUME TypeOK, NEW t \in Tasks, NEW p \in Phases, Go(t, p),
             Rank(phase[t]) < Rank(p)
      PROVE  Forward
  <2>. SUFFICES ASSUME NEW u \in Tasks, phase'[u] # phase[u]
                PROVE  Rank(phase[u]) < Rank(phase'[u])
    OBVIOUS
  <2>1. u = t /\ phase'[u] = p
    BY <1>1 DEF TypeOK, Go
  <2>2. Rank(phase'[u]) = Rank(p)
    BY <2>1
  <2>3. Rank(phase[u]) = Rank(phase[t])
    BY <2>1
  <2>. QED
    BY <1>1, <2>2, <2>3
<1>2. ASSUME TypeOK, NEW t \in Tasks,
             \/ Accept(t) \/ Launch(t) \/ Execute(t) \/ Close(t) \/ Arrive(t)
             \/ PostResult(t) \/ Excuse(t)
      PROVE  Forward
  <2>1. ASSUME Accept(t) \/ Launch(t) \/ Execute(t) \/ Close(t)
        PROVE  \E p \in Phases : Go(t, p) /\ Rank(phase[t]) < Rank(p)
    BY <2>1 DEF Accept, Launch, Execute, Close, Active, Rank, Phases, Busy
  <2>2. ASSUME Arrive(t)
        PROVE  \E p \in Phases : Go(t, p) /\ Rank(phase[t]) < Rank(p)
    BY <2>2 DEF Arrive, Active, Rank, Phases, Busy
  <2>3. ASSUME PostResult(t) \/ Excuse(t)
        PROVE  \E p \in Phases : Go(t, p) /\ Rank(phase[t]) < Rank(p)
    BY <2>3 DEF PostResult, Excuse, Reported, Unanswered, Active, Rank, Phases, Busy, Over
  <2>4. PICK p \in Phases : Go(t, p) /\ Rank(phase[t]) < Rank(p)
    BY <1>2, <2>1, <2>2, <2>3
  <2>. HIDE DEF Forward
  <2>. QED
    BY <1>1, <1>2, <2>4
<1>3. ASSUME TypeOK, NEW t \in Tasks, NEW w \in Workers,
             Reject(t) \/ ListenerFails(t) \/ Kill(w)
      PROVE  Forward
  <2>1. \A u \in Tasks : \/ phase'[u] = phase[u]
                         \/ phase[u] \in Busy /\ phase'[u] \in {"rejected", "lost", "killed"}
    BY <1>3 DEF Reject, ListenerFails, Kill, Reported, Unanswered, Active, Die, Busy
  <2>2. ASSUME NEW p \in Busy, NEW q \in {"rejected", "lost", "killed"}
        PROVE  Rank(p) < Rank(q)
    BY DEF Busy, Rank
  <2>. HIDE DEF Rank
  <2>. QED
    BY <2>1, <2>2
<1>4. ASSUME NEW w \in Workers, Fork(w) PROVE Forward
  BY <1>4 DEF Fork
<1>5. TypeOK /\ [Next]_vars => [Forward]_vars
  BY <1>2, <1>3, <1>4 DEF Next, TypeOK
<1>. HIDE DEF Forward
<1>6. Spec => [][Forward]_vars
  BY <1>5, TypeCorrect, PTL DEF Spec
<1>. QED
  BY <1>6 DEF Forward
=============================================================================
