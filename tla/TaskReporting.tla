---------------------------- MODULE TaskReporting ----------------------------
(***************************************************************************)
(* The life of an accepted request across the forked server processes:     *)
(* the queue starts its job at once, the job launches a browser cluster,   *)
(* executes one task in it, closes it and posts the outcome to             *)
(* SEND_ENDPOINT.  A job that rejects is handled by nobody and takes its   *)
(* process down, with every other job in it; the master forks a new one.   *)
(* A process may also be killed from outside, and then leaves its browsers.*)
(* What the task itself does is the subject of PuppeteerService.           *)
(***************************************************************************)
EXTENDS Naturals, Sequences

CONSTANTS
  Workers,     \* the processes the master keeps alive
  Tasks,       \* the accepted requests
  Kind,        \* [Tasks -> the public method of the job]
  Configured   \* SEND_ENDPOINT is not empty

Kinds == {"getLead", "getLeadSources", "sendMessage"}

ASSUME TasksAssumption ==
  /\ Kind \in [Tasks -> Kinds]
  /\ Configured \in BOOLEAN

VARIABLES
  up,        \* the processes that run
  phase,     \* where the job of each task is
  home,      \* the process that accepted it
  browser,   \* the browser its cluster launched
  posts      \* the bodies SEND_ENDPOINT received for it, in order

vars == <<up, phase, home, browser, posts>>

Busy   == {"launching", "executing", "closing", "posting", "posted", "excusing",
           "excused"}
Over   == {"resolved", "rejected", "lost", "killed"}
Phases == Busy \cup Over \cup {"waiting"}

\* Every variable keeps its type: a task is in one of the phases of a job that
\* is called at once.
TypeOK ==
  /\ up \subseteq Workers
  /\ phase \in [Tasks -> Phases]
  /\ home \in [Tasks -> Workers]
  /\ browser \in [Tasks -> {"none", "open", "closed"}]
  /\ posts \in [Tasks -> Seq({"result", "error"})]

\* Any balance of the requests over the processes.
Init ==
  /\ up = Workers
  /\ phase = [t \in Tasks |-> "waiting"]
  /\ home \in [Tasks -> Workers]
  /\ browser = [t \in Tasks |-> "none"]
  /\ posts = [t \in Tasks |-> <<>>]

-----------------------------------------------------------------------------

Active(t, p) == home[t] \in up /\ phase[t] = p

Go(t, p) == phase' = [phase EXCEPT ![t] = p]

\* An unhandled rejection ends process w, that of the job of a task in
\* `rejecting` or of a listener: the other jobs of the process are lost, its
\* browsers are killed by puppeteer's 'exit' hook.
Die(w, rejecting) ==
  /\ up' = up \ {w}
  /\ phase' = [t \in Tasks |->
                 CASE t \in rejecting                                    -> "rejected"
                   [] t \notin rejecting /\ home[t] = w /\ phase[t] \in Busy -> "lost"
                   [] OTHER                                              -> phase[t]]
  /\ browser' = [t \in Tasks |-> IF home[t] = w /\ browser[t] = "open"
                                 THEN "closed" ELSE browser[t]]
  /\ UNCHANGED home

\* Mutant: the queue holds the job back until it has a slot.
AcceptIntoQueue(t) ==
  /\ Active(t, "waiting")
  /\ Go(t, "queued")
  /\ UNCHANGED <<up, home, browser, posts>>

\* Mutant: the new process takes up the jobs its predecessor lost.
AcceptAgain(t) ==
  /\ Active(t, "waiting") \/ Active(t, "lost")
  /\ Go(t, "launching")
  /\ UNCHANGED <<up, home, browser, posts>>

\* createJob(): the answer holds the task id, the job has been called.
Accept(t) ==
  /\ Active(t, "waiting")
  /\ Go(t, "launching")
  /\ UNCHANGED <<up, home, browser, posts>>

\* Mutant: a job waits until no other job of its process is busy.
LaunchAlone(t) ==
  /\ Active(t, "launching")
  /\ \A u \in Tasks \ {t} : home[u] = home[t] => phase[u] \notin Busy
  /\ Go(t, "executing")
  /\ browser' = [browser EXCEPT ![t] = "open"]
  /\ UNCHANGED <<up, home, posts>>

\* Cluster.launch() and cluster.task(); without a browser, the catch block.
Launch(t) ==
  /\ Active(t, "launching")
  /\ \/ Go(t, "executing") /\ browser' = [browser EXCEPT ![t] = "open"]
     \/ Go(t, "excusing") /\ UNCHANGED browser
  /\ UNCHANGED <<up, home, posts>>

\* cluster.execute() returns what the task function returned, or rejects with
\* its error or the time limit: the task is not retried and there is no
\* 'taskerror', those belong to cluster.queue().
Execute(t) ==
  /\ Active(t, "executing")
  /\ Go(t, "closing") \/ Go(t, "excusing")
  /\ UNCHANGED <<up, home, browser, posts>>

\* Mutant: cluster.close() is forgotten.
CloseForgotten(t) ==
  /\ Active(t, "closing")
  /\ Go(t, "posting")
  /\ UNCHANGED <<up, home, browser, posts>>

\* cluster.idle() and cluster.close().
Close(t) ==
  /\ Active(t, "closing")
  /\ \/ Go(t, "posting") /\ browser' = [browser EXCEPT ![t] = "closed"]
     \/ Go(t, "excusing") /\ UNCHANGED browser
  /\ UNCHANGED <<up, home, posts>>

\* sendResult(): its post arrives at SEND_ENDPOINT, and is answered later.
Arrive(t) ==
  /\ Configured
  /\ \/ /\ Active(t, "posting")
        /\ posts' = [posts EXCEPT ![t] = Append(@, "result")]
        /\ Go(t, "posted")
     \/ /\ Active(t, "excusing")
        /\ posts' = [posts EXCEPT ![t] = Append(@, "error")]
        /\ Go(t, "excused")
  /\ UNCHANGED <<up, home, browser>>

\* sendResult() resolves: the answer came, or there is no endpoint to post to.
Reported(t, before, arrived) == Active(t, IF Configured THEN arrived ELSE before)

\* sendResult() rejects: the post did not arrive, or its answer did not come.
Unanswered(t, before, arrived) ==
  Configured /\ (Active(t, before) \/ Active(t, arrived))

\* Mutant: the post is retried when it is not answered.
PostResultAgain(t) ==
  /\ \/ Reported(t, "posting", "posted") /\ Go(t, "resolved")
     \/ Unanswered(t, "posting", "posted") /\ Go(t, "posting")
  /\ UNCHANGED <<up, home, browser, posts>>

PostResult(t) ==
  /\ \/ Reported(t, "posting", "posted") /\ Go(t, "resolved")
     \/ Unanswered(t, "posting", "posted") /\ Go(t, "excusing")
  /\ UNCHANGED <<up, home, browser, posts>>

\* Mutant: the catch block of getLead() only swallows the error.
ExcuseSilently(t) ==
  /\ Active(t, "excusing")
  /\ Kind[t] = "getLead"
  /\ Go(t, "resolved")
  /\ UNCHANGED <<up, home, browser, posts>>

\* The catch block of getLead() swallows the error, the others rethrow it.
Excuse(t) ==
  /\ Kind[t] = "getLead"
  /\ Reported(t, "excusing", "excused")
  /\ Go(t, "resolved")
  /\ UNCHANGED <<up, home, browser, posts>>

\* `throw new BadRequestException(...)`, or the report itself failed: the job
\* rejects, and so ends the process.
Reject(t) ==
  /\ \/ Kind[t] # "getLead" /\ Reported(t, "excusing", "excused")
     \/ Unanswered(t, "excusing", "excused")
  /\ Die(home[t], {t})
  /\ UNCHANGED posts

\* A 'load' listener on the page of the task rejects, see LoadListenerFails:
\* no job does, all are lost.
ListenerFails(t) ==
  /\ Active(t, "executing")
  /\ Die(home[t], {})
  /\ UNCHANGED posts

\* The process is killed from outside (SIGKILL, out of memory): no hook runs,
\* what it left in its browsers' processes stays.
Kill(w) ==
  /\ w \in up
  /\ up' = up \ {w}
  /\ phase' = [t \in Tasks |-> IF home[t] = w /\ phase[t] \in Busy
                               THEN "killed" ELSE phase[t]]
  /\ UNCHANGED <<home, browser, posts>>

\* cluster.on('exit', ...) in the master.
Fork(w) ==
  /\ w \in Workers \ up
  /\ up' = up \cup {w}
  /\ UNCHANGED <<phase, home, browser, posts>>

Next ==
  \/ \E t \in Tasks : \/ Accept(t) \/ Launch(t) \/ Execute(t) \/ Close(t) \/ Arrive(t)
                      \/ PostResult(t) \/ Excuse(t) \/ Reject(t) \/ ListenerFails(t)
  \/ \E w \in Workers : Kill(w) \/ Fork(w)

\* launch() and execute() have a time limit; the master forks at once.  Neither
\* cluster.close() nor axios.post() has one.
Fairness ==
  /\ \A t \in Tasks : WF_vars(Launch(t)) /\ WF_vars(Execute(t))
  /\ \A w \in Workers : WF_vars(Fork(w))

Spec == Init /\ [][Next]_vars

FairSpec == Spec /\ Fairness

-----------------------------------------------------------------------------

\* A task is reported at most once as a success and at most once as a failure,
\* and never as a success after it was reported as a failure.
ReportsInOrder ==
  \A t \in Tasks : posts[t] \in {<<>>, <<"result">>, <<"error">>, <<"result", "error">>}

\* A job that ran to its end has been reported, unless there is no endpoint:
\* an unreported task always went down with its process.
ResolvedIsReported ==
  \A t \in Tasks : phase[t] = "resolved" /\ Configured => posts[t] # <<>>

\* A browser that outlives its job is one of a killed process, or of a getLead
\* job that failed before the post of its result and went on as if it had not.
LeaksAreSwallowedErrors ==
  \A t \in Tasks : phase[t] \in Over /\ browser[t] = "open" =>
     \/ phase[t] = "killed"
     \/ /\ Kind[t] = "getLead"
        /\ phase[t] = "resolved"
        /\ posts[t] \in {<<>>, <<"error">>}

\* The reports of a task never change once its job is over, however often its
\* process is replaced.
OverIsFinal ==
  [][ \A t \in Tasks : phase[t] \in Over => phase'[t] = phase[t] /\ posts'[t] = posts[t] ]_vars

\* Why the invariants above hold: nothing has arrived before the phases that
\* post, and a success only once the browser is closed.
PhaseInv ==
  \A t \in Tasks :
     /\ phase[t] \in {"waiting", "launching", "executing", "closing", "posting"} =>
          posts[t] = <<>>
     /\ phase[t] = "posted" => posts[t] = <<"result">>
     /\ phase[t] = "excusing" => posts[t] \in {<<>>, <<"result">>}
     /\ phase[t] = "excused" => posts[t] \in {<<"error">>, <<"result", "error">>}
     /\ phase[t] \in {"waiting", "launching", "posting", "posted"} => browser[t] # "open"
     /\ phase[t] \in {"excusing", "excused"} /\ browser[t] = "open" =>
          posts[t] \in {<<>>, <<"error">>}

IInv ==
  /\ TypeOK
  /\ PhaseInv
  /\ ReportsInOrder
  /\ ResolvedIsReported
  /\ LeaksAreSwallowedErrors

\* Every accepted job gets past its browser within the time limits, or is over.
TasksGetPastTheBrowser ==
  \A t \in Tasks : phase[t] \in {"launching", "executing"}
                     ~> phase[t] \in {"closing", "posting", "excusing"} \cup Over
=============================================================================
