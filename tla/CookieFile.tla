----------------------------- MODULE CookieFile -----------------------------
(***************************************************************************)
(* cookies.json, the session that the pages of all server processes share. *)
(* A job reads it before it opens amoCRM (loadCookies, setCookiesToPage),  *)
(* the load listener of a page writes what the browser holds back (onLoad, *)
(* saveCookies).  fs.writeFileSync() opens the file, which empties it, and *)
(* then writes: nothing else of the same process runs in between, but the  *)
(* other processes do, and the process may be killed.                      *)
(***************************************************************************)
EXTENDS Naturals

CONSTANTS
  Workers,      \* server processes, each replaced by the master when it ends
  Jobs,         \* jobs, each with a browser and page of its own
  Logins,       \* amoCRM users
  SaveSetting,  \* the value of AMO_SAVE_SESSION, in lower case
  MaxRedeploys, \* bound: how often the service is started with another login
  None,         \* no such cookie, or no process
  Absent,       \* there is no file
  Empty,        \* the file has no bytes
  Garbled       \* the file holds one JSON text over the rest of another

\* The cookies that matter, by name: the session amoCRM opened for a user, and
\* last_login.
Jar == [session : Logins \cup {None}, last : Logins \cup {None}]

Broken == {Empty, Garbled}

ASSUME FileAssumption ==
  /\ None \notin Logins \cup Workers
  /\ Broken \cap Jar = {}
  /\ Absent \notin Jar \cup Broken
  /\ MaxRedeploys \in Nat

VARIABLES
  login,      \* amo.login of the running service
  file,       \* what cookies.json holds
  writing,    \* [Workers -> the writeFileSync() in progress: data and step]
  stage,      \* where each job is
  home,       \* the process a job runs in
  cookies,    \* what the browser of each job holds
  finalCookie,\* what the listener of each job has collected
  raced,      \* history: two writes overlapped or one was cut short
  redeploys   \* how often the login was changed

vars == <<login, file, writing, stage, home, cookies, finalCookie, raced, redeploys>>

NoCookies == [session |-> None, last |-> None]

Steps == {"idle", "open", "write"}

\* The types: what a browser and a listener hold are cookies, the file may
\* hold less.
TypeOK ==
  /\ login \in Logins
  /\ file \in Jar \cup Broken \cup {Absent}
  /\ writing \in [Workers -> [data : Jar, step : Steps]]
  /\ stage \in [Jobs -> {"queued", "open", "over"}]
  /\ home \in [Jobs -> Workers \cup {None}]
  /\ cookies \in [Jobs -> Jar]
  /\ finalCookie \in [Jobs -> Jar]
  /\ raced \in BOOLEAN
  /\ redeploys \in 0..MaxRedeploys

Init ==
  /\ login \in Logins
  /\ file = Absent
  /\ writing = [w \in Workers |-> [data |-> NoCookies, step |-> "idle"]]
  /\ stage = [j \in Jobs |-> "queued"]
  /\ home = [j \in Jobs |-> None]
  /\ cookies = [j \in Jobs |-> NoCookies]
  /\ finalCookie = cookies
  /\ raced = FALSE
  /\ redeploys = 0

-----------------------------------------------------------------------------
(* amo.saveSession of configuration.ts. *)

\* lodash isBoolean() of the string that toLower() returns.
IsBoolean(string) == FALSE

saveSession == (IsBoolean(SaveSetting) /\ SaveSetting = "true") \/ TRUE

-----------------------------------------------------------------------------
(* Helpers. *)

Idle(w)   == writing[w].step = "idle"
Open(w)   == {j \in Jobs : home[j] = w /\ stage[j] = "open"}
Midway(w) == writing[w].step = "write"

\* saveCookies(): the process is busy with its write until the file is closed.
saveCookies(w, data) ==
  writing' = [writing EXCEPT ![w] = [data |-> data, step |-> "open"]]

\* cookies.forEach((item) => { finalCookie[item.name] = item }): a cookie that
\* is gone from the browser stays.
Collect(old, new) ==
  [name \in {"session", "last"} |-> IF new[name] = None THEN old[name] ELSE new[name]]

\* The processes of W are gone with their pages, and so is what they had left
\* to write.
Stop(W) ==
  LET gone == {j \in Jobs : home[j] \in W}
  IN  /\ writing' = [w \in Workers |->
                       IF w \in W THEN [data |-> NoCookies, step |-> "idle"] ELSE writing[w]]
      /\ raced' = (raced \/ \E w \in W : Midway(w))
      /\ stage' = [j \in Jobs |-> IF j \in gone THEN "over" ELSE stage[j]]
      /\ home' = [j \in Jobs |-> IF j \in gone THEN None ELSE home[j]]
      /\ cookies' = [j \in Jobs |-> IF j \in gone THEN NoCookies ELSE cookies[j]]
      /\ finalCookie' = [j \in Jobs |-> IF j \in gone THEN NoCookies ELSE finalCookie[j]]

-----------------------------------------------------------------------------
(* A job. *)

\* The page of job j in process w gets the cookies of the jar.
SetCookies(j, w, jar) ==
  /\ stage' = [stage EXCEPT ![j] = "open"]
  /\ home' = [home EXCEPT ![j] = w]
  /\ cookies' = [cookies EXCEPT ![j] = jar]
  /\ UNCHANGED <<login, file, finalCookie, raced, redeploys>>

\* last_login is that of another user.
OfAnother(jar) == jar.last \notin {None, login}

\* Mutant: the jar is used whatever its last_login says.
LoadAnyone(j, w) ==
  /\ stage[j] = "queued"
  /\ Idle(w)
  /\ file \in Jar
  /\ SetCookies(j, w, file)
  /\ UNCHANGED writing

\* loadCookies() finds a file it can use.
Load(j, w) ==
  /\ stage[j] = "queued"
  /\ Idle(w)
  /\ file \in Jar
  /\ ~OfAnother(file)
  /\ SetCookies(j, w, file)
  /\ UNCHANGED writing

\* loadCookies() finds no file.
LoadNothing(j, w) ==
  /\ stage[j] = "queued"
  /\ Idle(w)
  /\ file = Absent
  /\ SetCookies(j, w, NoCookies)
  /\ UNCHANGED writing

\* loadCookies() finds the file of another user: `await this.saveCookies({})`.
LoadAndClear(j, w) ==
  /\ stage[j] = "queued"
  /\ Idle(w)
  /\ file \in Jar
  /\ OfAnother(file)
  /\ SetCookies(j, w, NoCookies)
  /\ saveCookies(w, NoCookies)

\* Mutant: a file that does not parse counts as no file.
LoadTolerantly(j, w) ==
  /\ stage[j] = "queued"
  /\ Idle(w)
  /\ file \in Broken
  /\ SetCookies(j, w, NoCookies)
  /\ UNCHANGED writing

\* Mutant: the text of a file that does not parse is used as it is.
LoadUnparsed(j, w) ==
  /\ stage[j] = "queued"
  /\ Idle(w)
  /\ file \in Broken
  /\ SetCookies(j, w, file)
  /\ UNCHANGED writing

\* JSON.parse() throws: applyDefaultActions() rejects before onLoad(), so the
\* job ends without a page that could ever save anything.
LoadFails(j, w) ==
  /\ stage[j] = "queued"
  /\ Idle(w)
  /\ file \in Broken
  /\ stage' = [stage EXCEPT ![j] = "over"]
  /\ UNCHANGED <<login, file, writing, home, cookies, finalCookie, raced, redeploys>>

\* amoCRM ends the session of the page, and shows the login form.
Expire(j) ==
  /\ stage[j] = "open"
  /\ cookies' = [cookies EXCEPT ![j].session = None]
  /\ UNCHANGED <<login, file, writing, stage, home, finalCookie, raced, redeploys>>

\* authorise() fills in the form: amoCRM opens a session of amo.login.
SignIn(j) ==
  /\ stage[j] = "open"
  /\ Idle(home[j])
  /\ cookies[j].session = None
  /\ cookies' = [cookies EXCEPT ![j] = [session |-> login, last |-> login]]
  /\ UNCHANGED <<login, file, writing, stage, home, finalCookie, raced, redeploys>>

\* The load listener that job j registered collects the cookies of the page
\* this.frame is on, any page of its process, and saves all it ever saw.
Save(j) ==
  /\ stage[j] # "queued"
  /\ home[j] # None
  /\ Idle(home[j])
  /\ \E p \in Open(home[j]) :
       /\ finalCookie' = [finalCookie EXCEPT ![j] = Collect(@, cookies[p])]
       /\ IF saveSession THEN saveCookies(home[j], finalCookie'[j]) ELSE UNCHANGED writing
  /\ UNCHANGED <<login, file, stage, home, cookies, raced, redeploys>>

\* The task function ends, in whatever way, and its browser is closed.
Close(j) ==
  /\ stage[j] = "open"
  /\ Idle(home[j])
  /\ stage' = [stage EXCEPT ![j] = "over"]
  /\ cookies' = [cookies EXCEPT ![j] = NoCookies]
  /\ UNCHANGED <<login, file, writing, home, finalCookie, raced, redeploys>>

-----------------------------------------------------------------------------
(* fs.writeFileSync(). *)

\* Mutant: the file is opened for writing but keeps its bytes.
OpenInPlace(w) ==
  /\ writing[w].step = "open"
  /\ raced' = (raced \/ \E v \in Workers : Midway(v))
  /\ writing' = [writing EXCEPT ![w].step = "write"]
  /\ UNCHANGED <<login, file, stage, home, cookies, finalCookie, redeploys>>

OpenFile(w) ==
  /\ writing[w].step = "open"
  /\ file' = Empty
  /\ raced' = (raced \/ \E v \in Workers : Midway(v))
  /\ writing' = [writing EXCEPT ![w].step = "write"]
  /\ UNCHANGED <<login, stage, home, cookies, finalCookie, redeploys>>

\* The bytes go to the start of the file.  If another process has written since
\* it was emptied, the rest of a longer text may stay behind.
WriteFile(w) ==
  /\ Midway(w)
  /\ \/ file' = writing[w].data
     \/ file # Empty /\ file' = Garbled
  /\ writing' = [writing EXCEPT ![w] = [data |-> NoCookies, step |-> "idle"]]
  /\ UNCHANGED <<login, stage, home, cookies, finalCookie, raced, redeploys>>

-----------------------------------------------------------------------------
(* Processes. *)

\* A process ends, by an unhandled rejection or from outside, and is replaced.
Kill(w) ==
  /\ Stop({w})
  /\ UNCHANGED <<login, file, redeploys>>

\* The service is started again with another AMO_LOGIN.
Redeploy ==
  /\ redeploys < MaxRedeploys
  /\ login' \in Logins \ {login}
  /\ Stop(Workers)
  /\ redeploys' = redeploys + 1
  /\ UNCHANGED file

Next ==
  \/ \E j \in Jobs, w \in Workers : Load(j, w) \/ LoadNothing(j, w)
                                      \/ LoadAndClear(j, w) \/ LoadFails(j, w)
  \/ \E j \in Jobs : Expire(j) \/ SignIn(j) \/ Save(j) \/ Close(j)
  \/ \E w \in Workers : OpenFile(w) \/ WriteFile(w) \/ Kill(w)
  \/ Redeploy

Spec == Init /\ [][Next]_vars

-----------------------------------------------------------------------------
(* Properties. *)

\* A browser is only ever signed in as the login the service was started with,
\* although the file may still be of another one, and is read by any process
\* while others clear or overwrite it.
SessionsAreOfTheLogin ==
  \A j \in Jobs : cookies[j].session \in {None, login}

\* A file that does not parse and that nobody is writing comes from two
\* processes writing at once, or from one killed between its open and its write.
BreaksByARace ==
  file \in Broken /\ (\A w \in Workers : Idle(w)) => raced

\* Such a file stays: every later job fails before it could replace it, in any
\* process, after any restart; only a page opened before could still save.
Stuck ==
  /\ file \in Broken
  /\ \A w \in Workers : Idle(w) /\ Open(w) = {}

StuckForGood == [][Stuck => Stuck']_vars

-----------------------------------------------------------------------------
(* Why they hold. *)

\* Cookies of the login; amoCRM sets last_login with every session.
OfTheLogin(jar) ==
  /\ jar.session \in {None, login}
  /\ jar.last \in {None, login}
  /\ jar.session # None => jar.last # None

LoginInv ==
  /\ \A j \in Jobs : OfTheLogin(cookies[j]) /\ OfTheLogin(finalCookie[j])
  /\ \A j \in Jobs : home[j] = None => /\ stage[j] # "open"
                                     /\ cookies[j] = NoCookies
                                     /\ finalCookie[j] = NoCookies
  /\ \A w \in Workers : OfTheLogin(writing[w].data)
  /\ file \in Jar /\ file.session # None => file.last = file.session

\* Without a race one process at a time is midway, and only it has emptied the
\* file.
RaceInv ==
  \/ raced
  \/ /\ \A v, w \in Workers : Midway(v) /\ Midway(w) => v = w
     /\ \A w \in Workers : Midway(w) => file = Empty
     /\ file \in Broken => \E w \in Workers : Midway(w)

IInv == TypeOK /\ LoginInv /\ RaceInv

-----------------------------------------------------------------------------
\* src/.env, AMO_SAVE_SESSION=true: set to anything else, no session is saved.
UnwantedIsNotSaved ==
  SaveSetting # "true" /\ file \in Jar => file.session = None
=============================================================================
