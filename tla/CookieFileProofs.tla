-------------------------- MODULE CookieFileProofs --------------------------
(***************************************************************************)
(* Safety of cookies.json for any number of processes, jobs, logins and    *)
(* restarts.                                                               *)
(***************************************************************************)
EXTENDS CookieFile, TLAPS

LEMMA JarType ==
  /\ NoCookies \in Jar
  /\ OfTheLogin(NoCookies)
  /\ \A jar \in Jar : /\ jar.session \in Logins \cup {None}
                      /\ jar.last \in Logins \cup {None}
                      /\ jar \notin Broken \cup {Absent}
BY FileAssumption DEF Jar, NoCookies, OfTheLogin

\* What a listener collects is cookies, of the login if all it saw was.
LEMMA CollectFacts ==
  ASSUME NEW old \in Jar, NEW new \in Jar
  PROVE  /\ Collect(old, new) \in Jar
         /\ OfTheLogin(old) /\ OfTheLogin(new) => OfTheLogin(Collect(old, new))
<1>. DEFINE c == Collect(old, new)
<1>1. /\ c = [session |-> c.session, last |-> c.last]
      /\ c.session = IF new.session = None THEN old.session ELSE new.session
      /\ c.last = IF new.last = None THEN old.last ELSE new.last
  BY DEF Collect
<1>2. c \in Jar
  BY <1>1, JarType DEF Jar
<1>. HIDE DEF c
<1>3. OfTheLogin(old) /\ OfTheLogin(new) => OfTheLogin(c)
  BY <1>1 DEF OfTheLogin
<1>. QED
  BY <1>2, <1>3 DEF c

LEMMA InitInv == Init => IInv
<1>. SUFFICES ASSUME Init PROVE IInv
  OBVIOUS
<1>. USE JarType DEF Init
<1>1. TypeOK
  <2>1. writing \in [Workers -> [data : Jar, step : Steps]]
    BY DEF Steps
  <2>2. redeploys \in 0..MaxRedeploys
    BY FileAssumption
  <2>. QED
    BY <2>1, <2>2 DEF TypeOK
<1>2. LoginInv
  BY DEF LoginInv, OfTheLogin, NoCookies
<1>3. RaceInv
  BY FileAssumption DEF RaceInv, Midway, Broken
<1>. QED
  BY <1>1, <1>2, <1>3 DEF IInv

-----------------------------------------------------------------------------
(* Types. *)

LEMMA StopType ==
  ASSUME TypeOK, NEW W \in SUBSET Workers, Stop(W)
  PROVE  /\ writing' \in [Workers -> [data : Jar, step : Steps]]
         /\ stage' \in [Jobs -> {"queued", "open", "over"}]
         /\ home' \in [Jobs -> Workers \cup {None}]
         /\ cookies' \in [Jobs -> Jar]
         /\ finalCookie' \in [Jobs -> Jar]
         /\ raced' \in BOOLEAN
<1>1. writing' \in [Workers -> [data : Jar, step : Steps]]
  BY JarType DEF TypeOK, Stop, Steps
<1>2. /\ stage' \in [Jobs -> {"queued", "open", "over"}]
      /\ home' \in [Jobs -> Workers \cup {None}]
      /\ cookies' \in [Jobs -> Jar]
      /\ finalCookie' \in [Jobs -> Jar]
  BY JarType DEF TypeOK, Stop
<1>3. raced' \in BOOLEAN
  BY DEF TypeOK, Stop, Midway
<1>. QED
  BY <1>1, <1>2, <1>3

LEMMA NextType == TypeOK /\ [Next]_vars => TypeOK'
<1>. SUFFICES ASSUME TypeOK, [Next]_vars PROVE TypeOK'
  OBVIOUS
<1>1. ASSUME NEW j \in Jobs, NEW w \in Workers, Load(j, w) \/ LoadNothing(j, w)
      PROVE  TypeOK'
  <2>1. PICK jar \in Jar : SetCookies(j, w, jar)
    BY <1>1, JarType DEF Load, LoadNothing
  <2>2. UNCHANGED writing
    BY <1>1 DEF Load, LoadNothing
  <2>. QED
    BY <2>1, <2>2 DEF SetCookies, TypeOK
<1>2. ASSUME NEW j \in Jobs, NEW w \in Workers, LoadAndClear(j, w)
      PROVE  TypeOK'
  <2>1. writing' \in [Workers -> [data : Jar, step : Steps]]
    BY <1>2, JarType DEF LoadAndClear, saveCookies, TypeOK, Steps
  <2>. QED
    BY <1>2, <2>1, JarType DEF LoadAndClear, SetCookies, TypeOK
<1>3. ASSUME NEW j \in Jobs, NEW w \in Workers, LoadFails(j, w)
      PROVE  TypeOK'
  BY <1>3 DEF LoadFails, TypeOK
<1>4. ASSUME NEW j \in Jobs, Expire(j) PROVE TypeOK'
  <2>1. cookies' \in [Jobs -> Jar]
    BY <1>4 DEF Expire, TypeOK, Jar
  <2>. QED
    BY <1>4, <2>1 DEF Expire, TypeOK
<1>5. ASSUME NEW j \in Jobs, SignIn(j) PROVE TypeOK'
  <2>1. cookies' \in [Jobs -> Jar]
    BY <1>5 DEF SignIn, TypeOK, Jar
  <2>. QED
    BY <1>5, <2>1 DEF SignIn, TypeOK
<1>6. ASSUME NEW j \in Jobs, Save(j) PROVE TypeOK'
  <2>1. PICK p \in Jobs : finalCookie' = [finalCookie EXCEPT ![j] = Collect(@, cookies[p])]
    BY <1>6 DEF Save, Open
  <2>2. finalCookie' \in [Jobs -> Jar]
    BY <2>1, CollectFacts DEF TypeOK
  <2>3. writing' \in [Workers -> [data : Jar, step : Steps]]
    BY <1>6, <2>2 DEF Save, saveCookies, TypeOK, Steps
  <2>. QED
    BY <1>6, <2>2, <2>3 DEF Save, TypeOK
<1>7. ASSUME NEW j \in Jobs, Close(j) PROVE TypeOK'
  BY <1>7, JarType DEF Close, TypeOK
<1>8. ASSUME NEW w \in Workers, OpenFile(w) PROVE TypeOK'
  <2>1. writing' \in [Workers -> [data : Jar, step : Steps]]
    BY <1>8 DEF OpenFile, TypeOK, Steps
  <2>2. raced' \in BOOLEAN
    BY <1>8 DEF OpenFile, TypeOK, Midway
  <2>. QED
    BY <1>8, <2>1, <2>2 DEF OpenFile, TypeOK, Broken
<1>9. ASSUME NEW w \in Workers, WriteFile(w) PROVE TypeOK'
  <2>1. writing' \in [Workers -> [data : Jar, step : Steps]]
    BY <1>9, JarType DEF WriteFile, TypeOK, Steps
  <2>2. writing[w].data \in Jar
    BY DEF TypeOK
  <2>. QED
    BY <1>9, <2>1, <2>2 DEF WriteFile, TypeOK, Broken
<1>10. ASSUME NEW w \in Workers, Kill(w) PROVE TypeOK'
  BY <1>10, StopType DEF Kill, TypeOK
<1>11. CASE Redeploy
  BY <1>11, StopType, FileAssumption DEF Redeploy, TypeOK
<1>12. CASE UNCHANGED vars
  BY <1>12 DEF vars, TypeOK
<1>. QED
  BY <1>1, <1>2, <1>3, <1>4, <1>5, <1>6, <1>7, <1>8, <1>9, <1>10, <1>11, <1>12 DEF Next

-----------------------------------------------------------------------------
(* The login of the cookies. *)

\* A load only takes what has no session or one of the login.
LEMMA LoadedIsOfTheLogin ==
  ASSUME TypeOK, LoginInv, file \in Jar, ~OfAnother(file)
  PROVE  OfTheLogin(file)
  BY JarType DEF LoginInv, OfAnother, OfTheLogin

LEMMA NextLogin == TypeOK /\ LoginInv /\ [Next]_vars => LoginInv'
<1>. SUFFICES ASSUME TypeOK, LoginInv, [Next]_vars PROVE LoginInv'
  OBVIOUS
<1>. USE JarType
<1>1. ASSUME NEW j \in Jobs, NEW w \in Workers, Load(j, w)
      PROVE  LoginInv'
  <2>1. OfTheLogin(file)
    BY <1>1, LoadedIsOfTheLogin DEF Load
  <2>2. /\ \A k \in Jobs : cookies'[k] \in {cookies[k], file}
        /\ \A k \in Jobs : home'[k] = None => home[k] = None /\ k # j /\ stage'[k] = stage[k]
        /\ \A k \in Jobs : k # j => cookies'[k] = cookies[k]
        /\ UNCHANGED <<login, file, finalCookie, writing>>
    BY <1>1, FileAssumption DEF Load, SetCookies, TypeOK
  <2>. QED
    BY <2>1, <2>2 DEF LoginInv, OfTheLogin
<1>2. ASSUME NEW j \in Jobs, NEW w \in Workers, LoadNothing(j, w) \/ LoadAndClear(j, w)
      PROVE  LoginInv'
  <2>1. SetCookies(j, w, NoCookies) /\ (UNCHANGED writing \/ saveCookies(w, NoCookies))
    BY <1>2 DEF LoadNothing, LoadAndClear
  <2>2. /\ \A k \in Jobs : cookies'[k] \in {cookies[k], NoCookies}
        /\ \A v \in Workers : writing'[v].data \in {writing[v].data, NoCookies}
        /\ \A k \in Jobs : home'[k] = None => home[k] = None /\ stage'[k] = stage[k]
        /\ UNCHANGED <<login, file, finalCookie>>
    BY <2>1, FileAssumption DEF SetCookies, saveCookies, TypeOK
  <2>. QED
    BY <2>2 DEF LoginInv, OfTheLogin
<1>3. ASSUME NEW j \in Jobs, NEW w \in Workers, LoadFails(j, w)
      PROVE  LoginInv'
  BY <1>3 DEF LoadFails, LoginInv, OfTheLogin, TypeOK
<1>4. ASSUME NEW j \in Jobs, Expire(j) \/ SignIn(j) PROVE LoginInv'
  <2>1. \A k \in Jobs : OfTheLogin(cookies'[k])
    <3>1. CASE Expire(j)
      BY <1>4, <3>1 DEF Expire, LoginInv, OfTheLogin, TypeOK, Jar
    <3>2. CASE SignIn(j)
      <4>1. login # None
        BY FileAssumption DEF TypeOK
      <4>. QED
        BY <3>2, <4>1 DEF SignIn, LoginInv, OfTheLogin, TypeOK
    <3>. QED
      BY <1>4, <3>1, <3>2
  <2>2. \A k \in Jobs : home[k] = None => cookies'[k] = NoCookies
    BY <1>4 DEF Expire, SignIn, LoginInv, OfTheLogin, TypeOK, Jar
  <2>. QED
    BY <1>4, <2>1, <2>2 DEF Expire, SignIn, LoginInv, OfTheLogin
<1>5. ASSUME NEW j \in Jobs, Save(j) PROVE LoginInv'
  <2>1. PICK p \in Jobs : finalCookie' = [finalCookie EXCEPT ![j] = Collect(@, cookies[p])]
    BY <1>5 DEF Save, Open
  <2>2. \A k \in Jobs : OfTheLogin(finalCookie'[k])
    BY <2>1, CollectFacts DEF LoginInv, TypeOK
  <2>3. \A w \in Workers : OfTheLogin(writing'[w].data)
    BY <1>5, <2>2 DEF Save, saveCookies, LoginInv, TypeOK
  <2>. QED
    BY <1>5, <2>2, <2>3 DEF Save, LoginInv, OfTheLogin
<1>6. ASSUME NEW j \in Jobs, Close(j) PROVE LoginInv'
  BY <1>6 DEF Close, LoginInv, OfTheLogin, TypeOK
<1>7. ASSUME NEW w \in Workers, OpenFile(w) PROVE LoginInv'
  <2>1. \A v \in Workers : writing'[v].data = writing[v].data
    BY <1>7 DEF OpenFile, TypeOK
  <2>2. file' \notin Jar
    BY <1>7 DEF OpenFile, Broken
  <2>. QED
    BY <1>7, <2>1, <2>2 DEF OpenFile, LoginInv, OfTheLogin
<1>8. ASSUME NEW w \in Workers, WriteFile(w) PROVE LoginInv'
  <2>1. \A v \in Workers : writing'[v].data \in {writing[v].data, NoCookies}
    BY <1>8 DEF WriteFile, TypeOK
  <2>2. file' = writing[w].data \/ file' \notin Jar
    BY <1>8 DEF WriteFile, Broken
  <2>. QED
    BY <1>8, <2>1, <2>2 DEF WriteFile, LoginInv, OfTheLogin
<1>9. ASSUME NEW w \in Workers, Kill(w) PROVE LoginInv'
  BY <1>9 DEF Kill, Stop, LoginInv, OfTheLogin, TypeOK
<1>10. CASE Redeploy
  <2>1. ASSUME NEW j \in Jobs
        PROVE  OfTheLogin(cookies[j])' /\ OfTheLogin(finalCookie[j])'
    BY <1>10 DEF Redeploy, Stop, LoginInv, OfTheLogin, NoCookies, TypeOK
  <2>2. \A w \in Workers : OfTheLogin(writing[w].data)'
    BY <1>10 DEF Redeploy, Stop, OfTheLogin, NoCookies
  <2>3. \A j \in Jobs : home'[j] = None =>
          stage'[j] # "open" /\ cookies'[j] = NoCookies /\ finalCookie'[j] = NoCookies
    BY <1>10 DEF Redeploy, Stop, LoginInv, TypeOK
  <2>. QED
    BY <1>10, <2>1, <2>2, <2>3 DEF Redeploy, LoginInv
<1>11. CASE UNCHANGED vars
  BY <1>11 DEF vars, LoginInv, OfTheLogin
<1>. QED
  BY <1>1, <1>2, <1>3, <1>4, <1>5, <1>6, <1>7, <1>8, <1>9, <1>10, <1>11 DEF Next

-----------------------------------------------------------------------------
(* The two steps of writeFileSync(). *)

\* Who is midway only changes by the two steps, and by a process that ends.
LEMMA NextRace == TypeOK /\ RaceInv /\ [Next]_vars => RaceInv'
<1>. SUFFICES ASSUME TypeOK, RaceInv, [Next]_vars PROVE RaceInv'
  OBVIOUS
<1>0. Empty \in Broken /\ Garbled \in Broken
  BY DEF Broken
<1>1. ASSUME \A w \in Workers : Midway(w)' <=> Midway(w), UNCHANGED <<file, raced>>
      PROVE  RaceInv'
  BY <1>1 DEF RaceInv
<1>2. ASSUME NEW w \in Workers, NEW data, Idle(w), saveCookies(w, data)
      PROVE  \A v \in Workers : Midway(v)' <=> Midway(v)
  BY <1>2 DEF Idle, saveCookies, Midway, TypeOK
<1>3. ASSUME UNCHANGED writing
      PROVE  \A v \in Workers : Midway(v)' <=> Midway(v)
  BY <1>3 DEF Midway
<1>4. ASSUME NEW j \in Jobs, NEW w \in Workers,
             Load(j, w) \/ LoadNothing(j, w) \/ LoadAndClear(j, w) \/ LoadFails(j, w)
      PROVE  RaceInv'
  BY <1>1, <1>2, <1>3, <1>4 DEF Load, LoadNothing, LoadAndClear, LoadFails, SetCookies
<1>5. ASSUME NEW j \in Jobs, Expire(j) \/ SignIn(j) \/ Save(j) \/ Close(j)
      PROVE  RaceInv'
  <2>1. Save(j) => home[j] \in Workers /\ Idle(home[j])
    BY DEF Save, TypeOK
  <2>. QED
    BY <1>1, <1>2, <1>3, <1>5, <2>1 DEF Expire, SignIn, Save, Close
<1>6. ASSUME NEW w \in Workers, OpenFile(w) PROVE RaceInv'
  <2>1. \A v \in Workers : Midway(v)' <=> Midway(v) \/ v = w
    BY <1>6 DEF OpenFile, Midway, TypeOK
  <2>. QED
    BY <1>6, <2>1 DEF OpenFile, RaceInv
<1>7. ASSUME NEW w \in Workers, WriteFile(w) PROVE RaceInv'
  <2>1. \A v \in Workers : Midway(v)' <=> Midway(v) /\ v # w
    BY <1>7 DEF WriteFile, Midway, TypeOK
  <2>2. writing[w].data \notin Broken
    BY JarType DEF TypeOK
  <2>. QED
    BY <1>7, <2>1, <2>2 DEF WriteFile, RaceInv
<1>8. ASSUME NEW W \in SUBSET Workers, Stop(W), UNCHANGED file PROVE RaceInv'
  <2>1. \A v \in Workers : Midway(v)' <=> Midway(v) /\ v \notin W
    BY <1>8 DEF Stop, Midway, TypeOK
  <2>2. raced' = (raced \/ \E w \in W : Midway(w))
    BY <1>8 DEF Stop
  <2>. QED
    BY <1>8, <2>1, <2>2 DEF RaceInv
<1>9. CASE UNCHANGED vars
  BY <1>1, <1>3, <1>9 DEF vars
<1>. QED
  BY <1>4, <1>5, <1>6, <1>7, <1>8, <1>9 DEF Next, Kill, Redeploy

-----------------------------------------------------------------------------

\* The invariant of cookies.json holds for any number of processes and jobs.
THEOREM Invariance == Spec => []IInv
<1>1. IInv /\ [Next]_vars => IInv'
  BY NextType, NextLogin, NextRace DEF IInv
<1>. QED
  BY <1>1, InitInv, PTL DEF Spec

\* The types hold: no job puts what it could not parse into a browser.
THEOREM TypeCorrect == Spec => []TypeOK
<1>1. IInv => TypeOK
  BY DEF IInv
<1>. QED
  BY <1>1, Invariance, PTL

\* No browser is ever signed in as another login than the one the service was
\* started with, whatever loadCookies() and saveCookies() overlap with.
THEOREM OnlyTheLogin == Spec => []SessionsAreOfTheLogin
<1>1. IInv => SessionsAreOfTheLogin
  BY DEF IInv, LoginInv, OfTheLogin, SessionsAreOfTheLogin
<1>. QED
  BY <1>1, Invariance, PTL

\* cookies.json does not break without two overlapping writeFileSync() calls
\* or one that was cut short.
THEOREM OnlyRacesBreak == Spec => []BreaksByARace
<1>1. IInv => BreaksByARace
  BY DEF IInv, RaceInv, BreaksByARace, Idle, Midway
<1>. QED
  BY <1>1, Invariance, PTL

\* A cookies.json that does not parse, with no page open and nobody writing,
\* is never replaced by the service.
THEOREM NoWayBack == Spec => StuckForGood
<1>1. TypeOK /\ [Next]_vars => [Stuck => Stuck']_vars
  <2>. SUFFICES ASSUME TypeOK, Stuck, Next PROVE Stuck'
    OBVIOUS
  <2>0. /\ file \in Broken /\ file \notin Jar /\ file # Absent
        /\ \A w \in Workers : Idle(w) /\ Open(w) = {}
    BY JarType, FileAssumption DEF Stuck
  <2>1. ASSUME NEW j \in Jobs, NEW w \in Workers, LoadFails(j, w)
        PROVE  Stuck'
    BY <2>0, <2>1 DEF LoadFails, Stuck, Idle, Open, TypeOK
  <2>2. ASSUME NEW j \in Jobs, Expire(j) \/ SignIn(j)
        PROVE  Stuck'
    BY <2>0, <2>2 DEF Expire, SignIn, Stuck, Idle, Open
  <2>3. ASSUME NEW j \in Jobs PROVE ~Save(j)
    BY <2>0 DEF Save, TypeOK
  <2>4. ASSUME NEW j \in Jobs, Close(j) PROVE Stuck'
    BY <2>0, <2>4 DEF Close, Stuck, Idle, Open, TypeOK
  <2>5. ASSUME NEW w \in Workers PROVE ~OpenFile(w) /\ ~WriteFile(w)
    BY <2>0 DEF OpenFile, WriteFile, Idle, Midway
  <2>6. ASSUME NEW W \in SUBSET Workers, Stop(W), UNCHANGED file
        PROVE  Stuck'
    <3>1. \A w \in Workers : Idle(w)'
      BY <2>0, <2>6 DEF Stop, Idle, TypeOK
    <3>2. \A w \in Workers : Open(w)' = {}
      BY <2>0, <2>6, FileAssumption DEF Stop, Open, TypeOK
    <3>. QED
      BY <2>0, <2>6, <3>1, <3>2 DEF Stuck
  <2>7. ASSUME NEW j \in Jobs, NEW w \in Workers
        PROVE  ~Load(j, w) /\ ~LoadNothing(j, w) /\ ~LoadAndClear(j, w)
    BY <2>0 DEF Load, LoadNothing, LoadAndClear
  <2>. QED
    BY <2>1, <2>2, <2>3, <2>4, <2>5, <2>6, <2>7 DEF Next, Kill, Redeploy
<1>. QED
  BY <1>1, TypeCorrect, PTL DEF Spec, StuckForGood

-----------------------------------------------------------------------------
(* What saveCookies() would owe to a lock file and an orderly shutdown.      *)

\* One process at a time is in fs.writeFileSync(), and it gets to its end.
OneWriter == \A v, w \in Workers : Idle(v) \/ Idle(w) \/ v = w
Finishes  == [][ \A w \in Workers : Midway(w) /\ writing'[w] # writing[w] => WriteFile(w) ]_vars

\* The file parses whenever nobody is at it.
ParsesOutsideWrites == file \in Broken => \E w \in Workers : Midway(w)

\* With both, cookies.json only ever fails to parse while it is being written,
\* so that no later job is stuck with it: nothing else in the code, neither the
\* merging of cookies nor a change of login, can break the file.
THEOREM LockedWritesParse ==
  Spec /\ []OneWriter /\ Finishes => [](ParsesOutsideWrites /\ ~Stuck)
<1>. DEFINE Ends == \A w \in Workers : Midway(w) /\ writing'[w] # writing[w] => WriteFile(w)
<1>1. Init => ~raced
  BY DEF Init
<1>2. ASSUME IInv, OneWriter, ~raced, [Next]_vars, [Ends]_vars
      PROVE  ~raced'
  <2>1. ASSUME NEW w \in Workers, OpenFile(w) PROVE ~raced'
    <3>1. \A v \in Workers : ~Midway(v)
      BY <1>2, <2>1 DEF OpenFile, OneWriter, Idle, Midway
    <3>. QED
      BY <1>2, <2>1, <3>1 DEF OpenFile
  <2>2. ASSUME NEW W \in SUBSET Workers, Stop(W) PROVE ~raced'
    <3>. SUFFICES ASSUME NEW w \in W, Midway(w), raced' PROVE FALSE
      BY <1>2, <2>2 DEF Stop
    <3>1. writing'[w] # writing[w]
      BY <2>2 DEF Stop, Midway
    <3>2. WriteFile(w)
      BY <1>2, <3>1 DEF vars
    <3>. QED
      BY <1>2, <3>2 DEF WriteFile
  <2>3. CASE UNCHANGED raced
    BY <1>2, <2>3
  <2>. QED
    BY <1>2, <2>1, <2>2, <2>3
    DEF Next, vars, Load, LoadNothing, LoadAndClear, LoadFails, SetCookies, Expire, SignIn,
        Save, Close, WriteFile, Kill, Redeploy
<1>3. IInv /\ ~raced => ParsesOutsideWrites /\ ~Stuck
  BY DEF IInv, RaceInv, ParsesOutsideWrites, Stuck, Idle, Midway
<1>4. Finishes <=> [][Ends]_vars
  BY DEF Finishes
<1>. HIDE DEF Ends
<1>. QED
  BY <1>1, <1>2, <1>3, <1>4, Invariance, PTL DEF Spec
=============================================================================
