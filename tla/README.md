# Verification of the amoCRM parser microservice

The service is a NestJS application that drives amoCRM through a headless browser:
it reads lead cards (`GET /leads/:leadId`, `GET /leads/sources/:leadId`) and writes
messages into them (`POST /message/send`). A request is answered with a task id at
once; the outcome is posted to `SEND_ENDPOINT` later. The project models how jobs
share one `PuppeteerService` object, how a job is reported and what happens to it
when its process ends, the session file that all processes share, what is made of a
lead card, the first start of the forked processes on one database, and the refresh
tokens of the user. Paths below are relative to the repository root.

## 1. Inventory

| Component | State | Operations | Talks to |
|---|---|---|---|
| Task functions: `src/puppeteer/puppeteer.service.ts` | `this.frame`, `this.isAuth`, `this.amoUsersIds`, shared by all jobs of the object; per job: its await, element handles, result | `getLead`, `getLeadSources`, `sendMessage`, and the private steps they are made of | pages of amoCRM through puppeteer; `load` and `request` listeners call back |
| Jobs and reports: `queue.service.ts`, the outer part of the three methods | a `Queue`, one cluster and one browser per job | `createJob`, `Cluster.launch/execute/idle/close`, `sendResult` | puppeteer-cluster, `SEND_ENDPOINT` |
| Processes: `app-cluster.service.ts`, `main.ts` | the forked processes | `clusterize`, the `exit` handler | Node's cluster module |
| Login and cookies: `authorise`, `onLoad`, `loadCookies`, `saveCookies`; `amo.saveSession` of `config/configuration.ts` | `isAuth`, `cookies.json` (one file for all processes), `finalCookie` of each listener | fill in the login form, read and write the file | listeners, file system |
| Users migration: `migrations/`, `app.module.ts`, `models/user.schema.ts` | the collection, its index, the default user | `up` | MongoDB; mongoose's own model initialisation runs beside it |
| Tokens: `auth/`, `users/` | `user.refreshToken` | `signIn`, `refreshTokens` | MongoDB, worker pool |
| Parsing: `parse*` of `puppeteer.service.ts` | the result so far | one call on the page for each part; authors are resolved by `amoUsersIds` | the live page, other jobs |
| Guards, controllers, DTOs, worker pool | none | wiring | |

What is hard here: the task functions are async functions on one object, and
`this.frame` is written by every new job and by every navigation request; a task
function outlives its time limit; a job that rejects is handled by nobody and ends its
process; success and failure of the same task can both be reported; processes race
through the same migration; token calls check and then update; the session file is
emptied and then written while other processes read it, or the writer is killed; a card
is read part by part while amoCRM changes it; dates are put together from two calendars
and a clock that goes on.

What makes each component correct:

* task functions: what a result holds and where a message goes belongs to the request,
  at least to the jobs that ran together with it; no key of a text is sent twice or out of
  order; nothing is sent after the caller was told the outcome; an answered message was sent.
* jobs and processes: one report per outcome, in order; only known ends leave a browser; what
  became of a job is final; no job waits for another.
* migration: one default user per process at most; in the end a unique login, or duplicates and
  no index; nobody listens without a user, everybody listens in the end.
* cookies: a browser is signed in as the login of this start only; what breaks the file.
* parsing: a result is of the whole card or there is none; what is shown is returned; an
  author can be found in the ids of the same result; dates are in order.
* tokens: a replaced token is not accepted and never comes back; somebody holds the
  current one, or everybody is locked out until the next sign-in.

## 2. Modules

| Module | Models | Role |
|---|---|---|
| `PuppeteerService` | one object, its jobs, their pages, the listeners | core |
| `MessageDelivery` | the promise of `POST /message/send` about the keys of a text | abstract specification, implemented by `PuppeteerService` |
| `TaskReporting` | requests across processes: browser, report, death, fork | what `PuppeteerService` leaves out of a job |
| `CookieFile` | `cookies.json`, its readers and writers in all processes | the session the jobs of `PuppeteerService` start with |
| `LeadParse` | the fields, feeds, authors and ids of one card | the data `PuppeteerService` abstracts to a lead |
| `RelativeDate` | `dateIso` of the feeds of one page | the dates `LeadParse` leaves out |
| `UsersMigration` | first start against one database | |
| `TokenRefresh` | concurrent `signIn` and `refreshTokens` of one user | |
| `MC*` | constants for TLC | |
| `*Proofs` | theorems, for every value of the constants | one for each module above; `MessageDeliveryProofs` has the refinement |

Operators whose comment starts with *Mutant* are not part of a specification. Each is
a plausible bug in the definition after it, and shows that some property notices it.

### PuppeteerService

Node runs a function to completion between two awaits on I/O or on a timer, so an
action is one such segment: the pending call is answered, the code runs to the next
await, and the next call is issued. `pc[j]` names the await job `j` is suspended at,
`on[j]` the page its pending call was issued on. That page is `this.frame.page()` *at
the time the call is issued*: `Continue` evaluates `frame` there, as the code does. An
element handle (`field`, `button`) remembers its page and is dropped when that page
gets another document. A page is named by the job whose browser it is in.

`ElementHandle.type()` is an await for every key, so each key is an action of its own
(`PressKey`), between which other jobs click, type, send, reload or close. A key goes to
whatever has the focus of the page: `Focus` gives it to a job's field, a click of another
job on the same page (`Clicks`, `Blur`) or a new document takes it away, and then the keys may
land in the message field or nowhere, and replace what is selected there (`Kept`). A key is named
by its job and its number; the first `Subject[j]` of the `Length` keys of a request are
those of its `messageTheme`, the rest, `Whole(j)`, are its message. `draft[p]` is the set of keys in
the message field of page `p`. The order within a field is that of the numbers for the keys of one
job; how the keys of two jobs alternate in one field is not kept.

* `Start` is the job's first segment (`applyDefaultActions` up to `setCookie`);
  `OpenLead` registers the listeners on the page `this.frame` is on by then, and starts
  the `goto`; `Opened` and `CheckAuth` are the pause and the read of `this.isAuth`. Where it is
  true, `waitForNavigation()` waits for the frame it is called on: the document of the page
  (`navigation`, `renavigation`), or, when the request listener has stored an inner frame (`inner`),
  a document of that (`innerNavigation`, `innerRenavigation`); `Landed` is either being resolved.
* `Hop` is an await that only reads a page; `Hops` lists them for each method. A pause
  (`sleep`) is part of the await before it: answering that one later is the same.
* `StoreUserIds`, `ParseFields`, `ReturnLead` are the body of `getLead`;
  `ReadSources`, `ReturnSources`, `ReturnChats`, `ReturnWithoutChats` are
  `parseLeadSources`; `ChooseSource`, `ClickSubject`, `FindField`, `ClickField`, `PressKey`, `Typed`,
  `ClickSend`, `ReturnNotSent` are `sendMessageToLead`; `Reload`, `Reloaded`, `ReturnSent` the rest of
  `sendMessage`.
* `Fail` is any rejected call or thrown error, at any await. `Timeout` is the cluster's
  limit: it settles the caller's promise and closes the page, and the task function goes
  on. `Rethrow` and `LoadListenerFails` end the process (`Crash`).
* `Arrive` is a document and its `load` event, with what `authorise` starts; `Request` is
  the `request` listener; `Probe` and `Submit` are `authorise` before and after it found
  the login form.

What a click on the send button does is amoCRM's and an assumption here: on a page that shows a
lead it hands over whatever the message field holds at that moment, and amoCRM makes one entry of it,
unless the field is empty or the page is one of those on which amoCRM may refuse (`Refusing`).
`sendMessageToLead` does not look which: after the click it sleeps and returns `true` (lines
1475-1478), so a request is answered with a message also when nothing was accepted. That is why
`AnswerMeansSent` excepts refusing pages and requests without a text: on others the click is
taken for acceptance.

Data are abstracted to where they come from: `read[j]` is the set of leads whose data is
in the result of `j`, `amoUsersIds` the lead it was parsed from. The content of `cookies.json` is
`CookieFile`, that of a result is `LeadParse`.

`MessageDelivery` is what remains true of a message although any job may act between any two of its
keys. A message may arrive in parts, when another job clicks send in the middle, and an entry may hold
keys of two requests: both happen in the model and, by it, in the code. What the contract
promises is about keys: each is pressed at most once and after those before it (`Press`), accepted
in one entry at most, never after it was lost, and never while an earlier key of its message is still
waiting or in a composer (`Post`); so the parts of a message arrive in order. Any keys may be lost at
any time (`Lose`). `ImplementsDelivery` maps a key to `waiting` until its job has pressed or passed over
it or is over, and to `drafted` while it is in the message field of some page.

The properties speak of *busy periods*: a busy period is a stretch in which some task
function is running (`period`, `now` are history variables). The strong claim, that a
result is of its own lead, is false of this code (see 3); what the code does guarantee
is that nothing crosses from one busy period to another although `frame`,
`amoUsersIds` and the task functions themselves outlive jobs.

### TaskReporting

A task goes `waiting`, `launching`, `executing`, `closing`, `posting`, `resolved`; an
error on the way leads to `excusing` (the `catch` block), which ends in `resolved` for
`getLead` (its `catch` swallows the error) and in `rejected` for the others, and for
`getLead` too when the report itself fails. `Die` is the end of the process by an unhandled
rejection: that of a job (`Reject`, which is then `rejected`) or of a load listener (`ListenerFails`, where
no job rejects). The other busy tasks of the process become `lost`, and its open browsers are
killed (puppeteer does so on `exit`). `Kill` is an end from outside, by a signal or for memory, at any
moment: no hook runs, busy tasks become `killed` and their browsers stay. A post is two
steps: `Arrive` is its arrival at the endpoint, and `PostResult`, `Excuse` and `Reject` are what the job
does when it is answered (`Reported`) or not (`Unanswered`); in between, the process may end.

### CookieFile

`cookies.json` is one path for all processes. `loadCookies` is one action per outcome: a
file that can be used (`Load`), none (`LoadNothing`), the file of another user, which is
cleared (`LoadAndClear`), and one that does not parse, where `JSON.parse` rejects the job
before it has registered a listener (`LoadFails`). `Save` is the load listener of a job: it
collects the cookies of the page `this.frame` is on, any page of its process, into its
own `finalCookie`, from which nothing is ever removed. `fs.writeFileSync` blocks its process
(`Idle` guards all that its code does) but not the others, so it is `OpenFile`, which empties
the file, and `WriteFile`, which writes from its start. `Kill` is the end of a process,
also between the two; `Redeploy` a new start with another `AMO_LOGIN`, at most
`MaxRedeploys` times. Two cookies stand for all: the session and `last_login`. `SignIn` and
`Expire` are amoCRM's; a job whose cookies are of no session is shown the login form.

### LeadParse

`getLead` reads the card in the order of its calls, `StoreUserIds`, `ParseMainFields`,
`ParseCompanyFields`, `ParseContactFields`, `ParseMessages`; `sendMessage` the first and the
last, for the last feed only. Each is one call that runs on the page without interruption,
and feeds arrive (`FeedArrives`) or another job stores its ids (`OtherJobStores`) between any
two of them. `ResolveAuthors` is the loop at the end of `parseMessages` and the `return`: no
await is left between them. Which exceptions the DOM code can throw is the point of
`FieldThrows` and `FeedThrows`. Texts are what `trim()` leaves of them; ids are those of the
page, some of which are numbers, as lodash's `isEmpty` and `Number() === Number()` tell them
apart. A contact id is resolved by the ids of the chat constant in its own order of keys;
where several users have it the model leaves open which one is last. An id
that is a number is one that `isEmpty()` takes for nothing: a contact id listed as a number is
passed over, and the author's own id stands in its place. `AuthorsMatchIds` names that case.

### RelativeDate

An instant is a number of quarter hours, a day its number, a calendar an offset. `Word` is
what amoCRM shows of a feed, on its own calendar, when it renders the page; `DayOf` what the
code makes of it: 'today' becomes the UTC day of the clock, 'yesterday' that of the
clock set back by one *local* day, which is an hour longer or shorter when the clocks were
moved (`shift`), and any other date stands. `ParseDate` is one round of the loop, `Wait` the
time that passes in between and before.

### UsersMigration

The transaction of `up` contains none of its calls, as the session is passed to none, so
`List`, `Create`, `Find` and `Insert` interleave freely between processes and with
`InitCollection` and `InitIndex`, by which mongoose creates the collection and the index
from the schema. MongoDB is external: a second `createCollection` fails, an insert that
would violate the index fails, an index over duplicates is not built. The hash is part of
`Insert` (no shared state is touched between them). `Kill` is the end of the process for
another reason, bounded by `MaxKills`.

### TokenRefresh

`Find` reads the user and checks what was presented, `Sign` is `getTokens`, `Update` the
write by id, `Answer` the response. Calls run in any process, so every order of their
steps is possible, and `Lose` ends a call with its process. Users are never deleted by
this code, so "Cannot update user" has no action. A token is named by the call that
signed it.

## 3. Runs

| Run | Instance | Question | Result |
|---|---|---|---|
| `message_jobs` | 2 `sendMessage` jobs, 2 leads, `chat` with a chat id and a message of two keys, `email` with one key of a theme and one of a message, the page of the second may refuse | what can leak between jobs, when is something sent, is each key sent at most once and in order | holds, 1.5 million states; `PuppeteerService` implements `MessageDelivery` |
| `message_claim` | the same | README: the message goes to `leadId` | violated |
| `lead_jobs` | `getLead` and `getLeadSources`, 2 leads, login form on one page, inner frames on the other | what can leak into a result; is the invariant of the proofs true; do jobs end | holds, 0.35 million states |
| `lead_claim` | the same | README: the messages are those of `:leadId` | violated |
| `task_reporting` | 3 tasks, one of each kind, 2 processes, any placement, ended by jobs, listeners or from outside | reports, leaks, finality, progress | holds, 0.6 million states |
| `cookie_file` | 2 processes, 3 jobs, 2 logins, one change of login, symmetric | whose session a browser gets; when does the file break for good | holds |
| `save_claim` | the same, `AMO_SAVE_SESSION=false` | configuration: no session is saved then | violated |
| `lead_parse` | cards with every shape of a field, feed, author and chat constant, up to 3 feeds | is anything lost or left without an author | holds, 0.3 million states |
| `relative_date` | every hour of a day, 5 time zones from -5:00 to +13:00, moved clocks, up to 2 feeds, 45 minutes | how wrong is `dateIso`, is it in order | holds |
| `users_migration` | 3 processes, 2 kills | the first start | holds, 41 thousand states |
| `token_refresh` | 2 sign-ins, 3 refreshes, symmetric | accepted, held and lost tokens | holds, 7 thousand states |
| `refresh_claim` | the same | README: the current refresh token is passed | violated |

Why the bounds are enough. Two jobs are what an overwritten field needs: one whose field
it is and one that overwrites it; both orders of start, full overlap, and one after the
other are all reachable. A third job adds no new kind of step, and the proofs cover any
number. Two keys are what a message needs to be clicked for in the middle, with a part sent and a
part still to be typed, and one key what a theme needs to go astray into the message; the proofs
cover any `Length`. The jobs are of one module's methods because `LeadsModule` and `MessageModule`
each have a `PuppeteerService` of their own. Two processes are enough for one to die
while the other goes on, and for two jobs to share a process. Three processes are enough
for two duplicates and a late index. Three refreshes are enough for two on the same token
and one on a token replaced since. Two processes and three jobs are enough for a write of
one process around that of another, a reader in the middle, and a job after both; one
change of login is enough for a file of the other user. In `lead_parse` the shapes are
exhaustive and looked at one by one, as no field or feed depends on another; the second and
third feed are there to arrive. In `relative_date` the page is rendered a quarter before each
hour and 45 minutes are enough to cross midnight on every one of the calendars; two feeds are
enough for an order, and the proof covers any number, up to two hours. Jobs, tasks and calls
are consumed; `MaxKills`, `MaxRedeploys`, `MaxFeeds` and `MaxDelay` are the bounds of their
own.

The jobs of `message_jobs` have no login form: what a login does to the shared state is in
`lead_jobs`, and the theorems cover both methods with any pages.

Deadlock is not checked, as all of these systems stop when their requests are used up.

What some of the passing runs show, beyond that nothing is wrong:

* `message_jobs`: a job alone has its whole message accepted in one entry, but with two jobs on one
  page entries with a part of a message, and with keys of both, are reachable. That nothing is
  doubled all the same (`ImplementsDelivery`) is due to `type()` pressing each key once and to the
  field being emptied by what is sent.
* `task_reporting`: `LeaksAreSwallowedErrors` names the jobs that leave a browser: those of `getLead`
  whose error was swallowed, and those whose process was killed from outside.
* `users_migration`: `UniqueOrNeverIndexed` says how a first start ends: with unique logins, or with
  duplicates that keep every later start from building the index, while all processes listen.
* `token_refresh`: `LostLocksOut` says what it costs when a process ends between storing a token and
  answering: no refresh is let through until somebody signs in again.
* `cookie_file`: the file is not safe, and `BreaksByARace` says when: only if two processes
  write at once, or one is killed in the middle. `StuckForGood` says what then follows: once
  no page is open any more, every later job fails, in any process and after any restart,
  until somebody deletes the file. Whatever happens to it, `SessionsAreOfTheLogin` holds.
* `lead_parse`: an input without a value, a call's header in fewer parts than its template
  has, or a `sendMessage` on a card without feeds fails the whole job (`AllOrNothing`).
  `TextIsShown` names the one case where a text is hidden: an own element that is there but
  blank, of a note, an SMS or a changed field.
* `relative_date`: `dateIso` may be off by a day in either direction (`OffByAtMostOne`), around
  midnight and wherever the page's calendar is not UTC's; it is never out of order.

What the violated runs show:

* `message_claim`: `m2` starts while `m1` is between two awaits; `applyDefaultActions` sets
  `this.frame` to `m2`'s page, and `m1` chooses, types and clicks there.
* `lead_claim`: the same with `getLead` and `getLeadSources`: the fields or the chat
  sources come from the other lead's page, or the user ids from the other's constant.
* `save_claim`: `saveSession` of `configuration.ts` is `(...) || true`, and `isBoolean` of the
  string that `toLower` returns is false anyway.
* `refresh_claim`: two refreshes present the same current token, both pass the check, and
  the second to update replaces the token of the first, which was answered in between.

## 4. Fairness

Safety properties assume none. `JobsEnd` assumes weak fairness of two things: `Timeout`, the
timer of the cluster, and `Unblock`, the rejection of a call whose page is closed, which
puppeteer does when the connection ends. Nothing is assumed of amoCRM: a page may never load,
a feed never show up, and the navigation that `waitForNavigation()` waits for may already be
over. `TaskReporting` assumes weak fairness of `Launch` and `Execute`,
as both library calls have a time limit, and of `Fork`, as the master forks in the `exit`
handler. It assumes none of `Close`, `PostResult`, `Excuse` and `Reject`: neither
`cluster.close()` nor `axios.post` has a limit here, so a job may well stay there for ever,
and `TasksGetPastTheBrowser` is all that can be promised. `UsersMigration` assumes weak
fairness of the fork, of each process's migration and of mongoose's initialisation of the model: the
database answers every call, and mongoose makes its calls by itself.

## 5. Proofs

Every theorem is `Spec => ...`, or `Spec /\ hypothesis => ...` where the text says so, for
arbitrary constants, under the named assumption of the module: `JobsAssumption` (the kinds, leads and sources of the jobs are what they are, and
`None` is none of them), `TasksAssumption`, `MaxKillsAssumption`, `CallsAssumption`,
`FileAssumption` (the marks of an absent or broken file are not cookies), `PageAssumption`
(what a page may show), `CalendarAssumption` (time zones are from -12:00 to +14:00, clocks are
moved by an hour at most, a page is parsed within two hours: the limit of a job is one).

* `PuppeteerServiceProofs`. `TypeCorrect` is proved with `LoadedInv` (a page that shows a
  document was told to open a lead), without which the data of a page need not be that of a
  lead. `Invariance` proves `IInv`. Why it is needed: `ResultsStayInPeriod` alone
  says nothing of what a running job can still read. `PageInv` says that an open page, its
  url, its draft and its chosen source belong to running jobs of the current period;
  `IdsInv` that a job past `StoreUserIds` finds ids of its period; `PeriodInv` that running
  jobs are of the current period, so that a new period begins with nothing of the old one.
  `SoloInv` says that a job that is alone is on its own page, with its own choice of source up to the
  click; that the field of its page holds nothing but keys of its own message, and from the choice of a
  source on exactly those it has pressed, which needs that it keeps the focus while it types; and
  that its message was accepted, refused or empty after the click. `KeysInv` says how many keys a job
  has pressed at each await, and that what is in a field or was sent had been pressed. From `IInv`
  follow `ResultsIsolated`, `MessagesIsolated`, `AnswersAreTrue`; `NothingAfterVerdict` adds
  the step: only `ClickSend` extends the outbox, it needs a page that shows a lead, and
  an open page means a pending verdict.
* `MessageDeliveryProofs`. `DeliveryImplemented` is the refinement, by `DeliveryInv` under `IInv`: a key is in
  one field at most and not yet sent; the keys of one message that are in a field are all in the same one,
  which is that where its job is typing. Most steps are shown to be *quiet* (no key is pressed, nothing
  is sent, some fields may lose keys), which is a `Lose` of `MessageDelivery` or a stutter (`QuietLoses`);
  `PressKey` is its `Press`, a `ClickSend` that is taken its `Post`. That `Post` leaves no earlier key
  behind is where the two halves of the invariant meet: such a key in a field would be in the one that is
  sent (`DeliveryInv`), and one still to be pressed would have a higher number (`KeysInv`).
* `CookieFileProofs`. `LoginInv` strengthens `SessionsAreOfTheLogin`: besides the browsers, every
  listener's collection and every write in progress is of the login, and a session in the file,
  of whatever login, comes with a `last_login` of the same user, so that the check of
  `loadCookies` is enough. `RaceInv`: without a race one process at a time is between its open
  and its write, and only it has emptied the file. `OnlyTheLogin`, `OnlyRacesBreak`; `NoWayBack`
  is the action property.
* `LeadParseProofs`. `MessagesInv` ties each message to a feed on the page, and after the loop to
  the ids of the result. `TextsAreShown`, `AuthorsAreComplete`, `AuthorsAreListed` follow from
  what `ParseFeed` and `Resolve` make of one feed, for every card. `PartsInv` says which parts
  of the card are in the result at each step, and how many of the feeds; `Completeness`
  (`AllOrNothing`) follows.
* `RelativeDateProofs`. The days made of 'today' so far lie between that of the rendering and
  that of now, those of 'yesterday' between the same a local day earlier, and they are in order.
  `AtMostOneDay`, `OrderPreserved`, `RightByDay`.
* `TaskReportingProofs`. The invariant is stated per task (`TaskInv`); a step of a task keeps
  that of the others (`StepInv`), the end of a process is argued once (`DieInv`). `PhaseInv`
  is the strengthening: nothing is posted before `posting`, and a success only after the
  browser is closed. `Reporting`, `ResolvedAreReported`, `Cleanup` and `Finality` follow.
* `UsersMigrationProofs`. The strengthening is that a process about to insert has not
  inserted yet: it found no user at all, and nobody inserts for it. `MigrationIsSafe`.
* `TokenRefreshProofs`. The strengthening says where the call of a stored token is, and that
  a refresh in flight whose token is the current one is in the history set `current`.
  `RefreshesWereCurrent`, `TokensAreHeld`, `ReplacedTokens`. `LossesLockOut`: what is presented was
  answered, so it is not the token of a lost call.

### What would make the claims true

Four runs refute what the README or the configuration says of the program, and three hazards
(the broken `cookies.json`, the duplicated user, the late message) are reachable. The theorems below
say what has to be added for these claims to hold, all but that of `save_claim`, which is wrong in
every behaviour that saves, and for the hazards to be gone. Their
hypotheses are stated in the proof modules, as restrictions of the behaviours of the same
`Spec`; TLC was used on the instances of section 3 to see that each is met by behaviours in which
the interesting steps happen, and that without it the conclusion fails.

| Theorem | Hypothesis | Then |
|---|---|---|
| `OneAtATimeIsSafe`, `OneAtATimeInTime` | `OneAtATime`: a job begins only when no task function of its service runs, not even one that its cluster has given up | every result is of its lead, every entry is the whole message of one request, for its lead and through its source, an answer means that it was accepted unless amoCRM refused it, and nothing is sent after the caller knows the outcome |
| `AfterReportsOwn` | `AfterReports`: a job begins only when the outcome of every earlier one is known | a job that completed holds data of its lead only; a key that reaches another lead is of a message whose request had been reported as failed |
| `AfterReportsInTime` | `AfterReports`, and `InTime`: no task function runs on after its cluster gave it up | both claims, as under `OneAtATime` |
| `ExclusiveRefresh` | `Exclusive`: one call at a time is between its check and its update | a refresh replaces the token it was sent with; no token is exchanged twice |
| `OneInsertsNoDuplicate` | `OneInserts`: one process at a time is between `find()` and `insertOne()` | the default user is never duplicated |
| `LockedWritesParse` | `OneWriter`, `Finishes`: one process at a time is in `writeFileSync`, and is not killed there | `cookies.json` parses whenever nobody is writing it; no job is ever stuck on it |

The first three rows are of practical use, as a client can choose to wait. To wait for the outcome is not enough:
`puppeteer-cluster` rejects a job at its time limit but cannot stop its task function, which goes
on and types into the page of the next job, as `this.frame` is by then the next job's. So
`MessageReachesItsLead` fails under `AfterReports` alone, and `AfterReportsOwn` says exactly how
far it fails. Its invariant, `OwnInv`, is that one job is pending (`OnePending`), that only its page
is open and that page shows only its lead (`OwnUrl`), and that any key in a field that is another job's is of one
already told that it failed (`OwnDraft`). Under `OneAtATime` every job is the only one
of its busy period (`StartedApart`), and `IInv`, which bounds by the busy period what a job reads and
sends, gives the rest.

`ExclusiveInv` adds to `IInv` that the check still holds at the update and that what was exchanged is
in the past. `FindHolds` is the premise of `insertOne()`. `OneWriter` and `Finishes` leave only
`WriteFile` to end a write, whose result parses.

Four more results have no hypothesis. `EachSentOnce` and `FateIsFinal` are consequences of the
contract that reach the code through the refinement: no key is in two entries, so that what
two entries hold of one message are different parts of it, and a key that was lost is neither typed
nor sent later. `JobsAreNotRetried`: the phases of a job only advance, whichever
processes die. `SettledForGood`: once a user and the collection exist and no process is about
to create either, `up()` inserts nothing and ends no process, in any later start.

### What is not proved

Only model-checked: the liveness properties (`JobsEnd`, `TasksGetPastTheBrowser`,
`EveryWorkerListens`, `UniqueOrNeverIndexed`). They rest on fairness and so on ENABLED, which is beyond
the prover. `SettledForGood` is the safety half of `EveryWorkerListens`. Every invariant and every
other action property of a passing run is stated by a theorem.

## 6. Not modelled

* Links, attachments, addresses of mails and calls, and names of linked contacts: they are
  copied from the page as they stand, and no state or control depends on them.
* `trimRegex`: which white space is left inside a text.
* Access tokens and guards: stateless checks of a signature by a library.
* Controllers, DTOs, modules, and the rest of the configuration: wiring. The one fact used is
  that `LeadsModule` and `MessageModule` have a `PuppeteerService` each.
* The worker pool: stateless hashing and random strings; its calls are awaits of the models.
* The keys of the login form: `authorise()` fills it in one step (`Submit`), so that keys of a job that go
  astray into the form, or the other way round, are not seen. Nothing typed there is sent as a message.
* The click and the focus() of `type()` as two steps, and the Enter key of a text of several lines, which
  amoCRM may take for a click on send in the middle of the text.
* Which of the two message fields of a page, `feedFieldMessage` or `feedFieldMessage2`, holds a key: a page
  has one message field in the model.
* Ends of a process from outside in `PuppeteerService`: they leave the state that `Rethrow` and
  `LoadListenerFails` leave, apart from browsers that nobody drives any more. `TaskReporting` has them.
* A bound on how many jobs run at once: the code has none.
* `down()` of the migration and the `taskerror` listeners, which are never called: the latter
  belong to `cluster.queue()`, which this code does not use.
* The composition of `PuppeteerService` and `TaskReporting` in one state space: they meet in the
  outcome of a task function and in the end of the process, which each has as actions of its
  own (`Rethrow`, `LoadListenerFails` and `Timeout` there, `Execute` and `ListenerFails` here).

The components and the reasons are also in `PROJECT.json`.
