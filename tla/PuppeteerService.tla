-------------------------- MODULE PuppeteerService --------------------------
(***************************************************************************)
(* One PuppeteerService object of one server process, and the jobs that    *)
(* its QueueService starts on it.  Each job is an async function that owns *)
(* a browser with one page, but reaches that page through the fields       *)
(* `this.frame`, `this.isAuth` and `this.amoUsersIds` that every job on    *)
(* the object shares.                                                      *)
(*                                                                         *)
(* Node runs a function to completion between two awaits on I/O or timers, *)
(* so one action is one such segment: it needs the job's pending call to   *)
(* be answered, runs up to the next await, and issues the next call on the *)
(* page `this.frame` belongs to at that moment (`on`).  A page is named by *)
(* the job whose browser it lives in.                                      *)
(*                                                                         *)
(* ElementHandle.type() is an await for every key: it goes to whatever has *)
(* the focus of the page by then.  A key is named by its job and number.   *)
(***************************************************************************)
EXTENDS Naturals, Sequences

CONSTANTS
  Jobs,       \* the requests accepted by this object, and their pages
  Leads,      \* amoCRM lead ids
  Kind,       \* [Jobs -> the public method the job runs]
  LeadOf,     \* [Jobs -> the lead asked for]
  SourceOf,   \* [Jobs -> messageType of the request]
  Addressed,  \* the jobs whose request carries a chatId
  Length,     \* bound: the keys of a request, those of its messageTheme first
  Subject,    \* [Jobs -> how many of them are of the messageTheme]
  LoggedOut,  \* the pages on which amoCRM may show its login form
  Framed,     \* the pages that load inner documents after their own
  Refusing,   \* the pages on which amoCRM may not take what is sent
  None        \* null / undefined

Kinds   == {"getLead", "getLeadSources", "sendMessage"}
Sources == {"chat", "email", "note"}

ASSUME JobsAssumption ==
  /\ Kind \in [Jobs -> Kinds]
  /\ LeadOf \in [Jobs -> Leads]
  /\ SourceOf \in [Jobs -> Sources]
  /\ Addressed \subseteq Jobs
  /\ Length \in Nat
  /\ Subject \in [Jobs -> 0..Length]
  /\ LoggedOut \subseteq Jobs
  /\ Framed \subseteq Jobs
  /\ Refusing \subseteq Jobs
  /\ None \notin Jobs
  /\ None \notin Leads

VARIABLES
  frame,       \* this.frame: the page it is a frame of
  inner,       \* this.frame is not the main frame of that page
  isAuth,      \* this.isAuth
  amoUsersIds, \* this.amoUsersIds: the lead it was parsed from
  pc,          \* the await each job is suspended at
  on,          \* the page that pending call was issued on
  focused,     \* jobs whose field nobody took the focus from by a click
  field,       \* handle of the field to type into: its page, None once stale
  button,      \* handle of the send button: its page, None once stale
  verdict,     \* what cluster.execute() told the caller of the job
  read,        \* the leads whose data is in the job's result
  answered,    \* sendMessage jobs whose result carries a message
  view,        \* what each page shows
  url,         \* the lead each page was last told to open
  chosen,      \* the job that chose source and recipient in the composer
  keys,        \* how many keys each job has pressed or passed over
  draft,       \* the keys in the message field of each page
  outbox,      \* messages amoCRM accepted, in order
  listening,   \* pages with our 'load' and 'request' listeners
  probing,     \* pages on which authorise() is looking for the login form
  typing,      \* pages on which authorise() is filling the login form
  crashed,     \* an unhandled rejection ended the process
  period,      \* history: the busy period each job was started in
  now           \* history: number of busy periods so far

service  == <<frame, inner, isAuth, amoUsersIds>>
control  == <<pc, on, focused>>
handles  == <<field, button>>
results  == <<verdict, read, answered>>
composer == <<chosen, keys, draft, outbox>>
pages    == <<view, url, listening>>
events   == <<probing, typing, crashed>>
history  == <<period, now>>

vars == <<service, control, handles, results, composer, pages, events, history>>

-----------------------------------------------------------------------------
(* The awaits.  "queued" and "done" are before and after the task function. *)

Awaits == {"cookies", "goto", "settle", "navigation", "landed", "feeds",
           "scroll", "chats", "constant", "expand", "unfold",
           "fields", "company", "contacts", "messages",
           "available", "switcher", "target", "recipient", "chatList",
           "contact", "theme", "subject", "compose", "message", "editor",
           "button", "text", "filled", "sent", "reload", "renavigation",
           "relanded", "last", "innerNavigation", "innerRenavigation"}

PCs == Awaits \cup {"queued", "done"}

Views   == {"none", "blank", "loading", "login", "lead", "closed"}
Settled == {"blank", "login", "lead"}
Alive   == Settled \cup {"loading"}

Keys     == Jobs \X (1..Length)
Delivery == [text : SUBSET Keys, lead : Leads, via : Jobs \cup {None}]

\* The message of a request.
Whole(j) == {j} \X (Subject[j] + 1 .. Length)

\* Every variable keeps its type: in particular a result holds leads, whatever
\* the page it was read from showed, and the outbox messages made of keys.
TypeOK ==
  /\ frame \in Jobs \cup {None}
  /\ inner \in BOOLEAN
  /\ isAuth \in BOOLEAN
  /\ amoUsersIds \in Leads \cup {None}
  /\ pc \in [Jobs -> PCs]
  /\ on \in [Jobs -> Jobs \cup {None}]
  /\ focused \subseteq Jobs
  /\ field \in [Jobs -> Jobs \cup {None}]
  /\ button \in [Jobs -> Jobs \cup {None}]
  /\ verdict \in [Jobs -> {"pending", "ok", "failed"}]
  /\ read \in [Jobs -> SUBSET Leads]
  /\ answered \subseteq Jobs
  /\ view \in [Jobs -> Views]
  /\ url \in [Jobs -> Leads \cup {None}]
  /\ chosen \in [Jobs -> Jobs \cup {None}]
  /\ keys \in [Jobs -> 0..Length]
  /\ draft \in [Jobs -> SUBSET Keys]
  /\ outbox \in Seq(Delivery)
  /\ listening \subseteq Jobs
  /\ probing \subseteq Jobs
  /\ typing \subseteq Jobs
  /\ crashed \in BOOLEAN
  /\ period \in [Jobs -> Nat]
  /\ now \in Nat

Init ==
  /\ frame = None
  /\ inner = FALSE
  /\ isAuth = FALSE
  /\ amoUsersIds = None
  /\ pc = [j \in Jobs |-> "queued"]
  /\ on = [j \in Jobs |-> None]
  /\ focused = {}
  /\ field = [j \in Jobs |-> None]
  /\ button = [j \in Jobs |-> None]
  /\ verdict = [j \in Jobs |-> "pending"]
  /\ read = [j \in Jobs |-> {}]
  /\ answered = {}
  /\ view = [j \in Jobs |-> "none"]
  /\ url = [j \in Jobs |-> None]
  /\ chosen = [j \in Jobs |-> None]
  /\ keys = [j \in Jobs |-> 0]
  /\ draft = [j \in Jobs |-> {}]
  /\ outbox = <<>>
  /\ listening = {}
  /\ probing = {}
  /\ typing = {}
  /\ crashed = FALSE
  /\ period = [j \in Jobs |-> 0]
  /\ now = 0

-----------------------------------------------------------------------------
(* Helpers. *)

Running(j) == pc[j] \in Awaits

Shows(p, views) == p # None /\ view[p] \in views

\* The answer to a query issued on a page: it needs a page with a document,
\* and anything amoCRM puts on a lead card needs the card.
Answers(j, views) == Shows(on[j], views)

\* The awaits whose answer is clicked, and with them the focus may move.
Clicks == {"expand", "unfold", "switcher", "target", "recipient", "contact",
           "theme", "compose", "button", "filled"}

\* The jobs that still have the focus after a click on page p.
Blur(p) == {k \in focused : on[k] # p}

\* Run to the next await, whose call goes to page p.
ContinueOn(j, next, p) ==
  /\ pc' = [pc EXCEPT ![j] = next]
  /\ on' = [on EXCEPT ![j] = p]
  /\ focused' = (IF pc[j] \in Clicks THEN Blur(on[j]) ELSE focused) \ {j}

\* Run to the next await, whose call goes to this.frame.page().
Continue(j, next) == ContinueOn(j, next, frame)

\* The leads whose data a query on page p, or this.amoUsersIds, returns.
Content(p) == IF view[p] = "lead" THEN {url[p]} ELSE {}
IdsContent == IF amoUsersIds = None THEN {} ELSE {amoUsersIds}

\* Element handles go with the document of their page; the jobs in `ended`
\* have no variables to hold one.
DropHandles(p, ended) ==
  /\ field' = [k \in Jobs |-> IF k \in ended \/ field[k] = p THEN None ELSE field[k]]
  /\ button' = [k \in Jobs |-> IF k \in ended \/ button[k] = p THEN None ELSE button[k]]

\* Page p starts loading a document.
Navigate(p) ==
  /\ view' = [view EXCEPT ![p] = "loading"]
  /\ DropHandles(p, {})

\* Page p is closed, with its listeners and what was in its composer.
ClosePage(p, ended) ==
  /\ view' = [view EXCEPT ![p] = "closed"]
  /\ url' = [url EXCEPT ![p] = None]
  /\ listening' = listening \ {p}
  /\ chosen' = [chosen EXCEPT ![p] = None]
  /\ draft' = [draft EXCEPT ![p] = {}]
  /\ DropHandles(p, ended)

\* The task function of j ends; puppeteer-cluster closes the page and settles
\* the promise of execute(), unless its time limit did both before.
End(j, outcome) ==
  /\ pc' = [pc EXCEPT ![j] = "done"]
  /\ on' = [on EXCEPT ![j] = None]
  /\ focused' = focused \ {j}
  /\ ClosePage(j, {j})
  /\ verdict' = [verdict EXCEPT ![j] = IF @ = "pending" THEN outcome ELSE @]

Return(j, data) ==
  /\ End(j, "ok")
  /\ read' = [read EXCEPT ![j] = @ \cup data]
  /\ UNCHANGED <<service, keys, outbox, events, history>>

\* The process ends: its memory and its browsers are gone.
Crash ==
  /\ crashed' = TRUE
  /\ frame' = None
  /\ inner' = FALSE
  /\ isAuth' = FALSE
  /\ amoUsersIds' = None
  /\ pc' = [j \in Jobs |-> IF Running(j) THEN "done" ELSE pc[j]]
  /\ on' = [j \in Jobs |-> None]
  /\ focused' = {}
  /\ field' = on'
  /\ button' = on'
  /\ view' = [p \in Jobs |-> IF view[p] = "none" THEN "none" ELSE "closed"]
  /\ url' = on'
  /\ listening' = {}
  /\ chosen' = on'
  /\ draft' = [p \in Jobs |-> {}]
  /\ probing' = {}
  /\ typing' = {}
  /\ UNCHANGED <<results, keys, outbox, history>>

-----------------------------------------------------------------------------
(* Opening the lead card: the same prelude in the three public methods. *)

\* The cluster hands the task a fresh page; applyDefaultActions() points
\* this.frame at it and asks for the saved cookies to be set.  createJob()
\* calls the job at once, so nothing waits for other jobs to end.
Start(j) ==
  /\ ~crashed
  /\ pc[j] = "queued"
  /\ view' = [view EXCEPT ![j] = "blank"]
  /\ frame' = j
  /\ inner' = FALSE
  /\ pc' = [pc EXCEPT ![j] = "cookies"]
  /\ on' = [on EXCEPT ![j] = j]
  /\ now' = IF \E k \in Jobs : Running(k) THEN now ELSE now + 1
  /\ period' = [period EXCEPT ![j] = now']
  /\ UNCHANGED <<isAuth, amoUsersIds, focused, url, listening, handles,
                 results, composer, events>>

\* The rest of applyDefaultActions() (onLoad(), onRequest()) and the goto().
OpenLead(j) ==
  /\ pc[j] = "cookies"
  /\ Answers(j, Alive)
  /\ Shows(frame, Alive)
  /\ listening' = listening \cup {frame}
  /\ Navigate(frame)
  /\ url' = [url EXCEPT ![frame] = LeadOf[j]]
  /\ Continue(j, "goto")
  /\ UNCHANGED <<service, results, composer, events, history>>

\* goto() resolves; sleep(3000).
Opened(j) ==
  /\ pc[j] = "goto"
  /\ Answers(j, Settled)
  /\ Continue(j, "settle")
  /\ UNCHANGED <<service, handles, results, composer, pages, events, history>>

\* `if (this.isAuth) await this.frame.waitForNavigation(...)`: the navigation
\* of that frame, which may be an inner one.
CheckAuth(j) ==
  /\ pc[j] = "settle"
  /\ Continue(j, IF ~isAuth THEN "feeds"
                 ELSE IF inner THEN "innerNavigation" ELSE "navigation")
  /\ UNCHANGED <<service, handles, results, composer, pages, events, history>>

\* waitForNavigation() was resolved by the page arriving, or by an inner
\* document.
Landed(j) ==
  /\ pc[j] \in {"innerNavigation", "innerRenavigation"} =>
       on[j] \in Framed /\ Answers(j, Settled)
  /\ \/ pc[j] \in {"landed", "innerNavigation"} /\ Continue(j, "feeds")
     \/ pc[j] \in {"relanded", "innerRenavigation"} /\ Continue(j, "last")
  /\ UNCHANGED <<service, handles, results, composer, pages, events, history>>

\* Awaits that only read a page and move on: <<from, to, pages that allow it>>.
Hops(kind) ==
  CASE kind = "getLead" ->
         { <<"feeds", "scroll", {"lead"}>>,
           <<"scroll", "scroll", Settled>>,      \* do { } while (feedCreated === null)
           <<"scroll", "chats", {"lead"}>>,
           <<"chats", "constant", {"lead"}>>,
           <<"expand", "unfold", Settled>>,
           <<"unfold", "unfold", Settled>>,      \* do { } while (moreBtns.length > 0)
           <<"unfold", "fields", Settled>> }
    [] kind = "getLeadSources" ->
         { <<"feeds", "chats", {"lead"}>>,
           <<"chats", "constant", {"lead"}>>,
           <<"switcher", "target", {"lead"}>>,
           <<"recipient", "chatList", {"lead"}>> }
    [] kind = "sendMessage" ->
         { <<"feeds", "chats", {"lead"}>>,
           <<"chats", "constant", {"lead"}>>,
           <<"expand", "available", Settled>>,
           <<"available", "switcher", {"lead"}>>,
           <<"switcher", "target", {"lead"}>>,
           <<"recipient", "contact", {"lead"}>>,
           <<"recipient", "compose", Settled>>,  \* no recipient selector shown
           <<"theme", "compose", Settled>>,      \* no field for the subject
           <<"compose", "message", {"lead"}>> }

HopsFrom == [kind \in Kinds |-> [at \in PCs |-> {h \in Hops(kind) : h[1] = at}]]

Hop(j) ==
  /\ \E h \in HopsFrom[Kind[j]][pc[j]] :
       /\ Answers(j, h[3])
       /\ Continue(j, h[2])
  /\ UNCHANGED <<service, handles, results, composer, pages, events, history>>

\* Mutant: a page without the constant leaves this.amoUsersIds as it is.
KeepUserIds(j) ==
  /\ pc[j] = "constant"
  /\ Answers(j, Settled)
  /\ \E ids \in Content(on[j]) \cup {amoUsersIds} : amoUsersIds' = ids
  /\ Continue(j, IF Kind[j] = "getLeadSources" THEN "available" ELSE "expand")
  /\ UNCHANGED <<frame, inner, isAuth, handles, results, composer, pages, events,
                 history>>

\* parseAmoChatConstantUserIds() returns; a page without the constant, or
\* with one that does not parse, yields empty lists.
StoreUserIds(j) ==
  /\ pc[j] = "constant"
  /\ Answers(j, Settled)
  /\ \E ids \in Content(on[j]) \cup {None} : amoUsersIds' = ids
  /\ Continue(j, IF Kind[j] = "getLeadSources" THEN "available" ELSE "expand")
  /\ UNCHANGED <<frame, inner, isAuth, handles, results, composer, pages, events,
                 history>>

-----------------------------------------------------------------------------
(* getLead(): the four parse functions, each on this.frame's page. *)

NextPart == [fields |-> "company", company |-> "contacts", contacts |-> "messages"]

\* Mutant: a page is taken for the card of the lead it was told to open.
ParseAnyPage(j) ==
  /\ pc[j] \in DOMAIN NextPart
  /\ Answers(j, Settled)
  /\ read' = [read EXCEPT ![j] = @ \cup {url[on[j]]}]
  /\ Continue(j, NextPart[pc[j]])
  /\ UNCHANGED <<service, handles, verdict, answered, composer, pages, events, history>>

ParseFields(j) ==
  /\ pc[j] \in DOMAIN NextPart
  /\ Answers(j, Settled)
  /\ read' = [read EXCEPT ![j] = @ \cup Content(on[j])]
  /\ Continue(j, NextPart[pc[j]])
  /\ UNCHANGED <<service, handles, verdict, answered, composer, pages, events, history>>

\* parseMessages() resolves authors with amoUsersIds; the result carries both.
ReturnLead(j) ==
  /\ pc[j] = "messages"
  /\ Answers(j, Settled)
  /\ Return(j, Content(on[j]) \cup IdsContent)
  /\ UNCHANGED answered

-----------------------------------------------------------------------------
(* getLeadSources(): parseLeadSources(). *)

\* The list of sources is read: without a chat source it is the result.
ReturnSources(j) ==
  /\ pc[j] = "available"
  /\ Kind[j] = "getLeadSources"
  /\ Answers(j, Settled)
  /\ Return(j, Content(on[j]))
  /\ UNCHANGED answered

ReadSources(j) ==
  /\ pc[j] = "available"
  /\ Kind[j] = "getLeadSources"
  /\ Answers(j, {"lead"})
  /\ read' = [read EXCEPT ![j] = @ \cup Content(on[j])]
  /\ Continue(j, "switcher")
  /\ UNCHANGED <<service, handles, verdict, answered, composer, pages, events, history>>

\* `return false` from the switcher, or no recipient selector: no chat list.
ReturnWithoutChats(j) ==
  /\ Kind[j] = "getLeadSources"
  /\ pc[j] \in {"switcher", "target", "recipient"}
  /\ Answers(j, Settled)
  /\ Return(j, {})
  /\ UNCHANGED answered

ReturnChats(j) ==
  /\ pc[j] = "chatList"
  /\ Answers(j, Settled)
  /\ Return(j, Content(on[j]))
  /\ UNCHANGED answered

-----------------------------------------------------------------------------
(* sendMessage(): sendMessageToLead(), reload, last message. *)

\* Mutant: the source that amoCRM preselects is taken.
TakePreselected(j) ==
  /\ pc[j] = "target" /\ Continue(j, "compose")
  /\ Answers(j, {"lead"})
  /\ UNCHANGED <<service, handles, results, composer, pages, events, history>>

\* The source of the request, then its chat, is clicked in the composer.
ChooseSource(j) ==
  /\ \/ /\ pc[j] = "target"
        /\ Continue(j, IF \/ Kind[j] = "getLeadSources"
                          \/ SourceOf[j] = "chat" /\ j \in Addressed
                       THEN "recipient"
                       ELSE IF SourceOf[j] = "email" /\ Subject[j] > 0
                       THEN "theme" ELSE "compose")
     \/ /\ pc[j] = "contact"
        /\ Continue(j, "compose")
  /\ Answers(j, {"lead"})
  /\ chosen' = [chosen EXCEPT ![on[j]] = j]
  /\ UNCHANGED <<service, handles, results, keys, draft, outbox, pages, events,
                 history>>

\* finalField = feedFieldMessage2 ? feedFieldMessage2 : fieldMessage.
FindField(j) ==
  /\ Answers(j, Settled)
  /\ \/ pc[j] = "message" /\ Continue(j, "editor")
     \/ pc[j] = "editor" /\ Continue(j, "button")
  /\ \/ view[on[j]] = "lead" /\ field' = [field EXCEPT ![j] = on[j]]
     \/ UNCHANGED field
  /\ UNCHANGED <<service, button, results, composer, pages, events, history>>

\* The field for the subject, and then that for the message, are clicked three
\* times to select what they hold: page p has the focus of j in it from now on.
Focus(j, next, p) ==
  /\ pc' = [pc EXCEPT ![j] = next]
  /\ on' = [on EXCEPT ![j] = p]
  /\ focused' = Blur(p) \cup {j}
  /\ field' = [field EXCEPT ![j] = p]

ClickSubject(j) ==
  /\ pc[j] = "theme"
  /\ Answers(j, {"lead"})
  /\ Focus(j, "subject", on[j])
  /\ UNCHANGED <<service, button, results, composer, pages, events, history>>

ClickField(j) ==
  /\ pc[j] = "button"
  /\ Answers(j, {"lead"})
  /\ Shows(field[j], {"lead"})
  /\ Focus(j, "text", field[j])
  /\ button' = [button EXCEPT ![j] = on[j]]
  /\ keys' = [keys EXCEPT ![j] = Subject[j]]
  /\ UNCHANGED <<service, results, chosen, draft, outbox, pages, events, history>>

\* The first keys of a request are the subject's, which is typed first.
LastKey(j) == IF pc[j] = "subject" THEN Subject[j] ELSE Length

\* The focus is where the last click of j put it.
Focused(j) == j \in focused /\ field[j] # None

\* What a key leaves of the message field of page p: it replaces what is
\* selected, by the clicks of j before its first key or by those of others.
Kept(j, p) ==
  IF Focused(j) /\ keys[j] > Subject[j] THEN {draft[p]} ELSE SUBSET draft[p]

\* Mutant: a key that does not get into the field is pressed again.
PressKeyAgain(j) ==
  /\ pc[j] \in {"subject", "text"}
  /\ Answers(j, Alive)
  /\ keys[j] < LastKey(j)
  /\ \/ keys' = [keys EXCEPT ![j] = @ + 1]
     \/ UNCHANGED keys
  /\ LET p == on[j]
     IN  \/ /\ view[p] = "lead"
            /\ pc[j] = "text" \/ ~Focused(j)
            /\ \E kept \in Kept(j, p) :
                 draft' = [draft EXCEPT ![p] = kept \cup {<<j, keys[j] + 1>>}]
         \/ /\ pc[j] = "subject" \/ ~Focused(j)
            /\ UNCHANGED draft
  /\ UNCHANGED <<service, control, handles, results, chosen, outbox, pages, events,
                 history>>

\* type(): one key, into the message field if that has the focus, or into the
\* subject or nowhere; a page that is closed is the end of it.
PressKey(j) ==
  /\ pc[j] \in {"subject", "text"}
  /\ Answers(j, Alive)
  /\ keys[j] < LastKey(j)
  /\ keys' = [keys EXCEPT ![j] = @ + 1]
  /\ LET p == on[j]
     IN  \/ /\ view[p] = "lead"
            /\ pc[j] = "text" \/ ~Focused(j)
            /\ \E kept \in Kept(j, p) :
                 draft' = [draft EXCEPT ![p] = kept \cup {<<j, keys'[j]>>}]
         \/ /\ pc[j] = "subject" \/ ~Focused(j)
            /\ UNCHANGED draft
  /\ UNCHANGED <<service, control, handles, results, chosen, outbox, pages, events,
                 history>>

\* Mutant: the button is not clicked.
TypedOnly(j) ==
  /\ pc[j] = "text"
  /\ keys[j] = Length
  /\ Continue(j, "sent")
  /\ UNCHANGED <<service, handles, results, composer, pages, events, history>>

\* type() resolves; the field is looked for, or after sleep(3000) the button
\* that was found before is clicked.
Typed(j) ==
  /\ keys[j] = LastKey(j)
  /\ \/ pc[j] = "subject" /\ Continue(j, "compose")
     \/ pc[j] = "text" /\ ContinueOn(j, "filled", button[j])
  /\ field' = [field EXCEPT ![j] = None]
  /\ UNCHANGED <<service, button, results, composer, pages, events, history>>

\* Mutant: the entry is made of the page, whatever lead that was opened for.
ClickSendAnyPage(j) ==
  /\ pc[j] = "filled"
  /\ Shows(button[j], {"lead"})
  /\ outbox' = Append(outbox, [text |-> draft[button[j]], lead |-> button[j],
                               via |-> chosen[button[j]]])
  /\ draft' = [draft EXCEPT ![button[j]] = {}]
  /\ Continue(j, "sent")
  /\ UNCHANGED <<service, handles, results, chosen, keys, pages, events, history>>

\* The button is clicked: amoCRM takes what its page holds by then, or refuses
\* it.  The code does not look which.
ClickSend(j) ==
  /\ pc[j] = "filled"
  /\ Shows(button[j], {"lead"})
  /\ LET p == button[j]
     IN  \/ /\ draft[p] # {}
            /\ outbox' = Append(outbox, [text |-> draft[p], lead |-> url[p],
                                         via |-> chosen[p]])
            /\ draft' = [draft EXCEPT ![p] = {}]
         \/ /\ draft[p] = {} \/ p \in Refusing
            /\ UNCHANGED <<draft, outbox>>
  /\ Continue(j, "sent")
  /\ UNCHANGED <<service, handles, results, chosen, keys, pages, events, history>>

\* A step of sendMessageToLead() found nothing: `messages: []`.
ReturnNotSent(j) ==
  /\ Kind[j] = "sendMessage"
  /\ pc[j] \in {"available", "switcher", "target", "contact", "compose", "button"}
  /\ Answers(j, Settled)
  /\ Return(j, IdsContent)
  /\ UNCHANGED answered

Reload(j) ==
  /\ pc[j] = "sent"
  /\ Shows(frame, Alive)
  /\ Navigate(frame)
  /\ Continue(j, "reload")
  /\ UNCHANGED <<service, results, composer, url, listening, events, history>>

Reloaded(j) ==
  /\ pc[j] = "reload"
  /\ Answers(j, Settled)
  /\ Continue(j, IF ~isAuth THEN "last"
                 ELSE IF inner THEN "innerRenavigation" ELSE "renavigation")
  /\ UNCHANGED <<service, handles, results, composer, pages, events, history>>

\* parseMessages(true): without a feed element it throws, see Fail.
ReturnSent(j) ==
  /\ pc[j] = "last"
  /\ Answers(j, {"lead"})
  /\ Return(j, Content(on[j]) \cup IdsContent)
  /\ answered' = answered \cup {j}

-----------------------------------------------------------------------------
(* Failures. *)

\* A pending call rejects (closed page, lost context, per-call timeout) or
\* the code after it throws: the task function ends without a result.
Fail(j) ==
  /\ Running(j)
  /\ End(j, "failed")
  /\ read' = [read EXCEPT ![j] = {}]
  /\ UNCHANGED <<service, answered, keys, outbox, events, history>>

\* Mutant: the time limit leaves the page of the task open.
TimeoutOnly(j) ==
  /\ Running(j)
  /\ verdict[j] = "pending"
  /\ verdict' = [verdict EXCEPT ![j] = "failed"]
  /\ UNCHANGED <<service, control, handles, read, answered, composer, pages, events, history>>

\* The cluster's `timeout` for the task: execute() rejects and the page is
\* closed, but nothing stops the task function itself.
Timeout(j) ==
  /\ Running(j)
  /\ verdict[j] = "pending"
  /\ verdict' = [verdict EXCEPT ![j] = "failed"]
  /\ ClosePage(j, {})
  /\ UNCHANGED <<service, control, read, answered, keys, outbox, events, history>>

\* The public method goes on after execute(): its rejection, or that of its
\* report, is handled by nobody and ends the process.
Rethrow(j) ==
  /\ ~crashed
  /\ verdict[j] # "pending"
  /\ Crash

-----------------------------------------------------------------------------
(* The browser, and the listeners that run when it reports an event. *)

\* A document of page p arrives, amoCRM decides which, and 'load' fires: its
\* listener calls authorise(), which takes this.frame's page.
Arrive(p) ==
  /\ view[p] = "loading"
  /\ \E v \in {"blank", "login", "lead"} :
       /\ v = "blank" <=> url[p] = None          \* reloaded before its goto()
       /\ v = "login" => p \in LoggedOut
       /\ view' = [view EXCEPT ![p] = v]
  /\ chosen' = [chosen EXCEPT ![p] = None]
  /\ draft' = [draft EXCEPT ![p] = {}]
  /\ pc' = [j \in Jobs |->
              CASE pc[j] = "navigation" /\ on[j] = p -> "landed"
                [] pc[j] = "renavigation" /\ on[j] = p -> "relanded"
                [] OTHER -> pc[j]]
  /\ probing' = IF p \in listening THEN probing \cup ({frame} \ {None}) ELSE probing
  /\ UNCHANGED <<service, on, focused, handles, results, keys, outbox, url, listening,
                 typing, crashed, history>>

\* A navigation request of page p for a document (its own, a redirect, an
\* inner frame): the 'request' listener stores the request's frame.
Request(p) ==
  /\ p \in listening
  /\ \/ view[p] = "loading" /\ inner' = FALSE
     \/ view[p] \in Settled /\ p \in Framed /\ inner' = TRUE
  /\ frame' = p
  /\ UNCHANGED <<isAuth, amoUsersIds, control, handles, results, composer,
                 pages, events, history>>

\* authorise() has looked for the login form on page p.
Probe(p) ==
  /\ p \in probing
  /\ view[p] \in Settled
  /\ probing' = probing \ {p}
  /\ \/ /\ view[p] = "login"
        /\ isAuth' = TRUE
        /\ typing' = typing \cup {p}
     \/ /\ view[p] # "login"
        /\ ~Shows(frame, {"closed"})             \* this.frame.page().cookies()
        /\ isAuth' = FALSE
        /\ UNCHANGED typing
  /\ UNCHANGED <<frame, inner, amoUsersIds, control, handles, results, composer,
                 pages, crashed, history>>

\* authorise() clicks the submit button and returns true.
Submit(p) ==
  /\ p \in typing
  /\ view[p] = "login"
  /\ ~Shows(frame, {"closed"})                   \* this.frame.page().cookies()
  /\ typing' = typing \ {p}
  /\ isAuth' = TRUE
  /\ Navigate(p)
  /\ UNCHANGED <<frame, inner, amoUsersIds, control, results, composer, url, listening,
                 probing, crashed, history>>

\* The document went away under authorise(), or the page whose cookies are
\* asked for is closed: the listener's promise rejects, nobody handles it.
LoadListenerFails ==
  /\ \/ \E p \in probing : view[p] \in {"closed", "loading"}
     \/ \E p \in typing : view[p] # "login"
     \/ probing \cup typing # {} /\ Shows(frame, {"closed"})
  /\ Crash

-----------------------------------------------------------------------------

Step(j) ==
  \/ Start(j) \/ OpenLead(j) \/ Opened(j) \/ CheckAuth(j) \/ Landed(j) \/ Hop(j)
  \/ StoreUserIds(j) \/ ParseFields(j) \/ ReturnLead(j) \/ ReturnSources(j)
  \/ ReadSources(j) \/ ReturnWithoutChats(j) \/ ReturnChats(j) \/ ChooseSource(j)
  \/ ClickSubject(j) \/ FindField(j) \/ ClickField(j) \/ PressKey(j) \/ Typed(j)
  \/ ClickSend(j) \/ ReturnNotSent(j) \/ Reload(j) \/ Reloaded(j) \/ ReturnSent(j)
  \/ Fail(j) \/ Timeout(j) \/ Rethrow(j)

Browser(p) == Arrive(p) \/ Request(p) \/ Probe(p) \/ Submit(p)

Next ==
  \/ \E j \in Jobs : Step(j)
  \/ \E p \in Jobs : Browser(p)
  \/ LoadListenerFails

Spec == Init /\ [][Next]_vars

\* A job whose pending call was issued on a closed page does not wait for it:
\* the call rejects, or a sleep() ends and the next call is issued.
Unblock(j) ==
  /\ Running(j)
  /\ ~Shows(on[j], Alive)
  /\ CheckAuth(j) \/ Landed(j) \/ Typed(j) \/ Reload(j) \/ Fail(j)

\* The time limit of a task is a timer of the cluster.  Nothing else is fair:
\* amoCRM may never answer and an awaited navigation may never happen.
FairSpec ==
  /\ Spec
  /\ \A j \in Jobs : WF_vars(Timeout(j)) /\ WF_vars(Unblock(j))

-----------------------------------------------------------------------------
(* Properties.  A busy period is a stretch of time in which some task      *)
(* function is running; Companions(j) are the jobs of the period of j.     *)

Companions(j) == {k \in Jobs : period[k] = period[j]}
Alone(j)      == Companions(j) = {j}

\* A job's result only holds data of leads asked for by jobs of its own busy
\* period: nothing left in this.frame or this.amoUsersIds by jobs that were
\* over before it began gets into it.
ResultsStayInPeriod ==
  \A j \in Jobs : read[j] \subseteq {LeadOf[k] : k \in Companions(j)}

\* An entry only holds keys of requests of one busy period, and only reaches a
\* lead of that, through a source chosen by a job of that or the one amoCRM
\* preselects; a job that is alone reaches exactly its lead with exactly its
\* message through exactly the source it chose.
MessagesStayInPeriod ==
  \A i \in 1..Len(outbox) :
     \A c \in outbox[i].text :
        /\ \E k \in Companions(c[1]) : outbox[i].lead = LeadOf[k]
        /\ outbox[i].via \in Companions(c[1]) \cup {None}
        /\ \A d \in outbox[i].text : d[1] \in Companions(c[1])
        /\ Alone(c[1]) => outbox[i].text = Whole(c[1]) /\ outbox[i].via = c[1]

\* The keys that amoCRM has taken, and the requests it took as they were meant.
Sent   == UNION {outbox[i].text : i \in 1..Len(outbox)}
Posted == {j \in Jobs : \E i \in 1..Len(outbox) : outbox[i].text = Whole(j)}

\* A sendMessage job that had the service to itself and answers with a message
\* has sent its own one, all of it in one entry, unless amoCRM refused it or
\* the request had none.
AnswerMeansSent ==
  \A j \in answered :
     Alone(j) => j \in Posted \/ j \in Refusing \/ Whole(j) = {}

\* A job that has the service to itself sends nothing once its caller was
\* told the outcome, although the task function outlives the time limit.
NoSendAfterVerdict ==
  [][ \A i \in DOMAIN outbox' \ DOMAIN outbox : \A c \in outbox'[i].text :
        Alone(c[1]) => verdict[c[1]] = "pending" ]_vars

\* No task function runs for ever, whatever it waits for: a navigation that was
\* over before waitForNavigation() was called, a feed that never shows up, or
\* either of them on the page of another job.
JobsEnd == \A j \in Jobs : Running(j) ~> ~Running(j)

-----------------------------------------------------------------------------
(* The inductive invariant behind the four properties above: everything a   *)
(* running task function can reach belongs to the current busy period.     *)

Current      == {k \in Jobs : period[k] = now}
CurrentLeads == {LeadOf[k] : k \in Current}

\* The awaits after `this.amoUsersIds = ...`, those between the choice of a
\* source and the click, and those after the click.
PastIds    == {"expand", "unfold", "fields", "company", "contacts", "messages",
               "available", "switcher", "target", "recipient", "chatList",
               "contact", "theme", "subject", "compose", "message", "editor",
               "button", "text", "filled", "sent", "reload", "renavigation",
               "innerRenavigation", "relanded", "last"}
PastChoice == {"recipient", "contact", "chatList", "theme", "subject", "compose",
               "message", "editor", "button", "text", "filled"}
PastClick  == {"sent", "reload", "renavigation", "innerRenavigation", "relanded",
               "last"}

PeriodInv ==
  \A j \in Jobs :
     /\ Running(j) => period[j] = now
     /\ pc[j] = "queued" => /\ period[j] = 0
                            /\ verdict[j] = "pending"
                            /\ read[j] = {}
                            /\ keys[j] = 0
                            /\ j \notin answered
     /\ pc[j] # "queued" => period[j] \in 1..now

LoadedInv ==
  \A p \in Jobs : view[p] \in {"login", "lead"} => url[p] # None

PageInv ==
  \A p \in Jobs :
     /\ view[p] \in Alive => Running(p) /\ verdict[p] = "pending"
     /\ p \in listening => view[p] \in Alive
     /\ url[p] # None => view[p] \in Alive /\ url[p] \in CurrentLeads
     /\ chosen[p] # None => view[p] \in Alive /\ chosen[p] \in Current
     /\ draft[p] # {} => view[p] \in Alive
     /\ \A c \in draft[p] : c[1] \in Current

IdsInv ==
  \A j \in Jobs : pc[j] \in PastIds => amoUsersIds \in CurrentLeads \cup {None}

\* A job that has the service to itself works on its own page only, with its
\* own choice of source and its own keys in the composer, in that field that it
\* has clicked.
Typing == {"subject", "text", "filled"}

Before(j) == {c \in Whole(j) : c[2] <= keys[j]}

Solo(j) ==
  /\ frame = j
  /\ pc[j] \notin Typing => on[j] = j
  /\ pc[j] \in Typing => on[j] \in {j, None}
  /\ field[j] \in {j, None}
  /\ button[j] \in {j, None}
  /\ draft[j] \subseteq Whole(j)
  /\ pc[j] \in PastChoice =>
       view[j] = "closed" \/ (view[j] = "lead" /\ chosen[j] = j /\ draft[j] = Before(j))
  /\ pc[j] \in {"subject", "text"} => view[j] = "closed" \/ (on[j] = j /\ Focused(j))
  /\ pc[j] \in PastClick => j \in Posted \/ j \in Refusing \/ Whole(j) = {}

SoloInv ==
  \A j \in Jobs : /\ ~Running(j) => field[j] = None /\ button[j] = None
                  /\ Running(j) /\ Alone(j) => Solo(j)

\* How many keys a job has pressed by when, and what was sent was pressed.
KeysInv ==
  /\ \A j \in Jobs : /\ pc[j] \notin {"text", "filled", "done"} \cup PastClick =>
                          keys[j] <= Subject[j]
                     /\ pc[j] = "text" => keys[j] >= Subject[j]
                     /\ pc[j] \in {"filled"} \cup PastClick => keys[j] = Length
  /\ \A p \in Jobs : \A c \in draft[p] : c[2] <= keys[c[1]]
  /\ \A c \in Sent : c[2] <= keys[c[1]]

\* What the theorems rest on: at any moment, what the running jobs can reach is
\* of their own busy period, and a job that is alone is on its own page with
\* its own text and choice of source.
IInv ==
  /\ TypeOK
  /\ PeriodInv
  /\ LoadedInv
  /\ PageInv
  /\ IdsInv
  /\ SoloInv
  /\ KeysInv
  /\ ResultsStayInPeriod
  /\ MessagesStayInPeriod
  /\ AnswerMeansSent

-----------------------------------------------------------------------------
(* Refinement of MessageDelivery. *)

\* The keys that are in a composer, and those that are still to be pressed.
Drafted == UNION {draft[p] : p \in Jobs}
Waiting == {c \in Keys : c[2] > keys[c[1]] /\ pc[c[1]] # "done"}

\* The keys of a message in the order in which they are pressed.
Order == {o \in Keys \X Keys :
            o[1][1] = o[2][1] /\ Subject[o[1][1]] < o[1][2] /\ o[1][2] < o[2][2]}

Sending == INSTANCE MessageDelivery
             WITH Entries <- Delivery, waiting <- Waiting, drafted <- Drafted

\* A key is in one message field at most and not yet sent, and the keys of a
\* message that are in a field are all in that where the job is typing.
DeliveryInv ==
  /\ \A p, q \in Jobs : draft[p] \cap draft[q] # {} => p = q
  /\ \A p \in Jobs : draft[p] \cap Sent = {}
  /\ \A p, q \in Jobs : \A o \in Order : o[1] \in draft[p] /\ o[2] \in draft[q] => p = q
  /\ \A p, j \in Jobs :
       pc[j] = "text" /\ draft[p] \cap Whole(j) # {} => p = on[j]

\* sendMessage() implements the delivery contract: however jobs share pages,
\* type into each other's text, time out or are clicked for by another job in
\* the middle of a text, a key is accepted at most once, with its message or
\* after what was typed of it before, and never after it was lost.
ImplementsDelivery == Sending!Spec

\* README.md, POST /message/send: a message is sent to the lead of the request.
MessageReachesItsLead ==
  \A i \in 1..Len(outbox) : \A c \in outbox[i].text : outbox[i].lead = LeadOf[c[1]]

\* README.md, GET /leads/:leadId: the messages are those of that lead.
ResultIsOfItsLead ==
  \A j \in Jobs : read[j] \subseteq {LeadOf[j]}
=============================================================================
