------------------------------ MODULE LeadParse ------------------------------
(***************************************************************************)
(* What getLead() and sendMessage() make of the lead card on their page:   *)
(* the ids of the chat constant, the fields, and the feeds with their      *)
(* authors.  Each part is read in a call of its own while the card lives   *)
(* on and other jobs store their ids in this.amoUsersIds.                  *)
(*                                                                         *)
(* Texts are what trim() leaves of them; an element or an attribute that   *)
(* is not there is None.  A value of the chat constant is a string or a    *)
(* number, <<"string", s>> or <<"number", s>>.                             *)
(***************************************************************************)
EXTENDS Integers, Sequences, Functions

CONSTANTS
  Texts,     \* the texts on the page, but for the blank one
  Ids,       \* the ids on the page, but for the blank one
  Numerals,  \* those of them that are numbers
  Cards,     \* the cards a job may find: chats, main, company, contacts, feeds
  Arrivals,  \* the feeds that may arrive while the job runs
  OtherIds,  \* what other jobs may store in this.amoUsersIds
  MaxFeeds,  \* bound: feeds on a card
  None       \* nothing there

Blank == ""

Text   == Texts \cup {Blank}
IdAttr == Ids \cup {Blank, None}
Value  == ({"string"} \X (Ids \cup {Blank})) \cup ({"number"} \X Numerals)
Map    == [Ids -> Value \cup {None}]
IdList == [users : Map, contacts : Map]

Kinds == {"message", "system", "sms", "note", "mail", "task", "call"}

\* Fields: an id attribute, a label and a value, which may be controls.
Label == [select : BOOLEAN, id : IdAttr, text : Text]
Entry == [input : {FALSE}, text : Text] \cup [input : {TRUE}, text : Text \cup {None}]
Field == [id : IdAttr, label : Label \cup {None}, value : Entry \cup {None}]

\* Feeds: the paragraph, the element that holds the text of its kind, the link
\* to the author and the avatar, and the header of a call or a mail.
Header == [linked : BOOLEAN, incoming : BOOLEAN, parts : Nat]
Feed   == [id : Ids, kind : Kinds, changed : BOOLEAN, header : Header \cup {None},
           para : Text \cup {None}, own : Text \cup {None},
           link : [id : IdAttr] \cup {None}, avatar : [id : IdAttr] \cup {None}]

Chat == [users : Map \cup {None}, contacts : Map \cup {None}]
Card == [chats : Seq(Chat) \cup {None}, main : Seq(Field), company : Seq(Field),
         contacts : Seq(Seq(Field)), feeds : Seq(Feed)]

ASSUME PageAssumption ==
  /\ Blank \notin Texts \cup Ids
  /\ None \notin Texts \cup Ids \cup {Blank}
  /\ Numerals \subseteq Ids
  /\ MaxFeeds \in Nat
  /\ Cards \subseteq Card
  /\ Arrivals \subseteq Feed
  /\ OtherIds \subseteq IdList

VARIABLES
  job,    \* "lead" or "send": getLead() reads the card, sendMessage() its last feed
  card,   \* what the page shows, but for
  feeds,  \* the feeds on it by now
  amoUsersIds,  \* the ids of this PuppeteerService, whoever stored them
  pc,     \* what the job reads next
  lead    \* its result so far

vars == <<job, card, feeds, amoUsersIds, pc, lead>>

\* An id attribute as a value.
String(id) == IF id = None THEN None ELSE <<"string", id>>

\* lodash isEmpty(), which is true of every number.
IsEmpty(v) == v = None \/ v[1] = "number" \/ v[2] = Blank

\* Number(a) === Number(b), where NaN equals nothing; no contact has number 0,
\* which a blank string would be.
SameNumber(a, b) ==
  a # None /\ b # None /\ a[2] = b[2] /\ a[2] \in Numerals

-----------------------------------------------------------------------------
(* The chat constant. *)

NoIds == [users |-> [id \in Ids |-> None], contacts |-> [id \in Ids |-> None]]

\* The value in the last chat that has the id; a contact has an id in all.
LastOf(chats, part) ==
  [id \in Ids |->
     LET last == {i \in DOMAIN chats :
                    /\ chats[i][part][id] # None
                    /\ \A j \in DOMAIN chats : j > i => chats[j][part][id] = None}
     IN  IF last = {} THEN None ELSE chats[CHOOSE i \in last : TRUE][part][id]]

\* All chats together; a chat without users or contacts throws, and the catch
\* block leaves nothing of the others.
UserIds(chats) ==
  IF \/ chats = None
     \/ \E c \in Range(chats) : c.users = None \/ c.contacts = None
  THEN NoIds
  ELSE [users |-> LastOf(chats, "users"), contacts |-> LastOf(chats, "contacts")]

-----------------------------------------------------------------------------
(* Fields. *)

\* Mutant: the value is read by a call that passes null on.
FieldNeverThrows(f) == FALSE

\* `null.replace()`: an input without a value attribute.
FieldThrows(f) == f.value # None /\ f.value.input /\ f.value.text = None

TextOf(element) == IF element = None THEN Blank ELSE element.text

\* The button of a select has the id of a field that has none itself.
FieldId(f) ==
  IF f.id \in {None, Blank} /\ f.label # None /\ f.label.select
  THEN f.label.id
  ELSE f.id

ParseField(f) == [id |-> FieldId(f), name |-> TextOf(f.label), value |-> TextOf(f.value)]

-----------------------------------------------------------------------------
(* Feeds. *)

\* callSplit[3] or callSplit[1] of a header in fewer parts, without a link.
FeedThrows(feed) ==
  /\ feed.kind = "call" /\ feed.header # None
  /\ ~feed.header.linked
  /\ feed.header.parts < (IF feed.header.incoming THEN 4 ELSE 2)

\* The author's link has an id, the avatar a contact id that stands for both.
PageAuthor(feed) ==
  IF feed.link = None /\ feed.avatar = None THEN None
  ELSE IF feed.avatar = None
  THEN [id |-> String(feed.link.id), contactId |-> None]
  ELSE IF feed.link = None
  THEN [id |-> String(feed.avatar.id), contactId |-> String(feed.avatar.id)]
  ELSE [id |-> String(feed.link.id), contactId |-> String(feed.avatar.id)]

\* Mails, tasks and calls have no author; a change has one only with an id.
FeedAuthor(feed) ==
  LET author == PageAuthor(feed)
  IN  IF \/ feed.kind \in {"mail", "task", "call"}
         \/ /\ feed.kind = "system" /\ feed.changed
            /\ author # None
            /\ author.id \in {None, String(Blank)}
      THEN None
      ELSE author

\* The text of the feed's own element replaces that of the paragraph.
FeedText(feed) ==
  IF /\ feed.own # None
     /\ \/ feed.kind \in {"sms", "note"}
        \/ feed.kind = "system" /\ feed.changed
  THEN feed.own
  ELSE feed.para

\* What of the feed's own element the content is first made of.
OwnContent(feed) ==
  IF \/ feed.own = None
     \/ feed.kind = "system" /\ ~feed.changed
  THEN Blank
  ELSE feed.own

\* Mutant: the paragraph is taken for a content whose own element is missing
\* only, and not for one that is blank.
FeedContentIfMissing(feed) ==
  IF \/ feed.kind \in {"message", "note"}
     \/ feed.kind = "mail" /\ feed.header = None
  THEN None
  ELSE IF feed.own = None /\ feed.kind # "sms" /\ FeedText(feed) # None
  THEN FeedText(feed)
  ELSE OwnContent(feed)

\* `if (!content.text && text)`, which all kinds with a content have but sms.
FeedContent(feed) ==
  IF \/ feed.kind \in {"message", "note"}
     \/ feed.kind = "mail" /\ feed.header = None
  THEN None
  ELSE IF OwnContent(feed) = Blank /\ feed.kind # "sms" /\ FeedText(feed) # None
  THEN FeedText(feed)
  ELSE OwnContent(feed)

ParseFeed(feed) ==
  [id |-> feed.id, text |-> FeedText(feed), content |-> FeedContent(feed),
   author |-> FeedAuthor(feed)]

-----------------------------------------------------------------------------
(* Authors. *)

\* The contact id of an author with an id, unless the page shows it.
FindContact(author, ids) ==
  IF IsEmpty(author.contactId) /\ ~IsEmpty(author.id)
  THEN ids.contacts[author.id[2]]
  ELSE author.contactId

\* The last user with the contact id, in the order of the chat constant, which
\* is left open here.
FindUsers(author, ids) ==
  {u \in Ids : SameNumber(ids.users[u], author.contactId)}

\* Mutant: the last step is left out.
ResolveWithoutFallback(author, ids) ==
  IF IsEmpty(author.contactId) /\ ~IsEmpty(author.id)
  THEN {[author EXCEPT !.contactId = FindContact(author, ids)]}
  ELSE {author}

\* The three steps of the loop, on one author: the outcomes it may have.
Resolve(author, ids) ==
  IF ~IsEmpty(author.id) THEN
    LET contact == FindContact(author, ids)
    IN  {[author EXCEPT !.contactId = IF IsEmpty(contact) THEN author.id ELSE contact]}
  ELSE IF IsEmpty(author.contactId) \/ FindUsers(author, ids) = {} THEN {author}
  ELSE {[author EXCEPT !.id = String(u)] : u \in FindUsers(author, ids)}

Outcomes(m, ids) ==
  IF m.author = None THEN {m} ELSE {[m EXCEPT !.author = a] : a \in Resolve(m.author, ids)}

\* One outcome for each message, by this.amoUsersIds as it is then.
Resolved(messages) ==
  LET All == UNION {Outcomes(m, amoUsersIds) : m \in Range(messages)}
  IN  {s \in [DOMAIN messages -> All] :
         \A i \in DOMAIN s : s[i] \in Outcomes(messages[i], amoUsersIds)}

-----------------------------------------------------------------------------

Nothing == [main |-> None, company |-> None, contacts |-> None, messages |-> None,
            ids |-> None]

Init ==
  /\ job \in {"lead", "send"}
  /\ card \in Cards
  /\ feeds = card.feeds
  /\ amoUsersIds \in OtherIds
  /\ pc = "ids"
  /\ lead = Nothing

Running == pc \notin {"done", "failed"}

Fail ==
  /\ pc' = "failed"
  /\ UNCHANGED lead

StoreUserIds ==
  /\ pc = "ids"
  /\ amoUsersIds' = UserIds(card.chats)
  /\ pc' = IF job = "lead" THEN "main" ELSE "messages"
  /\ UNCHANGED <<job, card, feeds, lead>>

Fields(fs) == [i \in DOMAIN fs |-> ParseField(fs[i])]

\* Mutant: a field that throws is left out.
ParseSomeFields(part, fs, next) ==
  /\ pc = part
  /\ lead' = [lead EXCEPT ![part] = Fields(SelectSeq(fs, LAMBDA f : ~FieldThrows(f)))]
  /\ pc' = next
  /\ UNCHANGED <<job, card, feeds, amoUsersIds>>

ParseFields(part, fs, next) ==
  /\ pc = part
  /\ IF \E f \in Range(fs) : FieldThrows(f)
     THEN Fail
     ELSE /\ lead' = [lead EXCEPT ![part] = Fields(fs)]
          /\ pc' = next
  /\ UNCHANGED <<job, card, feeds, amoUsersIds>>

ParseMainFields    == ParseFields("main", card.main, "company")
ParseCompanyFields == ParseFields("company", card.company, "contacts")

ParseContactFields ==
  /\ pc = "contacts"
  /\ IF \E fs \in Range(card.contacts) : \E f \in Range(fs) : FieldThrows(f)
     THEN Fail
     ELSE /\ lead' = [lead EXCEPT !.contacts =
                        [i \in DOMAIN card.contacts |-> Fields(card.contacts[i])]]
          /\ pc' = "messages"
  /\ UNCHANGED <<job, card, feeds, amoUsersIds>>

\* parseMessages(true) reads the last feed, which is undefined if there is none.
FeedsToRead == IF job = "lead" THEN feeds ELSE SubSeq(feeds, Len(feeds), Len(feeds))

ParseMessages ==
  /\ pc = "messages"
  /\ IF \/ job = "send" /\ feeds = <<>>
        \/ \E feed \in Range(FeedsToRead) : FeedThrows(feed)
     THEN Fail
     ELSE /\ lead' = [lead EXCEPT !.messages =
                        [i \in DOMAIN FeedsToRead |-> ParseFeed(FeedsToRead[i])]]
          /\ pc' = "authors"
  /\ UNCHANGED <<job, card, feeds, amoUsersIds>>

\* Mutant: another job runs between the loop and the return.
ReturnLater ==
  /\ pc = "authors"
  /\ \E messages \in Resolved(lead.messages), other \in OtherIds :
       lead' = [lead EXCEPT !.messages = messages, !.ids = other]
  /\ pc' = "done"
  /\ UNCHANGED <<job, card, feeds, amoUsersIds>>

\* The loop over the messages and the return, which no other job gets between.
ResolveAuthors ==
  /\ pc = "authors"
  /\ \E messages \in Resolved(lead.messages) :
       lead' = [lead EXCEPT !.messages = messages, !.ids = amoUsersIds]
  /\ pc' = "done"
  /\ UNCHANGED <<job, card, feeds, amoUsersIds>>

\* Someone writes, or the message of the job itself appears.
FeedArrives ==
  /\ Running
  /\ Len(feeds) < MaxFeeds
  /\ \E feed \in Arrivals : feeds' = Append(feeds, feed)
  /\ UNCHANGED <<job, card, amoUsersIds, pc, lead>>

OtherJobStores ==
  /\ Running
  /\ amoUsersIds' \in OtherIds
  /\ UNCHANGED <<job, card, feeds, pc, lead>>

Next ==
  \/ StoreUserIds
  \/ ParseMainFields \/ ParseCompanyFields \/ ParseContactFields
  \/ ParseMessages \/ ResolveAuthors
  \/ FeedArrives \/ OtherJobStores

Spec == Init /\ [][Next]_vars

-----------------------------------------------------------------------------
(* Properties. *)

ParsedField == [id : IdAttr, name : Text, value : Text]
Author      == [id : Value \cup {None}, contactId : Value \cup {None}]
Message     == [id : Ids, text : Text \cup {None}, content : Text \cup {None},
                author : Author \cup {None}]

\* Every variable has its type; no name and no value of a field is null.
TypeOK ==
  /\ job \in {"lead", "send"}
  /\ card \in Card
  /\ feeds \in Seq(Feed)
  /\ amoUsersIds \in IdList
  /\ pc \in {"ids", "main", "company", "contacts", "messages", "authors", "done",
             "failed"}
  /\ lead \in [main : Seq(ParsedField) \cup {None},
               company : Seq(ParsedField) \cup {None},
               contacts : Seq(Seq(ParsedField)) \cup {None},
               messages : Seq(Message) \cup {None},
               ids : IdList \cup {None}]

Malformed ==
  \/ \E f \in Range(card.main) \cup Range(card.company)
              \cup UNION {Range(fs) : fs \in Range(card.contacts)} : FieldThrows(f)
  \/ \E feed \in Range(feeds) : FeedThrows(feed)

Same(s, t) == Len(s) = Len(t)

\* A job that ends with a result has all of the card: every field and contact,
\* and every feed from the first to one that was the last when they were read,
\* or just that one.  One that fails found something it could not read.
AllOrNothing ==
  /\ pc = "failed" =>
       \/ Malformed
       \/ job = "send" /\ feeds = <<>>
  /\ pc = "done" /\ job = "lead" =>
       /\ Same(lead.main, card.main) /\ Same(lead.company, card.company)
       /\ Same(lead.contacts, card.contacts)
       /\ \A i \in DOMAIN card.contacts : Same(lead.contacts[i], card.contacts[i])
       /\ Len(card.feeds) <= Len(lead.messages) /\ Len(lead.messages) <= Len(feeds)
       /\ \A i \in DOMAIN lead.messages : lead.messages[i].id = feeds[i].id
  /\ pc = "done" /\ job = "send" =>
       /\ Len(lead.messages) = 1
       /\ \E i \in DOMAIN feeds : /\ i >= Len(card.feeds)
                                  /\ feeds[i].id = lead.messages[1].id

\* The element of its own whose text takes the place of the paragraph's, and
\* the kinds of feeds whose element is not read at all.
Replaces(feed) ==
  \/ feed.kind \in {"sms", "note"}
  \/ feed.kind = "system" /\ feed.changed
Unread(feed) ==
  \/ feed.kind = "message"
  \/ feed.kind = "system" /\ ~feed.changed
  \/ feed.kind = "mail" /\ feed.header = None

\* What a client shows of a message: its content if its kind has one.  sms is
\* the kind whose content may be blank while there is a text.
Shown(m, kind) == IF m.content = None \/ kind = "sms" THEN m.text ELSE m.content

\* A message that shows nothing is of a feed without text, or of one whose own
\* element is there but blank and hides the paragraph.
TextIsShown ==
  pc \in {"authors", "done"} =>
    \A m \in Range(lead.messages) :
      \E feed \in Range(feeds) :
        /\ feed.id = m.id
        /\ Shown(m, feed.kind) \in {feed.own, feed.para, Blank}
        /\ Shown(m, feed.kind) \in {Blank, None} =>
             \/ Replaces(feed) /\ feed.own = Blank
             \/ /\ feed.para \in {None, Blank}
                /\ feed.own \in {None, Blank} \/ Unread(feed)

\* An author with an id has a contact id, and neither is ever a number,
\* although the ids of the chat constant may be.
AuthorsComplete ==
  pc = "done" =>
    \A m \in Range(lead.messages) :
      m.author # None =>
        /\ ~IsEmpty(m.author.id) => ~IsEmpty(m.author.contactId)
        /\ \A v \in {m.author.id, m.author.contactId} : v = None \/ v[1] = "string"

\* A contact id that is not on the page is the one that the ids of the same
\* result list for the author, or the author's own id: where they list nothing
\* for it, and also where they list a number, which isEmpty() takes for nothing.
\* An id that is not on the page is of a user whose contact in the same ids has
\* the number on the page.  What other jobs store in this.amoUsersIds does not
\* get between the two.
AuthorsMatchIds ==
  pc = "done" =>
    \A m \in Range(lead.messages) :
      \E feed \in Range(feeds) :
        /\ feed.id = m.id
        /\ m.author # None /\ feed.avatar = None /\ ~IsEmpty(m.author.id) =>
             LET listed == lead.ids.contacts[m.author.id[2]]
             IN  \/ m.author.contactId = listed
                 \/ /\ m.author.contactId = m.author.id
                    /\ listed \in {None, String(Blank)} \/ listed[1] = "number"
        /\ m.author # None /\ feed.link # None /\ m.author.id # String(feed.link.id) =>
             SameNumber(lead.ids.users[m.author.id[2]], m.author.contactId)
=============================================================================
