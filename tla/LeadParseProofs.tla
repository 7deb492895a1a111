--------------------------- MODULE LeadParseProofs ---------------------------
(* What parseMessages() returns, for every card and every chat constant. *)
EXTENDS LeadParse, TLAPS

\* A message is made of a feed of the card, and its author by the ids that go
\* with it.
ResolvedFrom(m, feed) ==
  /\ m.id = feed.id /\ m.text = FeedText(feed) /\ m.content = FeedContent(feed)
  /\ IF FeedAuthor(feed) = None THEN m.author = None
     ELSE m.author \in Resolve(FeedAuthor(feed), lead.ids)

\* The inductive invariant.
MessagesInv ==
  /\ pc = "authors" =>
       /\ lead.messages \in Seq(Message)
       /\ \A m \in Range(lead.messages) : \E feed \in Range(feeds) : m = ParseFeed(feed)
  /\ pc = "done" =>
       /\ lead.messages \in Seq(Message) /\ lead.ids \in IdList
       /\ \A m \in Range(lead.messages) : \E feed \in Range(feeds) : ResolvedFrom(m, feed)

IInv == TypeOK /\ MessagesInv

-----------------------------------------------------------------------------
(* Types of what is parsed. *)

LEMMA FieldType ==
  ASSUME NEW f \in Field, ~FieldThrows(f)
  PROVE  ParseField(f) \in ParsedField
<1>1. FieldId(f) \in IdAttr
  BY DEF FieldId, Field, Label
<1>2. TextOf(f.label) \in Text
  BY DEF TextOf, Field, Label, Text
<1>3. TextOf(f.value) \in Text
  <2>1. CASE f.value = None
    BY <2>1 DEF TextOf, Text
  <2>2. CASE f.value # None
    BY <2>2 DEF TextOf, Field, Entry, FieldThrows, Text
  <2> QED
    BY <2>1, <2>2
<1> QED
  BY <1>1, <1>2, <1>3 DEF ParseField, ParsedField

LEMMA FieldsType ==
  ASSUME NEW fs \in Seq(Field), \A f \in Range(fs) : ~FieldThrows(f)
  PROVE  Fields(fs) \in Seq(ParsedField)
<1>1. \A i \in DOMAIN fs : fs[i] \in Field /\ ~FieldThrows(fs[i])
  BY DEF Range
<1>2. \A i \in DOMAIN fs : ParseField(fs[i]) \in ParsedField
  BY <1>1, FieldType
<1>3. DOMAIN fs = 1..Len(fs) /\ Len(fs) \in Nat
  OBVIOUS
<1>4. Fields(fs) \in [1..Len(fs) -> ParsedField]
  BY <1>2, <1>3 DEF Fields
<1> QED
  BY <1>3, <1>4

LEMMA StringType ==
  ASSUME NEW id \in IdAttr PROVE String(id) \in Value \cup {None}
BY DEF String, IdAttr, Value

LEMMA AuthorType ==
  ASSUME NEW feed \in Feed PROVE FeedAuthor(feed) \in Author \cup {None}
<1>1. feed.link # None => feed.link.id \in IdAttr
  BY DEF Feed
<1>2. feed.avatar # None => feed.avatar.id \in IdAttr
  BY DEF Feed
<1>3. PageAuthor(feed) \in Author \cup {None}
  BY <1>1, <1>2, StringType DEF PageAuthor, Author
<1> QED
  BY <1>3 DEF FeedAuthor

LEMMA FeedType ==
  ASSUME NEW feed \in Feed PROVE ParseFeed(feed) \in Message
<1>1. /\ feed.id \in Ids /\ feed.own \in Text \cup {None} /\ feed.para \in Text \cup {None}
  BY DEF Feed
<1>2. FeedText(feed) \in Text \cup {None}
  BY <1>1 DEF FeedText
<1>3. OwnContent(feed) \in Text
  BY <1>1 DEF OwnContent, Text
<1>4. FeedContent(feed) \in Text \cup {None}
  BY <1>2, <1>3 DEF FeedContent
<1> QED
  BY <1>1, <1>2, <1>4, AuthorType DEF ParseFeed, Message

LEMMA ResolveType ==
  ASSUME NEW author \in Author, NEW ids \in IdList, NEW a \in Resolve(author, ids)
  PROVE  a \in Author
<1>1. /\ author.id \in Value \cup {None} /\ author.contactId \in Value \cup {None}
      /\ author = [id |-> author.id, contactId |-> author.contactId]
  BY DEF Author
<1>2. CASE ~IsEmpty(author.id)
  <2>1. author.id[2] \in Ids
    BY <1>1, <1>2 DEF IsEmpty, Value
  <2>2. FindContact(author, ids) \in Value \cup {None}
    BY <1>1, <2>1 DEF FindContact, IdList, Map
  <2> QED
    BY <1>1, <1>2, <2>2 DEF Resolve, Author
<1>3. CASE IsEmpty(author.id)
  <2>1. \A u \in Ids : String(u) \in Value \cup {None}
    BY StringType DEF IdAttr
  <2> QED
    BY <1>1, <1>3, <2>1 DEF Resolve, Author, FindUsers
<1> QED
  BY <1>2, <1>3

LEMMA UserIdsType ==
  ASSUME NEW c \in Card PROVE UserIds(c.chats) \in IdList
<1>1. NoIds \in IdList
  BY DEF NoIds, IdList, Map
<1>2. ASSUME c.chats # None, \A chat \in Range(c.chats) : chat.users # None /\ chat.contacts # None
      PROVE  /\ LastOf(c.chats, "users") \in Map
             /\ LastOf(c.chats, "contacts") \in Map
  <2>1. c.chats \in Seq(Chat)
    BY <1>2 DEF Card
  <2>2. \A i \in DOMAIN c.chats : c.chats[i] \in Chat /\ c.chats[i] \in Range(c.chats)
    BY <2>1 DEF Range
  <2>3. \A i \in DOMAIN c.chats : c.chats[i].users \in Map /\ c.chats[i].contacts \in Map
    BY <1>2, <2>2 DEF Chat
  <2>4. LastOf(c.chats, "users") \in Map
    BY <2>3 DEF LastOf, Map
  <2>5. LastOf(c.chats, "contacts") \in Map
    BY <2>3 DEF LastOf, Map
  <2> QED
    BY <2>4, <2>5
<1> QED
  BY <1>1, <1>2 DEF UserIds, IdList

-----------------------------------------------------------------------------
(* Invariance. *)

LEMMA Initially == Init => IInv
<1> SUFFICES ASSUME Init PROVE IInv
  OBVIOUS
<1>1. card \in Card /\ card.feeds \in Seq(Feed)
  BY PageAssumption DEF Init, Card
<1>2. TypeOK
  BY <1>1, PageAssumption DEF Init, TypeOK, Nothing
<1> QED
  BY <1>2 DEF IInv, MessagesInv, Init

\* What holds of any message of a result still does when feeds arrive, or when
\* other ids are stored.
LEMMA MessagesStay ==
  ASSUME MessagesInv, pc' = pc, lead' = lead,
         \A feed \in Range(feeds) : feed \in Range(feeds')
  PROVE  MessagesInv'
<1>1. \A m, feed : ResolvedFrom(m, feed) => ResolvedFrom(m, feed)'
  BY DEF ResolvedFrom
<1> QED
  BY <1>1 DEF MessagesInv

LEMMA StoreStep == ASSUME IInv, StoreUserIds PROVE IInv'
<1>1. TypeOK'
  <2>1. UserIds(card.chats) \in IdList
    BY UserIdsType DEF IInv, TypeOK
  <2> QED
    BY <2>1 DEF IInv, TypeOK, StoreUserIds
<1> QED
  BY <1>1 DEF IInv, MessagesInv, StoreUserIds

LEMMA MainStep == ASSUME IInv, ParseMainFields PROVE IInv'
<1>1. card.main \in Seq(Field)
  BY DEF IInv, TypeOK, Card
<1>2. (\A f \in Range(card.main) : ~FieldThrows(f)) => Fields(card.main) \in Seq(ParsedField)
  BY <1>1, FieldsType
<1>3. TypeOK'
  BY <1>2 DEF IInv, TypeOK, ParseMainFields, ParseFields, Fail
<1>4. pc' \in {"failed", "company"}
  BY DEF ParseMainFields, ParseFields, Fail
<1> QED
  BY <1>3, <1>4 DEF IInv, MessagesInv

LEMMA CompanyStep == ASSUME IInv, ParseCompanyFields PROVE IInv'
<1>1. card.company \in Seq(Field)
  BY DEF IInv, TypeOK, Card
<1>2. (\A f \in Range(card.company) : ~FieldThrows(f)) => Fields(card.company) \in Seq(ParsedField)
  BY <1>1, FieldsType
<1>3. TypeOK'
  BY <1>2 DEF IInv, TypeOK, ParseCompanyFields, ParseFields, Fail
<1>4. pc' \in {"failed", "contacts"}
  BY DEF ParseCompanyFields, ParseFields, Fail
<1> QED
  BY <1>3, <1>4 DEF IInv, MessagesInv

LEMMA ContactsStep == ASSUME IInv, ParseContactFields PROVE IInv'
<1>1. card.contacts \in Seq(Seq(Field))
  BY DEF IInv, TypeOK, Card
<1>2. ASSUME \A fs \in Range(card.contacts) : \A f \in Range(fs) : ~FieldThrows(f)
      PROVE  [i \in DOMAIN card.contacts |-> Fields(card.contacts[i])] \in Seq(Seq(ParsedField))
  <2>1. \A i \in DOMAIN card.contacts : Fields(card.contacts[i]) \in Seq(ParsedField)
    <3>1. \A i \in DOMAIN card.contacts : /\ card.contacts[i] \in Seq(Field)
                                          /\ card.contacts[i] \in Range(card.contacts)
      BY <1>1 DEF Range
    <3> QED
      BY <1>2, <3>1, FieldsType
  <2>2. DOMAIN card.contacts = 1..Len(card.contacts) /\ Len(card.contacts) \in Nat
    BY <1>1
  <2> QED
    BY <2>1, <2>2
<1>3. TypeOK'
  BY <1>2 DEF IInv, TypeOK, ParseContactFields, Fail
<1>4. pc' \in {"failed", "messages"}
  BY DEF ParseContactFields, Fail
<1> QED
  BY <1>3, <1>4 DEF IInv, MessagesInv

LEMMA MessagesStep == ASSUME IInv, ParseMessages PROVE IInv'
<1> DEFINE messages == [i \in DOMAIN FeedsToRead |-> ParseFeed(FeedsToRead[i])]
<1>1. CASE pc' = "failed"
  BY <1>1 DEF IInv, TypeOK, MessagesInv, ParseMessages, Fail
<1>2. CASE pc' # "failed"
  <2>1. /\ job \in {"lead", "send"} /\ ~(job = "send" /\ feeds = <<>>)
        /\ pc' = "authors" /\ lead' = [lead EXCEPT !.messages = messages]
        /\ UNCHANGED <<job, card, feeds, amoUsersIds>>
    BY <1>2 DEF IInv, TypeOK, ParseMessages, Fail
  <2>2. feeds \in Seq(Feed)
    BY DEF IInv, TypeOK
  <2>3. /\ FeedsToRead \in Seq(Feed)
        /\ \A i \in DOMAIN FeedsToRead : FeedsToRead[i] \in Range(feeds)
    <3>1. CASE job = "lead"
      BY <2>2, <3>1 DEF FeedsToRead, Range
    <3>2. CASE job = "send"
      <4>1. Len(feeds) \in 1..Len(feeds)
        BY <2>1, <2>2, <3>2
      <4>2. FeedsToRead \in Seq(Feed) /\ Len(FeedsToRead) = 1 /\ FeedsToRead[1] = feeds[Len(feeds)]
        BY <2>2, <3>2, <4>1 DEF FeedsToRead
      <4> QED
        BY <2>2, <4>1, <4>2 DEF Range
    <3> QED
      BY <2>1, <3>1, <3>2
  <2>4. messages \in Seq(Message)
    <3>1. \A i \in DOMAIN FeedsToRead : ParseFeed(FeedsToRead[i]) \in Message
      BY <2>3, FeedType
    <3>2. DOMAIN FeedsToRead = 1..Len(FeedsToRead) /\ Len(FeedsToRead) \in Nat
      BY <2>3
    <3> QED
      BY <3>1, <3>2
  <2>5. \A m \in Range(messages) : \E feed \in Range(feeds) : m = ParseFeed(feed)
    BY <2>3 DEF Range
  <2> HIDE DEF messages
  <2>6. TypeOK'
    BY <2>1, <2>4 DEF IInv, TypeOK
  <2>7. lead'.messages = messages
    BY <2>1 DEF IInv, TypeOK
  <2> QED
    BY <2>1, <2>4, <2>5, <2>6, <2>7 DEF IInv, MessagesInv
<1> QED
  BY <1>1, <1>2

LEMMA ResolveStep == ASSUME IInv, ResolveAuthors PROVE IInv'
<1>1. PICK messages \in Resolved(lead.messages) :
        lead' = [lead EXCEPT !.messages = messages, !.ids = amoUsersIds]
  BY DEF ResolveAuthors
<1>2. /\ pc = "authors" /\ pc' = "done" /\ UNCHANGED <<job, card, feeds, amoUsersIds>>
  BY DEF ResolveAuthors
<1>3. /\ lead.messages \in Seq(Message) /\ amoUsersIds \in IdList
      /\ \A m \in Range(lead.messages) : \E feed \in Range(feeds) : m = ParseFeed(feed)
  BY <1>2 DEF IInv, TypeOK, MessagesInv
<1>4. /\ DOMAIN messages = DOMAIN lead.messages
      /\ \A i \in DOMAIN messages : messages[i] \in Outcomes(lead.messages[i], amoUsersIds)
      /\ \E All : messages \in [DOMAIN lead.messages -> All]
  BY DEF Resolved
<1>5. /\ lead'.messages = messages /\ lead'.ids = amoUsersIds
  BY <1>1 DEF IInv, TypeOK
<1>6. ASSUME NEW i \in DOMAIN messages
      PROVE  /\ messages[i] \in Message
             /\ \E feed \in Range(feeds) : ResolvedFrom(messages[i], feed)'
  <2>1. /\ lead.messages[i] \in Message /\ lead.messages[i] \in Range(lead.messages)
        /\ messages[i] \in Outcomes(lead.messages[i], amoUsersIds)
    BY <1>3, <1>4 DEF Range
  <2>2. PICK feed \in Range(feeds) : lead.messages[i] = ParseFeed(feed)
    BY <1>3, <2>1
  <2>3. /\ lead.messages[i].id = feed.id /\ lead.messages[i].text = FeedText(feed)
        /\ lead.messages[i].content = FeedContent(feed)
        /\ lead.messages[i].author = FeedAuthor(feed)
    BY <2>2 DEF ParseFeed
  <2>4. CASE FeedAuthor(feed) = None
    <3>1. messages[i] = lead.messages[i]
      BY <2>1, <2>3, <2>4 DEF Outcomes
    <3> QED
      BY <2>1, <2>3, <2>4, <3>1 DEF ResolvedFrom
  <2>5. CASE FeedAuthor(feed) # None
    <3>1. PICK a \in Resolve(FeedAuthor(feed), amoUsersIds) :
            messages[i] = [lead.messages[i] EXCEPT !.author = a]
      BY <2>1, <2>3, <2>5 DEF Outcomes
    <3>2. FeedAuthor(feed) \in Author
      BY <2>1, <2>3, <2>5 DEF Message
    <3>3. a \in Author
      BY <1>3, <3>1, <3>2, ResolveType
    <3>4. /\ messages[i].id = feed.id /\ messages[i].text = FeedText(feed)
          /\ messages[i].content = FeedContent(feed) /\ messages[i].author = a
          /\ messages[i] \in Message
      BY <2>1, <2>3, <3>1, <3>3 DEF Message
    <3> QED
      BY <1>5, <2>5, <3>1, <3>4 DEF ResolvedFrom
  <2> QED
    BY <2>4, <2>5
<1>7. messages \in Seq(Message)
  <2>1. DOMAIN messages = 1..Len(lead.messages) /\ Len(lead.messages) \in Nat
    BY <1>3, <1>4
  <2>2. messages \in [1..Len(lead.messages) -> Message]
    BY <1>4, <1>6, <2>1
  <2> QED
    BY <2>1, <2>2
<1>8. TypeOK'
  BY <1>1, <1>2, <1>3, <1>7 DEF IInv, TypeOK
<1>9. \A m \in Range(messages) : \E feed \in Range(feeds) : ResolvedFrom(m, feed)'
  BY <1>6 DEF Range
<1> QED
  BY <1>2, <1>3, <1>5, <1>7, <1>8, <1>9 DEF IInv, MessagesInv

LEMMA ArrivalStep == ASSUME IInv, FeedArrives PROVE IInv'
<1>1. PICK feed \in Arrivals : feeds' = Append(feeds, feed)
  BY DEF FeedArrives
<1>2. feeds \in Seq(Feed) /\ feed \in Feed
  BY PageAssumption DEF IInv, TypeOK
<1>3. TypeOK'
  BY <1>1, <1>2 DEF IInv, TypeOK, FeedArrives
<1>4. \A f \in Range(feeds) : f \in Range(feeds')
  <2>1. ASSUME NEW i \in DOMAIN feeds PROVE feeds[i] \in Range(feeds')
    <3>1. i \in DOMAIN feeds' /\ feeds'[i] = feeds[i]
      BY <1>1, <1>2, <2>1
    <3> QED
      BY <3>1 DEF Range
  <2> QED
    BY <2>1 DEF Range
<1> QED
  BY <1>3, <1>4, MessagesStay DEF IInv, FeedArrives

LEMMA OtherStep == ASSUME IInv, OtherJobStores PROVE IInv'
<1>1. TypeOK'
  BY PageAssumption DEF IInv, TypeOK, OtherJobStores
<1> QED
  BY <1>1, MessagesStay DEF IInv, OtherJobStores

\* Every message is made of a feed of the card, and its author resolved by the
\* ids of the same result.
THEOREM Invariance == Spec => []IInv
<1>1. ASSUME IInv, [Next]_vars PROVE IInv'
  <2>1. CASE UNCHANGED vars
    <3>1. UNCHANGED <<job, card, feeds, amoUsersIds, pc, lead>>
      BY <2>1 DEF vars
    <3>2. TypeOK'
      BY <1>1, <3>1 DEF IInv, TypeOK
    <3> QED
      BY <1>1, <3>1, <3>2, MessagesStay DEF IInv
  <2> QED
    BY <1>1, <2>1, StoreStep, MainStep, CompanyStep, ContactsStep, MessagesStep,
       ResolveStep, ArrivalStep, OtherStep DEF Next
<1> QED
  BY <1>1, Initially, PTL DEF Spec

-----------------------------------------------------------------------------

\* Every variable has its type: no name or value of a parsed field is null.
THEOREM TypeCorrect == Spec => []TypeOK
<1>1. IInv => TypeOK
  BY DEF IInv
<1> QED
  BY <1>1, Invariance, PTL

\* A feed that is parsed shows its text.
LEMMA FeedShows ==
  ASSUME NEW feed, NEW m, m.text = FeedText(feed), m.content = FeedContent(feed)
  PROVE  /\ Shown(m, feed.kind) \in {feed.own, feed.para, Blank}
         /\ Shown(m, feed.kind) \in {Blank, None} =>
              \/ Replaces(feed) /\ feed.own = Blank
              \/ /\ feed.para \in {None, Blank}
                 /\ feed.own \in {None, Blank} \/ Unread(feed)
<1>1. Blank # None
  BY PageAssumption
<1> QED
  BY <1>1 DEF Shown, FeedText, FeedContent, OwnContent, Replaces, Unread

\* A message without text is of a feed without, or one that hides it.
THEOREM TextsAreShown == Spec => []TextIsShown
<1>1. ASSUME IInv PROVE TextIsShown
  <2> SUFFICES ASSUME pc \in {"authors", "done"}, NEW m \in Range(lead.messages)
               PROVE  \E feed \in Range(feeds) :
                        /\ feed.id = m.id /\ m.text = FeedText(feed)
                        /\ m.content = FeedContent(feed)
    BY FeedShows DEF TextIsShown
  <2>1. CASE pc = "authors"
    BY <1>1, <2>1 DEF IInv, MessagesInv, ParseFeed
  <2>2. CASE pc = "done"
    BY <1>1, <2>2 DEF IInv, MessagesInv, ResolvedFrom
  <2> QED
    BY <2>1, <2>2
<1> QED
  BY <1>1, Invariance, PTL

Strings == {"string"} \X (Ids \cup {Blank})

\* On the page there are no numbers.
LEMMA PageAuthorIds ==
  ASSUME NEW feed \in Feed, FeedAuthor(feed) # None
  PROVE  /\ FeedAuthor(feed) \in [id : Strings \cup {None}, contactId : Strings \cup {None}]
         /\ feed.link # None => FeedAuthor(feed).id = String(feed.link.id)
         /\ feed.avatar = None => FeedAuthor(feed).contactId = None
<1>1. FeedAuthor(feed) = PageAuthor(feed)
  BY DEF FeedAuthor
<1>2. \A id \in IdAttr : String(id) \in Strings \cup {None}
  BY DEF String, IdAttr, Strings
<1>3. /\ feed.link # None => feed.link.id \in IdAttr
      /\ feed.avatar # None => feed.avatar.id \in IdAttr
  BY DEF Feed
<1> QED
  BY <1>1, <1>2, <1>3 DEF PageAuthor

\* What the three steps make of such an author.
LEMMA ResolvedAuthor ==
  ASSUME NEW author \in [id : Strings \cup {None}, contactId : Strings \cup {None}],
         NEW ids \in IdList, NEW a \in Resolve(author, ids)
  PROVE  /\ ~IsEmpty(a.id) => ~IsEmpty(a.contactId)
         /\ a.id \in Strings \cup {None} /\ a.contactId \in Strings \cup {None}
         /\ author.contactId = None /\ ~IsEmpty(a.id) =>
              LET listed == ids.contacts[a.id[2]]
              IN  \/ a.contactId = listed
                  \/ /\ a.contactId = a.id
                     /\ listed \in {None, String(Blank)} \/ listed[1] = "number"
         /\ a.id # author.id => SameNumber(ids.users[a.id[2]], a.contactId)
<1>1. CASE ~IsEmpty(author.id)
  <2> DEFINE contact == FindContact(author, ids)
  <2>1. /\ a.id = author.id
        /\ a.contactId = IF IsEmpty(contact) THEN author.id ELSE contact
    BY <1>1 DEF Resolve
  <2>2. author.id[2] \in Ids /\ author.id \in Strings
    BY <1>1 DEF IsEmpty, Strings
  <2>3. contact \in Value \cup {None}
    BY <2>2 DEF FindContact, IdList, Map, Strings, Value
  <2>4. ~IsEmpty(contact) => contact \in Strings
    BY <2>3 DEF IsEmpty, Value, Strings
  <2>5. author.contactId = None => contact = ids.contacts[author.id[2]]
    BY <1>1 DEF FindContact, IsEmpty
  <2>6. IsEmpty(contact) => contact \in {None, String(Blank)} \/ contact[1] = "number"
    BY <2>3, PageAssumption DEF IsEmpty, Value, String
  <2> HIDE DEF contact
  <2> QED
    BY <1>1, <2>1, <2>2, <2>4, <2>5, <2>6
<1>2. CASE IsEmpty(author.id)
  <2>1. CASE IsEmpty(author.contactId) \/ FindUsers(author, ids) = {}
    BY <1>2, <2>1 DEF Resolve
  <2>2. CASE ~IsEmpty(author.contactId) /\ FindUsers(author, ids) # {}
    <3>1. PICK u \in FindUsers(author, ids) : a = [author EXCEPT !.id = String(u)]
      BY <1>2, <2>2 DEF Resolve
    <3>2. u \in Ids /\ SameNumber(ids.users[u], author.contactId) /\ u # None
      BY PageAssumption DEF FindUsers
    <3>3. a.id = <<"string", u>> /\ a.contactId = author.contactId
      BY <3>1, <3>2 DEF String
    <3>4. author.contactId # None
      BY <2>2 DEF IsEmpty
    <3> QED
      BY <2>2, <3>2, <3>3, <3>4 DEF Strings
  <2> QED
    BY <2>1, <2>2
<1> QED
  BY <1>1, <1>2

\* A message of the result, its feed and its author.
LEMMA ResultAuthor ==
  ASSUME IInv, pc = "done", NEW m \in Range(lead.messages), m.author # None
  PROVE  \E feed \in Range(feeds) :
           /\ feed \in Feed /\ feed.id = m.id /\ FeedAuthor(feed) # None
           /\ m.author \in Resolve(FeedAuthor(feed), lead.ids)
<1>1. \A feed \in Range(feeds) : feed \in Feed
  BY DEF IInv, TypeOK, Range
<1> QED
  BY <1>1 DEF IInv, MessagesInv, ResolvedFrom

\* An author with an id has a contact id, and neither is a number.
THEOREM AuthorsAreComplete == Spec => []AuthorsComplete
<1>1. ASSUME IInv PROVE AuthorsComplete
  <2> SUFFICES ASSUME pc = "done", NEW m \in Range(lead.messages), m.author # None
               PROVE  /\ ~IsEmpty(m.author.id) => ~IsEmpty(m.author.contactId)
                      /\ \A v \in {m.author.id, m.author.contactId} :
                           v = None \/ v[1] = "string"
    BY DEF AuthorsComplete
  <2>1. PICK feed \in Range(feeds) :
          /\ feed \in Feed /\ FeedAuthor(feed) # None
          /\ m.author \in Resolve(FeedAuthor(feed), lead.ids)
    BY <1>1, ResultAuthor
  <2>2. lead.ids \in IdList
    BY <1>1 DEF IInv, MessagesInv
  <2>3. FeedAuthor(feed) \in [id : Strings \cup {None}, contactId : Strings \cup {None}]
    BY <2>1, PageAuthorIds
  <2>4. /\ ~IsEmpty(m.author.id) => ~IsEmpty(m.author.contactId)
        /\ m.author.id \in Strings \cup {None} /\ m.author.contactId \in Strings \cup {None}
    BY <2>1, <2>2, <2>3, ResolvedAuthor
  <2> QED
    BY <2>4 DEF Strings
<1> QED
  BY <1>1, Invariance, PTL

\* The contact id of an author is the one listed in the ids that came with the
\* messages, unless they list none for it or a number; the id of an author who
\* is only shown by a contact is that of a user listed with this contact.
THEOREM AuthorsAreListed == Spec => []AuthorsMatchIds
<1>1. ASSUME IInv PROVE AuthorsMatchIds
  <2> DEFINE Match(m, feed) ==
        /\ feed.id = m.id
        /\ m.author # None /\ feed.avatar = None /\ ~IsEmpty(m.author.id) =>
             LET listed == lead.ids.contacts[m.author.id[2]]
             IN  \/ m.author.contactId = listed
                 \/ /\ m.author.contactId = m.author.id
                    /\ listed \in {None, String(Blank)} \/ listed[1] = "number"
        /\ m.author # None /\ feed.link # None /\ m.author.id # String(feed.link.id) =>
             SameNumber(lead.ids.users[m.author.id[2]], m.author.contactId)
  <2>1. ASSUME pc = "done", NEW m \in Range(lead.messages)
        PROVE  \E feed \in Range(feeds) : Match(m, feed)
    <3>1. CASE m.author = None
      BY <1>1, <2>1, <3>1 DEF IInv, MessagesInv, ResolvedFrom
    <3>2. CASE m.author # None
      <4>1. PICK feed \in Range(feeds) :
              /\ feed \in Feed /\ feed.id = m.id /\ FeedAuthor(feed) # None
              /\ m.author \in Resolve(FeedAuthor(feed), lead.ids)
        BY <1>1, <2>1, <3>2, ResultAuthor
      <4>2. lead.ids \in IdList
        BY <1>1, <2>1 DEF IInv, MessagesInv
      <4>3. /\ FeedAuthor(feed) \in
                 [id : Strings \cup {None}, contactId : Strings \cup {None}]
            /\ feed.link # None => FeedAuthor(feed).id = String(feed.link.id)
            /\ feed.avatar = None => FeedAuthor(feed).contactId = None
        BY <4>1, PageAuthorIds
      <4>4. /\ FeedAuthor(feed).contactId = None /\ ~IsEmpty(m.author.id) =>
                 LET listed == lead.ids.contacts[m.author.id[2]]
                 IN  \/ m.author.contactId = listed
                     \/ /\ m.author.contactId = m.author.id
                        /\ listed \in {None, String(Blank)} \/ listed[1] = "number"
            /\ m.author.id # FeedAuthor(feed).id =>
                 SameNumber(lead.ids.users[m.author.id[2]], m.author.contactId)
        BY <4>1, <4>2, <4>3, ResolvedAuthor
      <4> QED
        BY <4>1, <4>3, <4>4
    <3> QED
      BY <3>1, <3>2
  <2> QED
    BY <2>1 DEF AuthorsMatchIds
<1> QED
  BY <1>1, Invariance, PTL

-----------------------------------------------------------------------------
(* All or nothing. *)

\* The messages are those of the feeds that were there when they were read.
ReadInv ==
  /\ job = "lead" =>
       /\ Len(card.feeds) <= Len(lead.messages) /\ Len(lead.messages) <= Len(feeds)
       /\ \A i \in DOMAIN lead.messages : lead.messages[i].id = feeds[i].id
  /\ job = "send" =>
       /\ Len(lead.messages) = 1
       /\ \E i \in DOMAIN feeds : /\ i >= Len(card.feeds)
                                  /\ feeds[i].id = lead.messages[1].id

\* What of the card is in the result at each step of a job.
PartsInv ==
  /\ job = "send" => pc \notin {"main", "company", "contacts"}
  /\ Len(card.feeds) <= Len(feeds)
  /\ pc = "failed" => Malformed \/ (job = "send" /\ feeds = <<>>)
  /\ job = "lead" /\ pc \in {"company", "contacts", "messages", "authors", "done"} =>
       Same(lead.main, card.main)
  /\ job = "lead" /\ pc \in {"contacts", "messages", "authors", "done"} =>
       Same(lead.company, card.company)
  /\ job = "lead" /\ pc \in {"messages", "authors", "done"} =>
       /\ Same(lead.contacts, card.contacts)
       /\ \A i \in DOMAIN card.contacts : Same(lead.contacts[i], card.contacts[i])
  /\ pc \in {"authors", "done"} => ReadInv

LEMMA SameInterval ==
  ASSUME NEW m \in Nat, NEW n \in Nat, 1..m = 1..n
  PROVE  m = n
<1>1. m > 0 => m \in 1..n
  OBVIOUS
<1>2. n > 0 => n \in 1..m
  OBVIOUS
<1> QED
  BY <1>1, <1>2

LEMMA FieldsLength == ASSUME NEW fs \in Seq(Field) PROVE Same(Fields(fs), fs)
<1>1. DOMAIN Fields(fs) = 1..Len(fs) /\ Len(fs) \in Nat
  BY DEF Fields
<1>2. Fields(fs) \in [1..Len(fs) -> {ParseField(fs[i]) : i \in 1..Len(fs)}]
  BY <1>1 DEF Fields
<1>3. Fields(fs) \in Seq({ParseField(fs[i]) : i \in 1..Len(fs)})
  BY <1>1, <1>2
<1>4. DOMAIN Fields(fs) = 1..Len(Fields(fs)) /\ Len(Fields(fs)) \in Nat
  BY <1>3
<1> QED
  BY <1>1, <1>4 DEF Same

LEMMA MainParts == ASSUME IInv, PartsInv, ParseMainFields PROVE PartsInv'
<1>1. Same(Fields(card.main), card.main)
  BY FieldsLength DEF IInv, TypeOK, Card
<1>2. /\ pc = "main" /\ pc' \in {"failed", "company"} /\ UNCHANGED <<job, card, feeds>>
      /\ pc' = "failed" => \E f \in Range(card.main) : FieldThrows(f)
      /\ pc' = "company" => lead' = [lead EXCEPT !.main = Fields(card.main)]
  BY DEF ParseMainFields, ParseFields, Fail
<1>3. pc' = "company" => Same(lead'.main, card'.main)
  BY <1>1, <1>2 DEF IInv, TypeOK
<1>4. pc' = "failed" => Malformed'
  BY <1>2 DEF Malformed
<1> QED
  BY <1>2, <1>3, <1>4 DEF PartsInv

LEMMA CompanyParts == ASSUME IInv, PartsInv, ParseCompanyFields PROVE PartsInv'
<1>1. Same(Fields(card.company), card.company)
  BY FieldsLength DEF IInv, TypeOK, Card
<1>2. /\ pc = "company" /\ pc' \in {"failed", "contacts"} /\ UNCHANGED <<job, card, feeds>>
      /\ pc' = "failed" => \E f \in Range(card.company) : FieldThrows(f)
      /\ pc' = "contacts" => lead' = [lead EXCEPT !.company = Fields(card.company)]
  BY DEF ParseCompanyFields, ParseFields, Fail
<1>3. pc' = "contacts" => Same(lead'.company, card'.company) /\ lead'.main = lead.main
  BY <1>1, <1>2 DEF IInv, TypeOK
<1>4. pc' = "failed" => Malformed'
  BY <1>2 DEF Malformed
<1> QED
  BY <1>2, <1>3, <1>4 DEF PartsInv

LEMMA ContactsParts == ASSUME IInv, PartsInv, ParseContactFields PROVE PartsInv'
<1> DEFINE contacts == [i \in DOMAIN card.contacts |-> Fields(card.contacts[i])]
<1>1. card.contacts \in Seq(Seq(Field))
  BY DEF IInv, TypeOK, Card
<1>2. \A i \in DOMAIN card.contacts : Same(contacts[i], card.contacts[i])
  BY <1>1, FieldsLength
<1>3. Same(contacts, card.contacts)
  <2>1. DOMAIN card.contacts = 1..Len(card.contacts) /\ Len(card.contacts) \in Nat
    BY <1>1
  <2>2. contacts \in [1..Len(card.contacts) -> {Fields(card.contacts[i]) : i \in DOMAIN card.contacts}]
    BY <2>1
  <2>3. contacts \in Seq({Fields(card.contacts[i]) : i \in DOMAIN card.contacts})
    BY <2>1, <2>2
  <2>4. DOMAIN contacts = 1..Len(contacts) /\ Len(contacts) \in Nat
    BY <2>3
  <2> QED
    BY <2>1, <2>4 DEF Same
<1>4. /\ pc = "contacts" /\ pc' \in {"failed", "messages"} /\ UNCHANGED <<job, card, feeds>>
      /\ pc' = "failed" => \E fs \in Range(card.contacts) : \E f \in Range(fs) : FieldThrows(f)
      /\ pc' = "messages" => lead' = [lead EXCEPT !.contacts = contacts]
  BY DEF ParseContactFields, Fail
<1> HIDE DEF contacts
<1>5. pc' = "messages" => /\ lead'.contacts = contacts /\ lead'.main = lead.main
                          /\ lead'.company = lead.company
  BY <1>4 DEF IInv, TypeOK
<1>6. pc' = "failed" => Malformed'
  BY <1>4 DEF Malformed
<1> QED
  BY <1>2, <1>3, <1>4, <1>5, <1>6 DEF PartsInv

LEMMA MessagesParts == ASSUME IInv, PartsInv, ParseMessages PROVE PartsInv'
<1> DEFINE messages == [i \in DOMAIN FeedsToRead |-> ParseFeed(FeedsToRead[i])]
<1>1. /\ pc = "messages" /\ pc' \in {"failed", "authors"} /\ UNCHANGED <<job, card, feeds>>
      /\ pc' = "failed" => \/ job = "send" /\ feeds = <<>>
                           \/ \E feed \in Range(FeedsToRead) : FeedThrows(feed)
      /\ pc' = "authors" => /\ ~(job = "send" /\ feeds = <<>>)
                            /\ lead' = [lead EXCEPT !.messages = messages]
  BY DEF ParseMessages, Fail
<1>2. feeds \in Seq(Feed) /\ Len(feeds) \in Nat /\ DOMAIN feeds = 1..Len(feeds)
  BY DEF IInv, TypeOK
<1>3. job \in {"lead", "send"} /\ Len(card.feeds) <= Len(feeds) /\ Len(card.feeds) \in Nat
  BY DEF IInv, TypeOK, PartsInv, Card
<1>4. ASSUME job = "lead"
      PROVE  /\ DOMAIN messages = 1..Len(feeds)
             /\ \A i \in DOMAIN messages : messages[i].id = feeds[i].id
             /\ FeedsToRead = feeds
  <2>1. FeedsToRead = feeds
    BY <1>4 DEF FeedsToRead
  <2>2. \A feed : ParseFeed(feed).id = feed.id
    BY DEF ParseFeed
  <2> QED
    BY <1>2, <2>1, <2>2
<1>5. ASSUME job = "send", feeds # <<>>
      PROVE  /\ DOMAIN messages = 1..1
             /\ messages[1].id = feeds[Len(feeds)].id
             /\ Len(feeds) \in DOMAIN feeds
             /\ \A feed \in Range(FeedsToRead) : feed \in Range(feeds)
  <2>1. Len(feeds) \in 1..Len(feeds)
    BY <1>2, <1>5
  <2>2. FeedsToRead \in Seq(Feed) /\ Len(FeedsToRead) = 1 /\ FeedsToRead[1] = feeds[Len(feeds)]
    BY <1>2, <1>5, <2>1 DEF FeedsToRead
  <2>3. \A feed : ParseFeed(feed).id = feed.id
    BY DEF ParseFeed
  <2> QED
    BY <1>2, <2>1, <2>2, <2>3 DEF Range
<1>6. pc' = "failed" => Malformed' \/ (job' = "send" /\ feeds' = <<>>)
  BY <1>1, <1>3, <1>4, <1>5 DEF Malformed
<1>7. pc' = "authors" => IInv'
  BY MessagesStep
<1> HIDE DEF messages
<1>8. ASSUME pc' = "authors"
      PROVE  /\ lead'.messages = messages /\ messages \in Seq(Message)
             /\ lead'.main = lead.main /\ lead'.company = lead.company
             /\ lead'.contacts = lead.contacts
  <2>1. lead'.messages \in Seq(Message)
    BY <1>7, <1>8 DEF IInv, MessagesInv
  <2> QED
    BY <1>1, <1>8, <2>1 DEF IInv, TypeOK
<1>9. ASSUME pc' = "authors" PROVE ReadInv'
  <2>1. DOMAIN messages = 1..Len(messages) /\ Len(messages) \in Nat
    BY <1>8, <1>9
  <2>2. CASE job = "lead"
    <3>1. 1..Len(messages) = 1..Len(feeds)
      BY <1>4, <2>1, <2>2
    <3>2. Len(messages) = Len(feeds)
      BY <1>2, <2>1, <3>1, SameInterval
    <3> QED
      BY <1>1, <1>3, <1>4, <1>8, <1>9, <2>2, <3>2 DEF ReadInv
  <2>3. CASE job = "send"
    <3>1. Len(messages) = 1
      BY <1>1, <1>5, <1>9, <2>1, <2>3
    <3> QED
      BY <1>1, <1>3, <1>5, <1>8, <1>9, <2>3, <3>1 DEF ReadInv
  <2> QED
    BY <1>3, <2>2, <2>3
<1> QED
  BY <1>1, <1>6, <1>8, <1>9 DEF PartsInv

LEMMA ResolveParts == ASSUME IInv, PartsInv, ResolveAuthors PROVE PartsInv'
<1>1. PICK messages \in Resolved(lead.messages) :
        lead' = [lead EXCEPT !.messages = messages, !.ids = amoUsersIds]
  BY DEF ResolveAuthors
<1>2. pc = "authors" /\ pc' = "done" /\ UNCHANGED <<job, card, feeds>>
  BY DEF ResolveAuthors
<1>3. /\ lead'.messages = messages /\ lead'.main = lead.main
      /\ lead'.company = lead.company /\ lead'.contacts = lead.contacts
  BY <1>1 DEF IInv, TypeOK
<1>4. lead.messages \in Seq(Message) /\ messages \in Seq(Message)
  <2>1. IInv'
    BY ResolveStep
  <2> QED
    BY <1>2, <1>3, <2>1 DEF IInv, MessagesInv
<1>5. /\ DOMAIN messages = DOMAIN lead.messages
      /\ \A i \in DOMAIN messages : messages[i] \in Outcomes(lead.messages[i], amoUsersIds)
  BY DEF Resolved
<1>6. Len(messages) = Len(lead.messages)
  BY <1>4, <1>5
<1>7. ASSUME NEW i \in DOMAIN messages PROVE messages[i].id = lead.messages[i].id
  <2>1. lead.messages[i] \in Message
    BY <1>4, <1>5
  <2> QED
    BY <1>5, <2>1 DEF Outcomes, Message
<1>8. ReadInv'
  <2>1. ReadInv
    BY <1>2 DEF PartsInv
  <2>2. Len(messages) = 1 => 1 \in DOMAIN messages
    BY <1>4
  <2> QED
    BY <1>2, <1>3, <1>5, <1>6, <1>7, <2>1, <2>2 DEF ReadInv
<1> QED
  BY <1>2, <1>3, <1>8 DEF PartsInv

LEMMA ArrivalParts == ASSUME IInv, PartsInv, FeedArrives PROVE PartsInv'
<1>1. PICK feed \in Arrivals : feeds' = Append(feeds, feed)
  BY DEF FeedArrives
<1>2. /\ feeds \in Seq(Feed) /\ feed \in Feed /\ Len(card.feeds) \in Nat
      /\ lead \in [main : Seq(ParsedField) \cup {None},
                    company : Seq(ParsedField) \cup {None},
                    contacts : Seq(Seq(ParsedField)) \cup {None},
                    messages : Seq(Message) \cup {None},
                    ids : IdList \cup {None}]
  BY PageAssumption DEF IInv, TypeOK, Card
<1>3. /\ Len(feeds') = Len(feeds) + 1 /\ Len(feeds) \in Nat
      /\ DOMAIN feeds \subseteq DOMAIN feeds' /\ \A i \in DOMAIN feeds : feeds'[i] = feeds[i]
  BY <1>1, <1>2
<1>4. pc \notin {"done", "failed"} /\ UNCHANGED <<job, card, pc, lead>>
  BY DEF FeedArrives, Running
<1>5. pc = "authors" => ReadInv'
  <2> SUFFICES ASSUME pc = "authors" PROVE ReadInv'
    OBVIOUS
  <2>1. ReadInv /\ lead.messages \in Seq(Message)
    BY DEF PartsInv, IInv, MessagesInv
  <2>2. Len(lead.messages) \in Nat /\ DOMAIN lead.messages = 1..Len(lead.messages)
    BY <2>1
  <2>3. job = "lead" => DOMAIN lead.messages \subseteq DOMAIN feeds
    BY <1>2, <1>3, <2>1, <2>2 DEF ReadInv
  <2> QED
    BY <1>2, <1>3, <1>4, <2>1, <2>2, <2>3 DEF ReadInv
<1> QED
  BY <1>2, <1>3, <1>4, <1>5 DEF PartsInv

LEMMA OtherParts ==
  ASSUME PartsInv, UNCHANGED <<job, card, feeds, pc, lead>>
  PROVE  PartsInv'
<1>1. ReadInv => ReadInv'
  BY DEF ReadInv
<1>2. Malformed => Malformed'
  BY DEF Malformed
<1> QED
  BY <1>1, <1>2 DEF PartsInv

LEMMA StoreParts == ASSUME IInv, PartsInv, StoreUserIds PROVE PartsInv'
<1>1. /\ pc = "ids" /\ UNCHANGED <<job, card, feeds, lead>>
      /\ pc' = IF job = "lead" THEN "main" ELSE "messages"
  BY DEF StoreUserIds
<1> QED
  BY <1>1 DEF PartsInv

LEMMA InitParts == Init => PartsInv
<1> SUFFICES ASSUME Init PROVE PartsInv
  OBVIOUS
<1>1. Len(card.feeds) \in Nat
  BY PageAssumption DEF Init, Card
<1> QED
  BY <1>1 DEF Init, PartsInv

\* A result is of the whole card, read at one moment in what can grow, and a
\* job without a result found something that it could not read.
THEOREM Completeness == Spec => []AllOrNothing
<1>1. ASSUME IInv, PartsInv, [Next]_vars PROVE PartsInv'
  <2>1. CASE UNCHANGED vars
    BY <1>1, <2>1, OtherParts DEF vars
  <2>2. CASE OtherJobStores
    BY <1>1, <2>2, OtherParts DEF OtherJobStores
  <2> QED
    BY <1>1, <2>1, <2>2, StoreParts, MainParts, CompanyParts, ContactsParts,
       MessagesParts, ResolveParts, ArrivalParts DEF Next
<1>2. PartsInv => AllOrNothing
  BY DEF PartsInv, ReadInv, AllOrNothing
<1> QED
  BY <1>1, <1>2, InitParts, Invariance, PTL DEF Spec
=============================================================================
