----------------------------- MODULE MCLeadParse -----------------------------
(* Cards with one feed of every shape, or one field of every shape, and two   *)
(* feeds that arrive.                                                         *)
EXTENDS LeadParse, TLC

MCTexts    == {"para", "own"}
MCIds      == {"f1", "f2", "f3", "u1", "u2", "k", "7"}
MCNumerals == {"7"}

Plain == [id |-> "f1", kind |-> "message", changed |-> FALSE, header |-> None,
          para |-> "para", own |-> None, link |-> None, avatar |-> None]

\* Every kind with and without its texts.
Headers == {None} \cup [linked : BOOLEAN, incoming : BOOLEAN, parts : {1, 2, 3, 4}]
Texted  ==
  {[Plain EXCEPT !.kind = kind, !.changed = changed, !.para = para, !.own = own,
                 !.link = [id |-> "u1"]] :
     kind \in Kinds \ {"mail", "call"}, changed \in BOOLEAN,
     para \in {None, Blank, "para"}, own \in {None, Blank, "own"}}
Headed ==
  {[Plain EXCEPT !.kind = kind, !.header = header, !.para = para, !.own = own] :
     kind \in {"mail", "call"}, header \in Headers,
     para \in {None, "para"}, own \in {None, Blank, "own"}}

\* Every way to show an author.
Links    == {None} \cup [id : {None, Blank, "u1", "u2"}]
Avatars  == {None} \cup [id : {None, Blank, "k", "7"}]
Authored ==
  {[Plain EXCEPT !.kind = kind, !.changed = TRUE, !.link = link, !.avatar = avatar] :
     kind \in {"message", "system"}, link \in Links, avatar \in Avatars}

Number(n) == <<"number", n>>
Only(map) == [id \in Ids |-> IF id \in DOMAIN map THEN map[id] ELSE None]

UsersMaps == {Only("u1" :> Number("7") @@ "u2" :> String("k")),
              Only("u1" :> String("7") @@ "u2" :> Number("7"))}
ContactsMaps == {Only(<<>>), Only("u1" :> String("k")),
                 Only("u1" :> Number("7") @@ "u2" :> String("7"))}

ChatLists ==
  {None, <<>>}
    \cup {<<[users |-> u, contacts |-> c]>> : u \in UsersMaps, c \in ContactsMaps}
    \cup {<<[users |-> u, contacts |-> Only("u1" :> String("k"))],
            [users |-> v, contacts |-> c]>> :
            u \in UsersMaps, v \in {None, Only("u2" :> String("7"))},
            c \in {None, Only("u1" :> String("7"))}}

\* Every shape of a field.
Shapes ==
  [id : {None, Blank, "f1"},
   label : {None} \cup [select : BOOLEAN, id : {None, "f2"}, text : {"para"}],
   value : {None} \cup [input : {TRUE}, text : {None, "own"}]
                  \cup [input : {FALSE}, text : {Blank, "own"}]]
Sound == [id |-> "f1", label |-> None, value |-> None]

Bare == [chats |-> None, main |-> <<>>, company |-> <<>>, contacts |-> <<>>, feeds |-> <<>>]

MCCards ==
  {[Bare EXCEPT !.feeds = <<feed>>] : feed \in Texted \cup Headed}
    \cup {[Bare EXCEPT !.chats = chats, !.feeds = <<feed>>] :
            chats \in ChatLists, feed \in Authored}
    \cup {[Bare EXCEPT !.main = <<f, Sound>>] : f \in Shapes}
    \cup {[Bare EXCEPT !.company = <<Sound, f>>] : f \in Shapes}
    \cup {[Bare EXCEPT !.contacts = <<<<Sound>>, <<f>>>>] : f \in Shapes}

MCArrivals ==
  {[Plain EXCEPT !.id = "f2", !.link = [id |-> "u2"]],
   [Plain EXCEPT !.id = "f3", !.kind = "call",
                 !.header = [linked |-> FALSE, incoming |-> TRUE, parts |-> 3]]}

MCOtherIds ==
  {NoIds, [users |-> Only("u2" :> Number("7")), contacts |-> Only("u1" :> String("7"))]}
=============================================================================
