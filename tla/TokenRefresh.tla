---------------------------- MODULE TokenRefresh ----------------------------
(***************************************************************************)
(* POST /auth and POST /auth/refresh of one user, served by any of the     *)
(* processes.  The user document has room for one refresh token; a call    *)
(* reads the document, signs new tokens and writes the refresh token back, *)
(* each in a step of its own.  A token is named by the call that signed it *)
(* (its jwtid is a fresh random string).                                   *)
(***************************************************************************)
CONSTANTS
  SignIns,    \* the calls of signIn()
  Refreshes,  \* the calls of refreshTokens()
  None        \* no token

Calls == SignIns \cup Refreshes

ASSUME CallsAssumption ==
  /\ SignIns \cap Refreshes = {}
  /\ None \notin Calls

VARIABLES
  refreshToken,  \* user.refreshToken in the database
  pc,            \* where each call is
  presented,     \* the token a refresh call was sent with
  current,       \* history: calls whose presented token was the stored one
                 \* at some moment since they were sent
  past           \* history: the tokens that were stored and replaced

vars == <<refreshToken, pc, presented, current, past>>

InFlight == {"find", "sign", "update", "answer"}

\* Every variable keeps its type: the database holds a token that was signed.
TypeOK ==
  /\ refreshToken \in Calls \cup {None}
  /\ pc \in [Calls -> InFlight \cup {"unsent", "answered", "refused", "lost"}]
  /\ presented \in [Calls -> Calls \cup {None}]
  /\ current \subseteq Calls
  /\ past \subseteq Calls

Init ==
  /\ refreshToken = None
  /\ pc = [c \in Calls |-> "unsent"]
  /\ presented = [c \in Calls |-> None]
  /\ current = {}
  /\ past = {}

-----------------------------------------------------------------------------

Go(c, next) == pc' = [pc EXCEPT ![c] = next]

\* The tokens some client was answered with.
Held == {c \in Calls : pc[c] = "answered"}

\* A client signs in, or refreshes with a token it got.
Send(c) ==
  /\ pc[c] = "unsent"
  /\ Go(c, "find")
  /\ \/ /\ c \in SignIns
        /\ UNCHANGED <<presented, current>>
     \/ /\ c \in Refreshes
        /\ \E t \in Held :
             /\ presented' = [presented EXCEPT ![c] = t]
             /\ current' = IF t = refreshToken THEN current \cup {c} ELSE current
  /\ UNCHANGED <<refreshToken, past>>

\* Mutant: any token with a good signature is accepted.
FindUnchecked(c) ==
  /\ pc[c] = "find"
  /\ Go(c, "sign")
  /\ UNCHANGED <<refreshToken, presented, current, past>>

\* findByLogin() or findById(), and the check of what was presented.
Find(c) ==
  /\ pc[c] = "find"
  /\ c \in Refreshes => presented[c] = refreshToken
  /\ Go(c, "sign")
  /\ UNCHANGED <<refreshToken, presented, current, past>>

\* BadRequestException: the password, the token or the user is wrong.
\* UnauthorizedException: the refresh token has expired.
Refuse(c) ==
  /\ pc[c] = "find"
  /\ Go(c, "refused")
  /\ UNCHANGED <<refreshToken, presented, current, past>>

\* The document of the user holds token t from now on.
Store(t) ==
  /\ refreshToken' = t
  /\ past' = past \cup ({refreshToken} \ {None, t})
  /\ current' = current \cup {c \in Calls : presented[c] = t /\ pc[c] \in InFlight}

\* Mutant: the token is stored before the call is sure to end well.
SignAndStore(c) ==
  /\ pc[c] = "sign"
  /\ Store(c)
  /\ Go(c, "update")
  /\ UNCHANGED presented

\* Mutant: the call answers while the update is still on its way.
SignAndAnswer(c) ==
  /\ pc[c] = "sign"
  /\ Go(c, "answer")
  /\ UNCHANGED <<refreshToken, presented, current, past>>

\* getTokens().
Sign(c) ==
  /\ pc[c] = "sign"
  /\ Go(c, "update")
  /\ UNCHANGED <<refreshToken, presented, current, past>>

\* Mutant: the presented token is written back.
UpdateBack(c) ==
  /\ pc[c] = "update"
  /\ Store(IF c \in Refreshes THEN presented[c] ELSE c)
  /\ Go(c, "answer")
  /\ UNCHANGED presented

\* Mutant: the pair of tokens is stored instead of the refresh token.
UpdateWithBoth(c) ==
  /\ pc[c] = "update"
  /\ Store(<<c, c>>)
  /\ Go(c, "answer")
  /\ UNCHANGED presented

\* findByIdAndUpdate() does not look at the token it replaces.
Update(c) ==
  /\ pc[c] = "update"
  /\ Store(c)
  /\ Go(c, "answer")
  /\ UNCHANGED presented

\* The client gets the tokens.
Answer(c) ==
  /\ pc[c] = "answer"
  /\ Go(c, "answered")
  /\ UNCHANGED <<refreshToken, presented, current, past>>

\* The process of the call ends, see TaskReporting.
Lose(c) ==
  /\ pc[c] \in InFlight
  /\ Go(c, "lost")
  /\ UNCHANGED <<refreshToken, presented, current, past>>

Next ==
  \E c \in Calls : \/ Send(c) \/ Find(c) \/ Refuse(c) \/ Sign(c) \/ Update(c)
                   \/ Answer(c) \/ Lose(c)

Spec == Init /\ [][Next]_vars

-----------------------------------------------------------------------------

\* A refresh that gets past the check was sent with a token that was the
\* current one at some moment since: a token that was replaced before the
\* refresh was sent is refused, whatever other calls are doing.
RefreshedWasCurrent ==
  \A c \in Refreshes : pc[c] \in {"sign", "update", "answer", "answered"} => c \in current

\* Calls overwrite each other's token in any order, but a token that was
\* replaced never becomes the current one again.
ReplacedForGood == [][ refreshToken' \notin past ]_vars

\* Somebody can go on refreshing: the current token belongs to a client that
\* has it or is about to get it, unless the process of its call ended.
CurrentIsHeld ==
  refreshToken # None => pc[refreshToken] \in {"answer", "answered", "lost"}

\* The first token a client got is current until another one is stored: an
\* answered token is current, or it was.
AnsweredWasStored == \A c \in Held : c = refreshToken \/ c \in past

\* What it costs to lose the answer of a call whose token is stored: from then
\* on every refresh is refused, with whatever token, until somebody signs in
\* again or a call that was let through before stores its own.
LostLocksOut ==
  [][ refreshToken # None /\ pc[refreshToken] = "lost" =>
        \A c \in Refreshes : ~(pc[c] = "find" /\ pc'[c] = "sign") ]_vars

-----------------------------------------------------------------------------

\* Why these hold: a token is stored by the call that signed it, and only
\* when that call goes from its update to its answer; what is presented was
\* answered.
IInv ==
  /\ TypeOK
  /\ RefreshedWasCurrent
  /\ CurrentIsHeld
  /\ AnsweredWasStored
  /\ refreshToken \notin past
  /\ \A c \in Calls : c = refreshToken \/ c \in past =>
       pc[c] \in {"answer", "answered", "lost"}
  /\ \A c \in Calls : pc[c] = "answer" => c = refreshToken \/ c \in past
  /\ \A c \in Refreshes : pc[c] \in InFlight /\ presented[c] = refreshToken => c \in current
  /\ \A c \in Refreshes : pc[c] # "unsent" => presented[c] # None
  /\ \A c \in Refreshes : presented[c] # None => pc[presented[c]] = "answered"

\* README.md, POST /auth/refresh: the caller passes its current refresh token.
RefreshReplacesItsToken ==
  [][ \A c \in Refreshes : pc[c] = "update" /\ pc'[c] = "answer" =>
        presented[c] = refreshToken ]_vars
=============================================================================
