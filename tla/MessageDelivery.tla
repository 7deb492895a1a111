--------------------------- MODULE MessageDelivery ---------------------------
(***************************************************************************)
(* What POST /message/send promises about the keys that a request is typed *)
(* with, whatever jobs, pages and listeners do: each is pressed at most    *)
(* once, accepted by amoCRM at most once, never after it was lost, and not *)
(* after a later key of its message.  A message may be accepted in parts.  *)
(***************************************************************************)
EXTENDS Sequences

CONSTANTS
  Keys,       \* the keys of all requests
  Order,      \* the pairs of keys of one message, the earlier one first
  Entries     \* what amoCRM records of what it accepts

VARIABLES
  waiting,    \* the keys that are not pressed yet
  drafted,    \* those that are in a composer
  outbox      \* the entries amoCRM accepted, in order

Init ==
  /\ waiting = Keys
  /\ drafted = {}
  /\ outbox = <<>>

\* Any keys that were not accepted may be lost at any time: overwritten, pressed
\* elsewhere, or their page, job or process gone.
Lose ==
  /\ waiting' \subseteq waiting
  /\ drafted' \subseteq drafted
  /\ UNCHANGED outbox

\* A key is pressed after those before it, and gets into a composer.
Press(k) ==
  /\ k \in waiting
  /\ waiting' \subseteq waiting \ {k}
  /\ drafted' \subseteq drafted \cup {k}
  /\ \A o \in Order : o[2] = k => o[1] \notin waiting
  /\ UNCHANGED outbox

\* What is accepted leaves nothing behind that comes before it.
Post(e) ==
  /\ outbox' = Append(outbox, e)
  /\ e.text # {}
  /\ e.text \subseteq drafted
  /\ waiting' \subseteq waiting
  /\ drafted' \subseteq drafted \ e.text
  /\ \A o \in Order : o[2] \in e.text /\ o[1] \notin e.text =>
                        o[1] \notin waiting \cup drafted

Next ==
  \/ Lose
  \/ \E k \in Keys : Press(k)
  \/ \E e \in Entries : Post(e)

Spec == Init /\ [][Next]_<<waiting, drafted, outbox>>
=============================================================================
