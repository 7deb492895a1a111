---------------------------- MODULE RelativeDate ----------------------------
(***************************************************************************)
(* The dates of parseMessages(): amoCRM shows a feed of today or yesterday *)
(* as such, on the calendar of its time zone, when it renders the page;    *)
(* the code puts the UTC date of its own clock in place of the word, one   *)
(* feed after another, possibly after midnight.                            *)
(*                                                                         *)
(* Instants are quarter hours, the unit of time zones; a day is named by   *)
(* its number.  moment() keeps the day of a date and nothing else of it.   *)
(***************************************************************************)
EXTENDS Integers, Sequences

CONSTANTS
  Rendered,  \* instants at which the page may be rendered
  Zones,     \* time zones of the page, as quarter hours ahead of UTC
  Shifts,    \* how much longer than a day the server's last local day was
  MaxDelay,  \* bound: quarter hours from the rendering to the last feed
  MaxFeeds,  \* bound: feeds with a date
  None       \* a feed without a date

Hour == 4
Day  == 24 * Hour

\* Local time is at most 14 hours ahead of UTC and 12 behind, clocks are moved
\* by an hour at most, and a job that opened its page is over within 2 hours.
ASSUME CalendarAssumption ==
  /\ Rendered \subseteq Int
  /\ Zones \subseteq -(12 * Hour)..(14 * Hour)
  /\ Shifts \subseteq -Hour..Hour
  /\ MaxDelay \in 0..(2 * Hour)
  /\ MaxFeeds \in Nat
  /\ None \notin Int

VARIABLES
  rendered,  \* when amoCRM rendered the page
  now,       \* the clock of the server
  zone,      \* the time zone of the page
  shift,     \* the length of the server's last local day, minus a day
  feeds,     \* the day of each feed, oldest first
  dates      \* the days the code has made of the feeds so far

vars == <<rendered, now, zone, shift, feeds, dates>>

-----------------------------------------------------------------------------
(* Calendars. *)

UtcDay(t)       == t \div Day
LocalDay(t, z)  == (t + z) \div Day

\* What amoCRM shows of a feed of day d on a page it renders at r.
Word(d, r, z) ==
  IF d = LocalDay(r, z) THEN "today"
  ELSE IF d = LocalDay(r, z) - 1 THEN "yesterday"
  ELSE "date"

\* Mutant: yesterday is two days before now.
DayOfLate(word, d, t, s) ==
  IF word = "today" THEN UtcDay(t)
  ELSE IF word = "yesterday" THEN UtcDay(t - 2 * Day - s)
  ELSE d

\* new Date().toJSON() is in UTC; setDate(getDate() - 1) goes back one local
\* day before that; a date is parsed as it stands.
DayOf(word, d, t, s) ==
  IF word = "today" THEN UtcDay(t)
  ELSE IF word = "yesterday" THEN UtcDay(t - Day - s)
  ELSE d

-----------------------------------------------------------------------------

\* Days as far back as the day before yesterday, in the order of the page; of
\* days before that the page shows nothing else.
Histories(r, z) ==
  LET today == LocalDay(r, z)
      Days  == {today - 2, today - 1, today}
  IN  {h \in UNION {[1..n -> Days \cup {None}] : n \in 0..MaxFeeds} :
         \A i, j \in DOMAIN h :
           i < j /\ h[i] # None /\ h[j] # None => h[i] <= h[j]}

Init ==
  /\ rendered \in Rendered
  /\ now = rendered
  /\ zone \in Zones
  /\ shift \in Shifts
  /\ feeds \in Histories(rendered, zone)
  /\ dates = <<>>

\* Time passes before the page is parsed, and between two feeds.
Wait ==
  /\ now < rendered + MaxDelay
  /\ now' = now + 1
  /\ UNCHANGED <<rendered, zone, shift, feeds, dates>>

\* Mutant: the days of the feeds are put in the order they are parsed from.
ParseDateFirst ==
  /\ Len(dates) < Len(feeds)
  /\ LET d == feeds[Len(dates) + 1]
         word == Word(d, rendered, zone)
     IN  dates' = <<IF d = None THEN None ELSE DayOf(word, d, now, shift)>> \o dates
  /\ UNCHANGED <<rendered, now, zone, shift, feeds>>

\* `if (!isEmpty(message.date))`: the words are replaced and the day is parsed.
ParseDate ==
  /\ Len(dates) < Len(feeds)
  /\ LET d == feeds[Len(dates) + 1]
         word == Word(d, rendered, zone)
     IN  dates' = Append(dates, IF d = None THEN None ELSE DayOf(word, d, now, shift))
  /\ UNCHANGED <<rendered, now, zone, shift, feeds>>

Next == Wait \/ ParseDate

Spec == Init /\ [][Next]_vars

-----------------------------------------------------------------------------
(* Properties. *)

\* Every variable has its type; a feed has a day exactly if it shows a date.
TypeOK ==
  /\ rendered \in Rendered
  /\ now \in rendered..(rendered + MaxDelay)
  /\ zone \in Zones
  /\ shift \in Shifts
  /\ feeds \in Histories(rendered, zone)
  /\ dates \in Seq(Int \cup {None})
  /\ Len(dates) <= Len(feeds)
  /\ \A i \in DOMAIN dates : dates[i] = None <=> feeds[i] = None

\* Around midnight, in other time zones, across a change of the clocks and over
\* a page that is a while old, dateIso is off by at most one day.
OffByAtMostOne ==
  \A i \in DOMAIN dates :
     feeds[i] # None => dates[i] - feeds[i] \in {-1, 0, 1}

\* Whoever sorts the messages of a lead by dateIso keeps the order of the page,
\* although two feeds of one day may have been parsed on two.
OrderIsKept ==
  \A i, j \in DOMAIN dates :
     i < j /\ feeds[i] # None /\ feeds[j] # None => dates[i] <= dates[j]

\* While the page's calendar and UTC agree on the day, and the clocks were not
\* moved, every date is right.
RightWhileCalendarsAgree ==
  LET today == LocalDay(rendered, zone)
  IN  UtcDay(rendered) = today /\ UtcDay(now) = today /\ shift = 0
        => \A i \in DOMAIN dates : dates[i] = feeds[i]
=============================================================================
