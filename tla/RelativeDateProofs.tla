------------------------- MODULE RelativeDateProofs -------------------------
(* The days of parseMessages(), for every instant and every time zone. *)
EXTENDS RelativeDate, TLAPS

Today == LocalDay(rendered, zone)

WordOf(i) == Word(feeds[i], rendered, zone)

\* What a feed's day is made from: an instant between the rendering and now.
FeedInv(i) ==
  /\ dates[i] \in Int
  /\ WordOf(i) = "date" => dates[i] = feeds[i]
  /\ WordOf(i) = "today" =>
       UtcDay(rendered) <= dates[i] /\ dates[i] <= UtcDay(now)
  /\ WordOf(i) = "yesterday" =>
       /\ UtcDay(rendered - Day - shift) <= dates[i]
       /\ dates[i] <= UtcDay(now - Day - shift)

\* The inductive invariant.
IInv ==
  /\ TypeOK
  /\ \A i \in DOMAIN dates : feeds[i] # None => FeedInv(i)
  /\ OrderIsKept

-----------------------------------------------------------------------------

\* Calendars: days are integers, and later instants have later days.
LEMMA Days ==
  ASSUME NEW a \in Int, NEW b \in Int, a <= b
  PROVE  UtcDay(a) \in Int /\ UtcDay(b) \in Int /\ UtcDay(a) <= UtcDay(b)
BY DEF UtcDay, Day, Hour

\* The page's day and the UTC day differ by at most one, as long as the job
\* runs, and yesterday's UTC date is not before the day before yesterday.
LEMMA CalendarsAreClose ==
  ASSUME NEW r \in Int, NEW t \in r..(r + 2 * Hour),
         NEW z \in -(12 * Hour)..(14 * Hour), NEW s \in -Hour..Hour
  PROVE  /\ LocalDay(r, z) \in Int
         /\ LocalDay(r, z) - 1 <= UtcDay(r)
         /\ UtcDay(t) <= LocalDay(r, z) + 1
         /\ LocalDay(r, z) - 2 <= UtcDay(r - Day - s)
         /\ UtcDay(t - Day - s) <= LocalDay(r, z)
BY DEF LocalDay, UtcDay, Day, Hour

\* Before midnight on both calendars there is no doubt about yesterday.
LEMMA Yesterday ==
  ASSUME NEW r \in Int
  PROVE  UtcDay(r - Day - 0) = UtcDay(r) - 1
BY DEF UtcDay, Day, Hour

\* The feeds of a page are a sequence, in order, and none is of the future.
LEMMA HistoryFacts ==
  ASSUME NEW r, NEW z, LocalDay(r, z) \in Int, NEW h \in Histories(r, z)
  PROVE  /\ h \in Seq(Int \cup {None})
         /\ \A i \in DOMAIN h : h[i] # None => h[i] <= LocalDay(r, z)
         /\ \A i, j \in DOMAIN h :
              i < j /\ h[i] # None /\ h[j] # None => h[i] <= h[j]
<1> DEFINE today == LocalDay(r, z)
<1>1. PICK n \in 0..MaxFeeds : h \in [1..n -> {today - 2, today - 1, today} \cup {None}]
  BY DEF Histories
<1>2. n \in Nat
  BY <1>1, CalendarAssumption
<1>3. h \in [1..n -> Int \cup {None}]
  BY <1>1
<1>4. h \in Seq(Int \cup {None})
  BY <1>2, <1>3
<1>5. \A i \in DOMAIN h : h[i] # None => h[i] <= today
  BY <1>1
<1> QED
  BY <1>4, <1>5 DEF Histories

\* What the type invariant says, without sets of functions.
LEMMA Facts ==
  ASSUME TypeOK
  PROVE  /\ Today \in Int
         /\ rendered \in Int /\ now \in rendered..(rendered + 2 * Hour)
         /\ zone \in -(12 * Hour)..(14 * Hour) /\ shift \in -Hour..Hour
         /\ feeds \in Seq(Int \cup {None})
         /\ \A i \in DOMAIN feeds : feeds[i] # None => feeds[i] <= Today
         /\ \A i, j \in DOMAIN feeds :
              i < j /\ feeds[i] # None /\ feeds[j] # None => feeds[i] <= feeds[j]
<1>1. /\ rendered \in Int /\ now \in rendered..(rendered + 2 * Hour)
      /\ zone \in -(12 * Hour)..(14 * Hour) /\ shift \in -Hour..Hour
  BY CalendarAssumption DEF TypeOK, Hour
<1>2. LocalDay(rendered, zone) \in Int
  BY <1>1 DEF LocalDay, Day, Hour
<1>3. feeds \in Histories(rendered, zone)
  BY DEF TypeOK
<1> QED
  BY <1>1, <1>2, <1>3, HistoryFacts DEF Today

-----------------------------------------------------------------------------

LEMMA Initially == Init => IInv
<1> SUFFICES ASSUME Init PROVE IInv
  OBVIOUS
<1>1. now \in rendered..(rendered + MaxDelay) /\ DOMAIN dates = {} /\ Len(dates) = 0
  BY CalendarAssumption DEF Init, Hour
<1>2. LocalDay(rendered, zone) \in Int
  BY CalendarAssumption DEF Init, LocalDay, Day, Hour
<1>3. feeds \in Seq(Int \cup {None})
  BY <1>2, HistoryFacts DEF Init
<1>4. Len(feeds) \in Nat
  BY <1>3
<1>5. TypeOK
  BY <1>1, <1>4 DEF TypeOK, Init
<1> QED
  BY <1>1, <1>5 DEF IInv, OrderIsKept

LEMMA WaitStep == ASSUME IInv, Wait PROVE IInv'
<1>1. /\ rendered' = rendered /\ zone' = zone /\ shift' = shift
      /\ feeds' = feeds /\ dates' = dates /\ now' = now + 1
      /\ now' \in rendered..(rendered + MaxDelay)
  BY CalendarAssumption, Facts DEF Wait, IInv, TypeOK, Hour
<1>2. TypeOK'
  BY <1>1 DEF IInv, TypeOK
<1>3. ASSUME NEW i \in DOMAIN dates, feeds[i] # None PROVE FeedInv(i)'
  <2>1. FeedInv(i)
    BY <1>3 DEF IInv
  <2>2. now \in Int /\ rendered \in Int /\ shift \in Int
    BY Facts DEF IInv, Hour
  <2>3. UtcDay(now) <= UtcDay(now + 1) /\ UtcDay(now) \in Int /\ UtcDay(now + 1) \in Int
    BY <2>2, Days
  <2>4. /\ UtcDay(now - Day - shift) <= UtcDay(now + 1 - Day - shift)
        /\ UtcDay(now - Day - shift) \in Int /\ UtcDay(now + 1 - Day - shift) \in Int
    <3>1. /\ now - Day - shift \in Int /\ now + 1 - Day - shift \in Int
          /\ now - Day - shift <= now + 1 - Day - shift
      BY <2>2 DEF Day, Hour
    <3> QED
      BY <3>1, Days
  <2>5. UtcDay(rendered) \in Int /\ UtcDay(rendered - Day - shift) \in Int
    BY <2>2 DEF UtcDay, Day, Hour
  <2>6. dates[i] \in Int
    BY <2>1 DEF FeedInv
  <2>7. WordOf(i)' = WordOf(i)
    BY <1>1 DEF WordOf, Word, LocalDay
  <2>8. UtcDay(rendered)' = UtcDay(rendered) /\ UtcDay(now)' = UtcDay(now + 1)
    BY <1>1 DEF UtcDay
  <2>9. /\ UtcDay(rendered - Day - shift)' = UtcDay(rendered - Day - shift)
        /\ UtcDay(now - Day - shift)' = UtcDay(now + 1 - Day - shift)
    BY <1>1, <2>2 DEF UtcDay, Day, Hour
  <2> HIDE DEF UtcDay
  <2> QED
    BY <1>1, <2>1, <2>3, <2>4, <2>5, <2>6, <2>7, <2>8, <2>9 DEF FeedInv
<1> QED
  BY <1>1, <1>2, <1>3 DEF IInv, OrderIsKept

\* The day a feed gets now.
LEMMA NewDay ==
  ASSUME TypeOK, NEW n \in DOMAIN feeds, feeds[n] # None,
         NEW new, new = DayOf(WordOf(n), feeds[n], now, shift)
  PROVE  /\ new \in Int
         /\ WordOf(n) = "date" => new = feeds[n] /\ feeds[n] <= Today - 2
         /\ WordOf(n) = "today" => new = UtcDay(now) /\ feeds[n] = Today
         /\ WordOf(n) = "yesterday" =>
              new = UtcDay(now - Day - shift) /\ feeds[n] = Today - 1
         /\ WordOf(n) \in {"date", "today", "yesterday"}
<1>1. /\ Today \in Int /\ now \in Int /\ shift \in Int /\ feeds[n] \in Int
      /\ feeds[n] <= Today
  <2>1. feeds[n] \in Int \cup {None}
    BY Facts
  <2> QED
    BY <2>1, Facts DEF Hour
<1>2. UtcDay(now) \in Int /\ UtcDay(now - Day - shift) \in Int
  BY <1>1 DEF UtcDay, Day, Hour
<1>3. WordOf(n) = IF feeds[n] = Today THEN "today"
                  ELSE IF feeds[n] = Today - 1 THEN "yesterday" ELSE "date"
  BY DEF WordOf, Word, Today
<1> QED
  BY <1>1, <1>2, <1>3 DEF DayOf

LEMMA ParseStep == ASSUME IInv, ParseDate PROVE IInv'
<1>0. PICK n : n = Len(dates) + 1
  OBVIOUS
<1> DEFINE new == IF feeds[n] = None THEN None
                  ELSE DayOf(WordOf(n), feeds[n], now, shift)
<1>1. TypeOK
  BY DEF IInv
<1>2. /\ rendered' = rendered /\ now' = now /\ zone' = zone /\ shift' = shift
      /\ feeds' = feeds /\ Len(dates) < Len(feeds) /\ dates' = Append(dates, new)
  BY <1>0 DEF ParseDate, WordOf
<1>3. feeds \in Seq(Int \cup {None})
  BY <1>1, Facts
<1>4. dates \in Seq(Int \cup {None})
  BY <1>1 DEF TypeOK
<1>5. n \in DOMAIN feeds
  BY <1>0, <1>2, <1>3, <1>4
<1>6. new \in Int \cup {None} /\ (new = None <=> feeds[n] = None)
  BY <1>1, <1>5, NewDay, CalendarAssumption
<1> HIDE DEF new
<1>7. /\ Len(dates') = n /\ DOMAIN dates' = 1..n /\ dates'[n] = new
      /\ DOMAIN dates = 1..(n - 1) /\ \A i \in 1..(n - 1) : dates'[i] = dates[i]
  BY <1>0, <1>2, <1>4, <1>6
<1>8. TypeOK'
  BY <1>1, <1>2, <1>3, <1>4, <1>5, <1>6, <1>7 DEF TypeOK
<1>9. \A i \in DOMAIN dates : dates[i] = None <=> feeds[i] = None
  BY <1>1 DEF TypeOK
<1>10. ASSUME NEW i \in DOMAIN dates, feeds[i] # None
       PROVE  FeedInv(i)' /\ dates'[i] = dates[i]
  BY <1>2, <1>7, <1>10 DEF IInv, FeedInv, WordOf, UtcDay
<1>11. ASSUME feeds[n] # None
       PROVE  /\ FeedInv(n)'
              /\ \A i \in DOMAIN dates : feeds[i] # None => dates[i] <= new
  <2>1. new = DayOf(WordOf(n), feeds[n], now, shift)
    BY <1>11 DEF new
  <2>2. /\ new \in Int
        /\ WordOf(n) = "date" => new = feeds[n] /\ feeds[n] <= Today - 2
        /\ WordOf(n) = "today" => new = UtcDay(now) /\ feeds[n] = Today
        /\ WordOf(n) = "yesterday" =>
             new = UtcDay(now - Day - shift) /\ feeds[n] = Today - 1
        /\ WordOf(n) \in {"date", "today", "yesterday"}
    BY <1>1, <1>5, <1>11, <2>1, NewDay
  <2>3. /\ rendered \in Int /\ now \in Int /\ shift \in -Hour..Hour /\ rendered <= now
        /\ Today \in Int
    BY <1>1, Facts DEF Hour
  <2>4. /\ UtcDay(rendered) \in Int /\ UtcDay(now) \in Int
        /\ UtcDay(rendered) <= UtcDay(now)
    BY <2>3, Days
  <2>5. /\ UtcDay(rendered - Day - shift) \in Int /\ UtcDay(now - Day - shift) \in Int
        /\ UtcDay(rendered - Day - shift) <= UtcDay(now - Day - shift)
        /\ UtcDay(now - Day - shift) <= UtcDay(now)
    <3>1. /\ rendered - Day - shift \in Int /\ now - Day - shift \in Int
          /\ rendered - Day - shift <= now - Day - shift
          /\ now - Day - shift <= now
      BY <2>3 DEF Day, Hour
    <3> QED
      BY <2>3, <3>1, Days
  <2>6. WordOf(n)' = WordOf(n)
    BY <1>2 DEF WordOf
  <2>7. FeedInv(n)'
    BY <1>2, <1>7, <2>2, <2>4, <2>5 DEF FeedInv, WordOf, UtcDay
  <2>8. ASSUME NEW i \in DOMAIN dates, feeds[i] # None
        PROVE  dates[i] <= new
    <3>1. /\ i \in DOMAIN feeds /\ i < n
      BY <1>3, <1>5, <1>7, <1>4
    <3>2. feeds[i] \in Int /\ feeds[n] \in Int /\ feeds[i] <= feeds[n]
      BY <1>1, <1>3, <1>5, <1>11, <2>8, <3>1, Facts
    <3>3. FeedInv(i)
      BY <2>8 DEF IInv
    <3>4. /\ WordOf(i) = "date" => feeds[i] <= Today - 2
          /\ WordOf(i) = "today" => feeds[i] = Today
          /\ WordOf(i) = "yesterday" => feeds[i] = Today - 1
          /\ WordOf(i) \in {"date", "today", "yesterday"}
      BY <1>1, <2>8, <3>1, NewDay
    <3>5. /\ Today - 2 <= UtcDay(rendered - Day - shift)
          /\ Today - 1 <= UtcDay(rendered)
      BY <1>1, Facts, CalendarsAreClose DEF Today
    <3> HIDE DEF UtcDay
    <3> QED
      BY <2>2, <2>3, <2>4, <2>5, <3>2, <3>3, <3>4, <3>5 DEF FeedInv
  <2> QED
    BY <2>7, <2>8
<1>12. ASSUME NEW i \in DOMAIN dates', feeds'[i] # None PROVE FeedInv(i)'
  <2>1. CASE i = n
    BY <1>2, <1>11, <1>12, <2>1
  <2>2. CASE i \in DOMAIN dates
    BY <1>2, <1>10, <1>12, <2>2
  <2> QED
    BY <1>4, <1>7, <1>12, <2>1, <2>2
<1>13. OrderIsKept'
  <2> SUFFICES ASSUME NEW i \in DOMAIN dates', NEW j \in DOMAIN dates',
                      i < j, feeds[i] # None, feeds[j] # None
               PROVE  dates'[i] <= dates'[j]
    BY <1>2 DEF OrderIsKept
  <2>1. i \in DOMAIN dates /\ (j = n \/ j \in DOMAIN dates)
    BY <1>4, <1>7
  <2>2. CASE j = n
    BY <1>7, <1>11, <2>1, <2>2
  <2>3. CASE j \in DOMAIN dates
    BY <1>7, <2>1, <2>3 DEF IInv, OrderIsKept
  <2> QED
    BY <2>1, <2>2, <2>3
<1> QED
  BY <1>8, <1>12, <1>13 DEF IInv

-----------------------------------------------------------------------------

\* The days of a feed stay between what its word means at the rendering and
\* what it means now, and later feeds never get earlier days.
THEOREM Invariance == Spec => []IInv
<1>1. ASSUME IInv, [Next]_vars PROVE IInv'
  <2>1. CASE Wait
    BY <1>1, <2>1, WaitStep
  <2>2. CASE ParseDate
    BY <1>1, <2>2, ParseStep
  <2>3. CASE UNCHANGED vars
    BY <1>1, <2>3
       DEF vars, IInv, TypeOK, OrderIsKept, FeedInv, WordOf, UtcDay
  <2> QED
    BY <1>1, <2>1, <2>2, <2>3 DEF Next
<1> QED
  BY <1>1, Initially, PTL DEF Spec

\* Every variable has its type.
THEOREM TypeCorrect == Spec => []TypeOK
<1>1. IInv => TypeOK
  BY DEF IInv
<1> QED
  BY <1>1, Invariance, PTL

\* Whoever sorts the messages of a lead by dateIso keeps the order of the page.
THEOREM OrderPreserved == Spec => []OrderIsKept
<1>1. IInv => OrderIsKept
  BY DEF IInv
<1> QED
  BY <1>1, Invariance, PTL

\* In every time zone, at every time of day and across a change of the clocks,
\* dateIso is off by at most one day.
THEOREM AtMostOneDay == Spec => []OffByAtMostOne
<1>1. ASSUME IInv PROVE OffByAtMostOne
  <2> SUFFICES ASSUME NEW i \in DOMAIN dates, feeds[i] # None
               PROVE  dates[i] - feeds[i] \in {-1, 0, 1}
    BY DEF OffByAtMostOne
  <2>1. TypeOK /\ FeedInv(i)
    BY <1>1 DEF IInv
  <2>2. i \in DOMAIN feeds
    BY <2>1, Facts DEF TypeOK
  <2>3. /\ WordOf(i) = "today" => feeds[i] = Today
        /\ WordOf(i) = "yesterday" => feeds[i] = Today - 1
        /\ WordOf(i) \in {"date", "today", "yesterday"}
    BY <2>1, <2>2, NewDay
  <2>4. /\ Today - 1 <= UtcDay(rendered)
        /\ UtcDay(now) <= Today + 1
        /\ Today - 2 <= UtcDay(rendered - Day - shift)
        /\ UtcDay(now - Day - shift) <= Today
    BY <2>1, Facts, CalendarsAreClose DEF Today
  <2>5. /\ UtcDay(rendered) \in Int /\ UtcDay(now) \in Int
        /\ UtcDay(rendered - Day - shift) \in Int
        /\ UtcDay(now - Day - shift) \in Int
    <3>1. rendered \in Int /\ now \in Int /\ shift \in Int
      BY <2>1, Facts DEF Hour
    <3> QED
      BY <3>1 DEF UtcDay, Day, Hour
  <2>6. Today \in Int /\ dates[i] \in Int /\ feeds[i] \in Int \cup {None}
    BY <2>1, <2>2, Facts DEF FeedInv
  <2> QED
    BY <2>1, <2>3, <2>4, <2>5, <2>6 DEF FeedInv
<1> QED
  BY <1>1, Invariance, PTL

\* While the page's calendar and UTC agree, every date is right.
THEOREM RightByDay == Spec => []RightWhileCalendarsAgree
<1>1. ASSUME IInv PROVE RightWhileCalendarsAgree
  <2> SUFFICES ASSUME UtcDay(rendered) = Today, UtcDay(now) = Today, shift = 0,
                      NEW i \in DOMAIN dates
               PROVE  dates[i] = feeds[i]
    BY DEF RightWhileCalendarsAgree, Today
  <2>1. TypeOK
    BY <1>1 DEF IInv
  <2>2. CASE feeds[i] = None
    BY <2>1, <2>2 DEF TypeOK
  <2>3. CASE feeds[i] # None
    <3>1. FeedInv(i) /\ i \in DOMAIN feeds
      BY <1>1, <2>1, <2>3, Facts DEF IInv, TypeOK
    <3>2. /\ WordOf(i) = "today" => feeds[i] = Today
          /\ WordOf(i) = "yesterday" => feeds[i] = Today - 1
          /\ WordOf(i) \in {"date", "today", "yesterday"}
      BY <2>1, <2>3, <3>1, NewDay
    <3>3. rendered \in Int /\ now \in Int /\ Today \in Int
      BY <2>1, Facts DEF Hour
    <3>4. /\ UtcDay(rendered - Day - shift) = Today - 1
          /\ UtcDay(now - Day - shift) = Today - 1
      BY <3>3, Yesterday
    <3>5. dates[i] \in Int
      BY <3>1 DEF FeedInv
    <3> QED
      BY <3>1, <3>2, <3>3, <3>4, <3>5 DEF FeedInv
  <2> QED
    BY <2>2, <2>3
<1> QED
  BY <1>1, Invariance, PTL
=============================================================================
