------------------------------- MODULE Dates -------------------------------
(***************************************************************************)
(* Days and times as the household says them: voice/local/dates.py, and    *)
(* the durations and clock times of voice/local/interpreter.py.            *)
(*                                                                         *)
(* What regular expressions find in the text is the input: a phrase is a   *)
(* record of the words that matched, with the numbers the word tables give *)
(* them.  What is computed from them, and in which order, is the code's.   *)
(* A day is its ordinal (date.toordinal: day 1 is a Monday), a time of day *)
(* is a minute, and a moment is 1440 * day + minute.                       *)
(***************************************************************************)
EXTENDS Integers, FiniteSets, FiniteSetsExt

\* datetime.date ------------------------------------------------------------
Leap(y) == y % 4 = 0 /\ (y % 100 # 0 \/ y % 400 = 0)

DaysIn(y, m) ==
  CASE m = 2 -> IF Leap(y) THEN 29 ELSE 28
    [] m \in {4, 6, 9, 11} -> 30
    [] OTHER -> 31

NewYear(y) == 365 * (y - 1) + (y - 1) \div 4 - (y - 1) \div 100 + (y - 1) \div 400 + 1
LastDay == 3652059  \* date.max, the end of 9999
DaysBefore == <<0, 31, 59, 90, 120, 151, 181, 212, 243, 273, 304, 334>>
FirstOf(y, m) == NewYear(y) + DaysBefore[m] + (IF m > 2 /\ Leap(y) THEN 1 ELSE 0)
Day(y, m, d) == FirstOf(y, m) + d - 1
NextMonth(y, m) == IF m = 12 THEN <<y + 1, 1>> ELSE <<y, m + 1>>
Year(day) == LET guess == day \div 366 + 1
             IN CHOOSE y \in guess .. (guess + 24) : NewYear(y) <= day /\ day < NewYear(y + 1)
MonthOf(y, day) ==
  CHOOSE m \in 1 .. 12 : LET first == FirstOf(y, m) IN first <= day /\ day < first + DaysIn(y, m)
Month(day) == MonthOf(Year(day), day)
Weekday(day) == (day - 1) % 7

-----------------------------------------------------------------------------
\* The marker words resolve_date_expression and the views look for ("this_part"
\* is "this morning", "this afternoon" or "this evening"; "like_a_day"
\* is a weekday's letters inside another word, as in "month").
TodayWords == {"today", "tonight", "now", "this_part"}
Words == TodayWords \cup {"day_after_tomorrow", "tomorrow", "yesterday", "weekend",
          "next_weekend", "next_week", "week", "next_month", "this_month", "like_a_day"}

NoWeekday == 7
Nothing == [words |-> {}, ahead |-> -1, weekday |-> NoWeekday, which |-> "bare", month |-> 0,
            number |-> 0, nth |-> 0, digits |-> FALSE, part |-> "none", side |-> "in"]

At(h, m) == 60 * h + m
DayEnd == At(23, 59)
PartOfDay ==
  [morning |-> <<At(6, 0), At(12, 0)>>, lunch |-> <<At(11, 30), At(13, 0)>>,
   midday |-> <<At(11, 30), At(13, 30)>>, noon |-> <<At(11, 30), At(12, 30)>>,
   afternoon |-> <<At(12, 0), At(17, 0)>>, evening |-> <<At(17, 0), At(23, 0)>>,
   tonight |-> <<At(17, 0), DayEnd>>, night |-> <<At(20, 0), DayEnd>>,
   dinner |-> <<At(17, 30), At(19, 30)>>, breakfast |-> <<At(6, 30), At(8, 30)>>,
   school |-> <<At(8, 0), At(15, 0)>>, work |-> <<At(9, 0), At(17, 0)>>]

\* _time_window: the part of the day, or what follows or precedes it.
TimeWindow(p) ==
  CASE p.part = "none" -> <<>>
    [] p.side = "after" -> <<PartOfDay[p.part][2], DayEnd>>
    [] p.side = "before" -> <<0, PartOfDay[p.part][1]>>
    [] OTHER -> PartOfDay[p.part]

-----------------------------------------------------------------------------
Monday(day) == day - Weekday(day)
ThisWeekday(day, w) == Monday(day) + w

\* Mutant: a bare weekday may be one that is past.
NextWeekdayEarly(day, w) == ThisWeekday(day, w)

\* _next_weekday with allow_today.
NextWeekday(day, w) == day + ((w - Weekday(day)) % 7)

\* "next", "this" and "last" count by weeks that begin on a Monday; a bare
\* name is today's or the next to come.
NamedWeekday(p, today) ==
  CASE p.which = "next" -> Monday(today) + 7 + p.weekday
    [] p.which = "this" -> ThisWeekday(today, p.weekday)
    [] p.which = "last" -> ThisWeekday(today, p.weekday) - 7
    [] OTHER -> NextWeekday(today, p.weekday)

\* _weekend: on a Sunday, the weekend that has begun.
Saturday(day) == IF Weekday(day) = 6 THEN day - 1 ELSE NextWeekday(day, 5)

\* The day of the month that was said: "June 3" before "the 14th", a month's
\* first when there is neither; 0 is none.
DayNumber(p) ==
  IF p.month > 0 /\ p.number > 0 THEN p.number
  ELSE IF p.nth > 0 \/ p.month = 0 THEN p.nth ELSE 1

\* _explicit_day_of_month: 0 is None, -1 a ValueError that nobody catches.
ExplicitDay(p, today, y, now) ==
  LET named == p.month > 0
      m == IF named THEN p.month ELSE now
      d == DayNumber(p)
      Date(month) ==
        IF d \in 1 .. DaysIn(month[1], month[2]) THEN Day(month[1], month[2], d) ELSE 0
      first == Date(<<y, m>>)
      again == Date(<<y + 1, m>>)
  IN IF first = 0 THEN 0
     ELSE IF ~named /\ first < today THEN Date(NextMonth(y, m))
     ELSE IF named /\ first < today - 180 THEN IF again = 0 THEN -1 ELSE again
     ELSE first

\* The first rule, in this order, whose words were said.
Rules == <<"day_after_tomorrow", "tomorrow", "yesterday", "today", "ahead", "weekend", "next_week",
           "week", "next_month", "this_month", "weekday", "month", "day", "part">>

Applies(rule, p, explicit) ==
  CASE rule = "today" -> p.words \cap TodayWords # {}
    [] rule = "ahead" -> p.ahead >= 0
    [] rule = "week" -> "week" \in p.words /\ "like_a_day" \notin p.words /\ p.weekday = NoWeekday
    [] rule = "weekday" -> p.weekday # NoWeekday
    [] rule = "month" -> p.month > 0 /\ ~p.digits
    [] rule = "day" -> explicit # 0
    [] rule = "part" -> p.part # "none"
    [] OTHER -> rule \in p.words

\* First and last day of what the rule names.
Scope(rule, p, today, y, m, explicit) ==
  LET one(day) == <<day, day>>
      month(mm) == <<FirstOf(mm[1], mm[2]), FirstOf(mm[1], mm[2]) + DaysIn(mm[1], mm[2]) - 1>>
      week(monday) == <<monday, monday + 6>>
  IN CASE rule = "day_after_tomorrow" -> one(today + 2)
       [] rule = "tomorrow" -> one(today + 1)
       [] rule = "yesterday" -> one(today - 1)
       [] rule \in {"today", "part"} -> one(today)
       [] rule = "ahead" -> one(today + p.ahead)
       [] rule = "weekend" ->
            LET sat == Saturday(today) + (IF "next_weekend" \in p.words THEN 7 ELSE 0)
            IN <<sat, sat + 1>>
       [] rule = "next_week" -> week(Monday(today) + 7)
       [] rule = "week" -> week(Monday(today))
       [] rule = "next_month" -> month(NextMonth(y, m))
       [] rule = "this_month" -> month(<<y, m>>)
       [] rule = "weekday" -> one(NamedWeekday(p, today))
       [] rule = "month" -> month(<<IF p.month >= m THEN y ELSE y + 1, p.month>>)
       [] rule = "day" -> one(explicit)

\* resolve_date_expression.  No rule is "none"; "raises" is the ValueError,
\* or the OverflowError of a day after the last.
Found(kind, days, window) == [kind |-> kind, start |-> days[1], end |-> days[2], window |-> window]

ResolveIn(p, today, y, m, explicit) ==
  LET said == {i \in DOMAIN Rules : Applies(Rules[i], p, explicit)}
      rule == IF said = {} THEN "none" ELSE Rules[Min(said)]
  IN IF rule = "none" THEN Found("none", <<0, 0>>, <<>>)
     ELSE IF \/ rule = "day" /\ explicit = -1
             \/ rule = "ahead" /\ today + p.ahead > LastDay
          THEN Found("raises", <<0, 0>>, <<>>)
     ELSE Found(rule, Scope(rule, p, today, y, m, explicit), TimeWindow(p))

Resolve(p, today) ==
  LET y == Year(today)
      m == MonthOf(y, today)
  IN ResolveIn(p, today, y, m, ExplicitDay(p, today, y, m))

-----------------------------------------------------------------------------
\* extract_duration_seconds; -1 is None.  "amount" is the sum of the numbers
\* with a unit, "unit" of "an hour", "colon" of "1:30" said of a timer.
NoDuration == [half |-> FALSE, andHalf |-> FALSE, quarter |-> FALSE, hourAndHalf |-> FALSE,
               amount |-> -1, unit |-> -1, colon |-> -1]

DurationSeconds(d) ==
  CASE d.half -> IF d.andHalf THEN 3600 ELSE 1800
    [] ~d.half /\ d.quarter -> 900
    [] ~d.half /\ ~d.quarter /\ d.hourAndHalf -> 5400
    [] OTHER -> IF d.amount >= 0 THEN d.amount
                 ELSE IF d.unit >= 0 THEN d.unit ELSE d.colon

\* extract_clock_time, at the moment now; 0 is None, -1 a ValueError.
\* A number counts as an hour only when it is not "timer for 5"; "o'clock" is
\* a meridiem that is neither am nor pm.
NoClock == [kind |-> "none", hour |-> 0, minute |-> 0, meridiem |-> "none"]

NotPast(moment, now) == IF moment <= now THEN moment + 1440 ELSE moment

ClockTime(c, now) ==
  LET midnight == 1440 * (now \div 1440)
      hour == CASE c.kind = "to" -> (c.hour - 1) % 24
                [] c.kind = "plain" /\ c.meridiem = "pm" /\ c.hour < 12 -> c.hour + 12
                [] c.kind = "plain" /\ c.meridiem = "am" /\ c.hour = 12 -> 0
                [] OTHER -> c.hour
      minute == IF c.kind = "to" THEN 60 - c.minute ELSE c.minute
      at == midnight + At(hour % 24, minute)
      daytime == IF at <= now /\ hour < 12 THEN at + At(12, 0) ELSE at
  IN CASE c.kind = "none" -> 0
       [] c.kind = "noon" -> midnight + At(12, 0)
       [] c.kind = "midnight" -> midnight + 1440
       [] c.kind \in {"plain", "past", "to"} ->
            IF minute > 59 THEN -1
            ELSE IF c.meridiem = "none" /\ hour <= 12 THEN NotPast(daytime, now)
                 ELSE NotPast(at, now)
=============================================================================
