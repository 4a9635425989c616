---------------------------- MODULE Interpreter ----------------------------
(***************************************************************************)
(* The local interpreter (voice/local/interpreter.py): from what was heard *)
(* to what it would do, and whether it should.  interpret() is pure; here  *)
(* it is the operator Interpret(u, stt, ctx) of an utterance, of how sure  *)
(* the recogniser is of it (-1 when it does not say), and of the moment,   *)
(* the timer and the configuration it is called with.                      *)
(*                                                                         *)
(* An utterance is what the regular expressions extract from the text:     *)
(* matched triggers, the temporal phrase, references to people and events  *)
(* with their fuzzy scores, list and items, durations, clock times and the *)
(* few phrases the plans look for themselves.  Spoken texts are left out.  *)
(***************************************************************************)
EXTENDS Intents

CONSTANT Events \* the snapshot: records [calendar, first, last, starts]

ASSUME InterpreterAssumption == DOMAIN Events \subseteq Nat

\* InterpreterConfig.
IntentThreshold == 550
MutationThreshold == 800
MaxSeconds == 21600

\* An utterance without anything in it; each kind of phrase adds its own.
Silence ==
  [empty |-> FALSE, hits |-> <<>>, vetoed |-> {}, phrase |-> Nothing,
   views |-> {}, person |-> <<>>, people |-> <<>>, everyone |-> FALSE,
   event |-> <<>>, list |-> 1000, items |-> 0, bought |-> FALSE, before |-> -1, alarm |-> FALSE,
   duration |-> NoDuration, clock |-> NoClock]

\* Whose calendars are meant: the names of a list, or else the one name.
Spoken(u) == IF u.people # <<>> THEN u.people ELSE u.person

\* What the matchers return: triggers the intent has, scores up to 1000, the
\* numbers of the word tables, and "quarter", "half", "ten" and the like of a
\* minute that is past or to the hour.
Score == 0 .. 1000
Scored(scores) == DOMAIN scores \subseteq Nat /\ \A i \in DOMAIN scores : scores[i] \in Score
Phrased(p) ==
  /\ p.weekday \in 0 .. NoWeekday /\ p.month \in 0 .. 12 /\ p.ahead \in Int
  /\ p.number \in Nat /\ p.nth \in Nat
Clocked(c) ==
  /\ c.kind \in {"none", "noon", "midnight", "plain", "past", "to"}
  /\ c.hour \in Nat /\ c.minute \in Nat
  /\ c.kind \in {"past", "to"} => c.minute \in 1 .. 59 /\ c.meridiem = "none"
WellFormed(u) ==
  /\ Phrased(u.phrase) /\ Clocked(u.clock)
  /\ \A i \in DOMAIN INTENTS : INTENTS[i].name \in DOMAIN u.hits =>
       u.hits[INTENTS[i].name] \subseteq DOMAIN INTENTS[i].weights
  /\ u.person = <<>> \/ Scored(u.person[1].scores)
  /\ \A r \in DOMAIN Spoken(u) : Scored(Spoken(u)[r].scores)
  /\ u.event = <<>> \/ \A i \in DOMAIN Events : LET like == u.event[1].likes[i] IN
       like.title \in Score /\ like.category \in Score /\ like.place \in Score

\* A tool call, with the arguments a property looks at.
Call(name) == [name |-> name, view |-> "none", day |-> 0, end |-> 0, at |-> 0, who |-> {}]
ShowView(view, day) == [Call("show_view") EXCEPT !.view = view, !.day = day]

Answer(disposition, calls) == [disposition |-> disposition, calls |-> calls, intent |-> "unknown"]
Clarify == Answer("needs_clarification", <<>>)
Reject == Answer("rejected", <<>>)
Raises == Answer("raises", <<>>)
Handle(calls) == Answer("handled_locally", calls)
Escalate(ctx) == IF ctx.cloud THEN Answer("escalate_to_cloud", <<>>) ELSE Clarify

Today(ctx) == ctx.now \div 1440
DateOf(u, ctx) == Resolve(u.phrase, Today(ctx))
OrToday(scope, ctx) ==
  IF scope.kind = "none" THEN Found("today", <<Today(ctx), Today(ctx)>>, <<>>) ELSE scope
IsRange(scope) == scope.end # scope.start
IsToday(scope, ctx) == scope.start = Today(ctx) /\ scope.end = Today(ctx)

-----------------------------------------------------------------------------
\* Mutant: the recogniser's doubt counts the wrong way round.
PenaltyInverted(stt) == IF stt = -1 \/ stt >= 600 THEN 1000 ELSE 1000 - (250 * stt) \div 600

\* What the recogniser's confidence leaves of the intent's.
Penalty(stt) == IF stt = -1 \/ stt >= 600 THEN 1000 ELSE 750 + (250 * stt) \div 600

\* _extract_view: the first of the views a word of which was said; "today",
\* "week" and "month" are such words whatever else they belong to.
ExtractView(u) ==
  LET said == u.views
              \cup (IF "today" \in u.phrase.words THEN {"home"} ELSE {})
              \cup (IF u.phrase.words \cap {"week", "next_week"} # {} THEN {"week"} ELSE {})
              \cup (IF u.phrase.words \cap {"this_month", "next_month"} # {} THEN {"month"} ELSE {})
  IN IF "home" \in said THEN "home" ELSE IF "week" \in said THEN "week"
     ELSE IF "month" \in said THEN "month" ELSE IF "timer" \in said THEN "timer" ELSE "none"

\* _plan_show_view.  Home only shows today, so a day lands in the week.
PlanShowView(u, scope) ==
  LET named == ExtractView(u)
      view == IF named # "none" THEN named
              ELSE IF u.phrase.words \cap {"tonight", "now"} # {} THEN "home"
              ELSE IF IsRange(scope) /\ scope.end - scope.start > 8 THEN "month" ELSE "week"
  IN IF named = "none" /\ scope.kind = "none" THEN Clarify
     ELSE Handle(<<ShowView(view, IF view \in {"timer", "home"} THEN 0 ELSE scope.start)>>)

\* _plan_person_filter: names that match nobody are dropped from the filter.
PlanPersonFilter(u) ==
  LET spoken == Spoken(u)
      matches == [i \in DOMAIN spoken |-> ResolvePerson(spoken[i])]
      resolved == {matches[i] : i \in {j \in DOMAIN matches : Resolved(matches[j])}}
  IN IF u.everyone THEN Handle(<<Call("set_people_filter")>>)
     ELSE IF resolved = {} \/ \E m \in resolved : Ambiguous(m) THEN Clarify
     ELSE Handle(<<[Call("set_people_filter") EXCEPT !.who = {m.value : m \in resolved}]>>)

\* _plan_list: destroying takes more confidence than adding.
PlanList(u, intent, confidence) ==
  LET unsure == confidence < 1000 * MutationThreshold
      show == ShowView("lists", 0)
  IN IF ~Resolved(ResolveList(u.list)) THEN Clarify
     ELSE CASE intent = "list.show" -> Handle(<<show>>)
            [] intent = "list.clear" ->
                 IF u.bought THEN Handle(<<Call("clear_checked"), show>>)
                 ELSE IF unsure THEN Clarify ELSE Handle(<<Call("clear_all"), show>>)
            [] intent = "list.add" ->
                 IF u.items = 0 THEN Clarify ELSE Handle(<<Call("add_to_list"), show>>)
            [] intent = "list.remove" ->
                 IF u.items = 0 \/ unsure THEN Clarify
                 ELSE Handle(<<Call("remove_from_list"), show>>)
            [] intent = "list.check" ->
                 IF u.items = 0 THEN Clarify ELSE Handle(<<Call("check_off_item"), show>>)

\* _plan_open_event.
PlanOpenEvent(u, scope) ==
  LET person == IF u.person = <<>> THEN NoMatch ELSE ResolvePerson(u.person[1])
      calendar == IF Resolved(person) THEN person.value ELSE 0
      event == ResolveEvent(u.event[1], Events, scope, calendar)
  IN IF u.event = <<>> \/ ~Resolved(event) \/ Ambiguous(event) THEN Clarify
     ELSE Handle(<<[Call("highlight_event") EXCEPT !.who = {event.value}]>>)

QueryView(scope, ctx) ==
  IF IsRange(scope) THEN IF scope.end - scope.start <= 8 THEN "week" ELSE "month"
  ELSE IF IsToday(scope, ctx) THEN "home" ELSE "week"

\* _plan_query: a day's agenda or the events of a range, and the view.
PlanQuery(u, intent, ctx, scope) ==
  LET person == IF intent = "calendar.query_person" /\ u.person # <<>>
                THEN ResolvePerson(u.person[1]) ELSE NoMatch
      view == QueryView(scope, ctx)
      data == IF IsRange(scope) THEN "get_events" ELSE "get_agenda"
  IN IF intent = "calendar.query_person" /\ (~Resolved(person) \/ Ambiguous(person)) THEN Clarify
     ELSE Handle(<<[Call(data) EXCEPT !.day = scope.start, !.end = scope.end,
                                      !.who = {person.value} \ {0}],
                   ShowView(view, IF view = "home" THEN 0 ELSE scope.start)>>)

\* _plan_timer_start: before an event (before is -1 when no event was named,
\* 0 when the offset is no number), at a time, or for a while.
PlanTimerStart(u, ctx, scope) ==
  LET Start(at) == Handle(<<[Call("start_timer") EXCEPT !.at = at], ShowView("timer", 0)>>)
      match == ResolveEvent(u.event[1], Events, scope, 0)
      fires == Events[match.value].starts - u.before
      clock == ClockTime(u.clock, ctx.now)
      seconds == DurationSeconds(u.duration)
      when == CASE clock = -1 -> Raises [] clock = 0 -> Clarify [] OTHER -> Start(clock)
      byEvent == u.before >= 0 /\ u.event # <<>> /\ (~Resolved(match) \/ u.before > 0)
  IN CASE byEvent -> IF ~Resolved(match) THEN Clarify
                     ELSE IF fires <= ctx.now THEN Reject ELSE Start(fires)
       [] ~byEvent /\ u.alarm /\ clock # 0 -> when
       [] OTHER -> IF seconds = -1 THEN when
                   ELSE IF seconds > MaxSeconds THEN Reject ELSE Start(0)

\* timer.cancel and timer.pause ask when there is nothing they could mean.
PlanTimerControl(u, intent, ctx, confidence) ==
  LET needed == IF intent = "timer.cancel" THEN 750000 ELSE 850000
  IN CASE intent \in {"timer.cancel", "timer.pause"} /\ ~ctx.timer /\ confidence < needed -> Clarify
       [] intent = "timer.extend" /\ DurationSeconds(u.duration) = -1 -> Clarify
       [] intent = "timer.restart" -> Handle(<<Call("restart_timer"), ShowView("timer", 0)>>)
       [] OTHER -> Handle(<<Call(intent)>>)

\* calendar.conflicts: one day, whatever was said.
PlanConflicts(day) ==
  Handle(<<[Call("check_conflicts") EXCEPT !.day = day, !.end = day], ShowView("week", day)>>)

\* _plan, by the name of the intent.
Plan(u, intent, ctx, confidence, scope) ==
  LET name == intent.name
  IN CASE ~intent.supported -> Reject
       [] name = "calendar.plan" -> Escalate(ctx)
       [] name \in Names(ListIntents) -> PlanList(u, name, confidence)
       [] name = "timer.start" -> PlanTimerStart(u, ctx, scope)
       [] name \in Names(TimerIntents) \ {"timer.start"} ->
            PlanTimerControl(u, name, ctx, confidence)
       [] name = "calendar.show_view" -> PlanShowView(u, scope)
       [] name = "calendar.person_filter" -> PlanPersonFilter(u)
       [] name = "calendar.open_event" -> PlanOpenEvent(u, scope)
       [] name = "calendar.conflicts" -> PlanConflicts(OrToday(scope, ctx).start)
       [] name \in {"calendar.query_day", "calendar.query_person"} ->
            PlanQuery(u, name, ctx, OrToday(scope, ctx))
       [] OTHER -> Escalate(ctx)

\* interpret, the date resolved: it is resolved first, whatever the intent is.
Decide(u, stt, ctx, scope) ==
  LET top == INTENTS[TopIntent(u)]
      confidence == Confidence(top, u.hits[top.name]) * Penalty(stt)
  IN IF u.empty THEN Clarify
     ELSE IF scope.kind = "raises" THEN Raises
     ELSE IF Candidates(u) = {} \/ confidence < 1000 * IntentThreshold THEN Escalate(ctx)
     ELSE [Plan(u, top, ctx, confidence, scope) EXCEPT !.intent = top.name]

Interpret(u, stt, ctx) == Decide(u, stt, ctx, DateOf(u, ctx))

-----------------------------------------------------------------------------
\* Day is the first one from today on that satisfies P.
IsFirst(day, today, P(_)) == day >= today /\ P(day) /\ \A d \in today .. (day - 1) : ~P(d)
DayOfMonth(day) == day - FirstOf(Year(day), Month(day)) + 1

\* dates.py:1-9, and the comments in it: a day is the one a person would
\* mean.  A weekday is the next one, of the following week when "next" was
\* said; a weekend that has begun is still this one; a day of the month is
\* the first to come; a month is the first that has not passed; a named
\* month's day is nearer than half a year behind.
MeansTheDay(p, r, today) ==
  /\ r.kind \notin {"none", "raises"} => r.start <= r.end
  /\ r.kind = "weekday" =>
       /\ Weekday(r.start) = p.weekday
       /\ p.which = "bare" => IsFirst(r.start, today, LAMBDA d : Weekday(d) = p.weekday)
       /\ p.which = "next" =>
            r.start \in (Monday(today) + 7) .. (Monday(today) + 13)
       /\ p.which = "last" => r.start < Monday(today)
  /\ r.kind = "weekend" =>
       /\ Weekday(r.start) = 5 /\ r.end = r.start + 1
       /\ "next_weekend" \notin p.words =>
            IsFirst(r.end, today, LAMBDA d : Weekday(d) = 6)
  /\ r.kind \in {"month", "this_month", "next_month"} =>
       /\ DayOfMonth(r.start) = 1 /\ DayOfMonth(r.end + 1) = 1
       /\ r.end - r.start <= 30 /\ r.end >= today
  /\ r.kind = "day" /\ p.month = 0 =>
       IsFirst(r.start, today, LAMBDA d : DayOfMonth(d) = DayOfMonth(r.start))
  /\ r.kind = "day" /\ p.month > 0 =>
       Month(r.start) = p.month /\ r.start >= today - 180 /\ r.start <= today + 366

\* A clock time is the next one on the face, within a day; only "noon" is
\* said of a noon that may have passed.
MeansTheTime(c, now) ==
  LET at == ClockTime(c, now)
  IN at > 0 /\ c.kind # "noon" =>
       /\ now < at /\ at <= now + 1440
       /\ c.kind \in {"plain", "past"} => at % 60 = c.minute /\ (at \div 60) % 12 = c.hour % 12

\* What the view is of: Home only shows today, Week is the week of its day,
\* Month its month, and a view without a day is today's.
Shown(call, ctx) ==
  LET day == IF call.day = 0 THEN Today(ctx) ELSE call.day
      y == Year(day)
      m == MonthOf(y, day)
  IN CASE call.view = "home" -> {Today(ctx)}
       [] call.view = "week" -> Monday(day) .. (Monday(day) + 6)
       [] call.view = "month" -> FirstOf(y, m) .. (FirstOf(y, m) + DaysIn(y, m) - 1)

\* "the week next month", "the weekend this month": two periods at once, of
\* which the view is of one and the day of the other.
TwoPeriods(u, scope) ==
  \/ scope.kind \in {"month", "this_month", "next_month"} /\ "week" \in u.phrase.words
  \/ scope.kind = "weekend" /\ u.phrase.words \cap {"this_month", "next_month"} # {}
ViewsOf(answer) == {answer.calls[i] : i \in {j \in DOMAIN answer.calls :
                      answer.calls[j].view \in {"home", "week", "month"}}}
=============================================================================
