------------------------------ MODULE MCVoice ------------------------------
(***************************************************************************)
(* Two kiosks, two turns of one and one of the other, a frame of audio a   *)
(* turn; two grant requests over two days, the second just begun.  The     *)
(* interpreter is asked about days round the turn of the year and the end  *)
(* of February in a leap year, clock times at five moments of a day, and   *)
(* every pair of intents; people and events have scores on both sides of   *)
(* every threshold.  Three commands to the gate over two breaks of its     *)
(* link; the speaker's link or the kiosk's socket fails once, and the      *)
(* buffer of two chunks runs over twice, also while the reporter rests.    *)
(***************************************************************************)
EXTENDS Voice

CONSTANTS k1, k2, r1, r2, z1, z2

Ctx(now) == [now |-> now, timer |-> FALSE, cloud |-> FALSE]
Noon(day) == Ctx(1440 * day + At(12, 0))
Heard(name, hits) == [Silence EXCEPT !.hits = name :> hits]
MCTurns == k1 :> 2 @@ k2 :> 1
MCNow == 1440 * Day(2028, 9, 15)

Days == (Day(2027, 12, 24) .. Day(2028, 1, 8)) \cup (Day(2028, 2, 26) .. Day(2028, 3, 2))
        \cup {Day(2028, 1, 30), Day(2028, 1, 31), Day(2028, 8, 31), Day(2028, 9, 15)}
WordSets == {{w} : w \in Words} \cup {{"weekend", "next_weekend"}, {"week", "next_week"},
             {"tomorrow", "now"}, {"tomorrow", "day_after_tomorrow"}, {"next_week", "like_a_day"}, {}}
Periods == {"today", "weekend", "next_weekend", "next_week", "week", "next_month", "this_month", "like_a_day"}
Phrases ==
  {[Nothing EXCEPT !.words = w, !.part = p] : w \in WordSets, p \in {"none", "evening"}} \cup
  {[Nothing EXCEPT !.weekday = d, !.which = q, !.words = w] : d \in 0 .. 6,
     q \in {"bare", "next", "this", "last"}, w \in {{}, {"week"}}} \cup
  {[Nothing EXCEPT !.month = m, !.number = n, !.digits = n > 0] : m \in {1, 2, 3, 8, 9, 12},
     n \in {0, 1, 28, 30, 31}} \cup
  {[Nothing EXCEPT !.nth = n, !.digits = TRUE, !.part = p, !.side = "after"] :
     n \in {1, 15, 29, 30, 31}, p \in {"none", "school"}} \cup
  {[Nothing EXCEPT !.words = {a, b}, !.month = m] : a \in Periods, b \in Periods, m \in {0, 2}} \cup
  {[Nothing EXCEPT !.ahead = n] : n \in {0, 1, 30, LastDay}}

Questions == {[u |-> [Heard(name, {1}) EXCEPT !.phrase = p], stt |-> -1, ctx |-> Noon(day)] :
                name \in {"calendar.query_day", "calendar.show_view"}, p \in Phrases, day \in Days}

Clocks == {[NoClock EXCEPT !.kind = k] : k \in {"none", "noon", "midnight"}} \cup
          {[kind |-> "plain", hour |-> h, minute |-> m, meridiem |-> x] :
             h \in {1, 3, 11, 12}, m \in {0, 45, 75}, x \in {"none", "am", "pm", "o'clock"}} \cup
          {[kind |-> k, hour |-> h, minute |-> m, meridiem |-> "none"] :
             k \in {"past", "to"}, h \in {1, 3, 12}, m \in {15, 30}}
Alarms == {[u |-> [Heard("timer.start", {1}) EXCEPT !.clock = c, !.alarm = a, !.duration = d],
            stt |-> -1, ctx |-> Ctx(1440 * Day(2027, 12, 31) + now)] :
             c \in Clocks, a \in BOOLEAN, now \in {0, At(2, 59), At(12, 0), At(15, 0), At(23, 59)},
             d \in {NoDuration, [NoDuration EXCEPT !.half = TRUE], [NoDuration EXCEPT !.quarter = TRUE],
                    [NoDuration EXCEPT !.amount = 21601], [NoDuration EXCEPT !.unit = 60],
                    [NoDuration EXCEPT !.hourAndHalf = TRUE], [NoDuration EXCEPT !.colon = 5400]}}

MCEvents == <<[calendar |-> 1, first |-> 736000, last |-> 736000, starts |-> 1440 * 736000 + At(18, 0)],
              [calendar |-> 2, first |-> 736000, last |-> 736001, starts |-> 1440 * 736000],
              [calendar |-> 1, first |-> 736003, last |-> 736003, starts |-> 1440 * 736003 + At(9, 0)]>>
Scores == {0, 400, 549, 550, 669, 670, 1000}
People == {[alias |-> al, scores |-> s] : al \in BOOLEAN, s \in [1 .. 2 -> Scores]}
Someone == {[u |-> [Heard(name, {1}) EXCEPT !.person = <<p>>, !.everyone = e,
                        !.people = IF several THEN <<p>> ELSE <<>>],
             stt |-> -1, ctx |-> Noon(736000)] : several \in BOOLEAN,
              name \in {"calendar.query_person", "calendar.person_filter"}, p \in People, e \in BOOLEAN}
Filters == {[u |-> [Heard("calendar.person_filter", {2, 3}) EXCEPT !.people = <<p, q>>],
             stt |-> -1, ctx |-> Noon(736000)] : p \in People, q \in {x \in People : ~x.alias}}
Likes == [title : {0, 500, 600, 1000}, category : {0, 900}, place : {0}]
Events1 == {<<>>} \cup {<<[likes |-> <<a, b, c>>]>> : a \in Likes, b \in Likes,
                          c \in {[title |-> t, category |-> 0, place |-> 1000] : t \in {0, 690}}}
Something == {[u |-> [Heard(name, {1}) EXCEPT !.event = e, !.before = b,
                        !.phrase.words = w, !.person = who], stt |-> -1, ctx |-> Noon(736000)] :
               name \in {"calendar.open_event", "timer.start"}, e \in Events1, b \in {-1, 0, 30},
               w \in {{}, {"today"}, {"week"}},
               who \in {<<>>, <<[alias |-> FALSE, scores |-> <<1000, 0>>]>>}}

Shapes == {[Silence EXCEPT !.items = n, !.bought = n = 1, !.list = 1000 - 500 * (n \div 2),
              !.views = IF n = 0 THEN {} ELSE {"month", "timer"}] : n \in 0 .. 2}
Pairs == {[u |-> [s EXCEPT !.hits =
             INTENTS[a].name :> {1} @@ INTENTS[b].name :> DOMAIN INTENTS[b].weights], stt |-> stt,
           ctx |-> [Noon(736000) EXCEPT !.timer = t, !.cloud = t]] :
            s \in Shapes, stt \in {0, 300, 600}, a \in DOMAIN INTENTS, b \in DOMAIN INTENTS, t \in BOOLEAN}

MCAskings == <<Questions, Alarms, Someone, Pairs, Filters, Something>>
MCAgendas == {{}, {1}}
MCZones == r1 :> {z1} @@ r2 :> {z1, z2}
MCTranscripts == {[u |-> u, stt |-> -1] : u \in {Silence, Heard("timer.query", {1}),
                  [Heard("calendar.query_day", {1}) EXCEPT !.phrase =
                     [Nothing EXCEPT !.month = 2, !.number = 29, !.digits = TRUE]]}}
=============================================================================
