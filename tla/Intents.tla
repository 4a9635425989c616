------------------------------ MODULE Intents ------------------------------
(***************************************************************************)
(* What kind of thing was asked, and of whom or what: the catalogue and    *)
(* the scoring of voice/local/intents.py, and the entity resolution of     *)
(* voice/local/entities.py.                                                *)
(*                                                                         *)
(* The regular expressions are abstracted to their verdicts: an utterance  *)
(* says which triggers of which intents matched and which intents a veto   *)
(* excludes.  The fuzzy scores of names and titles are inputs too.         *)
(* Weights, confidences and scores are in thousandths.                     *)
(***************************************************************************)
EXTENDS Dates, Sequences, TLC

\* An intent: its tier, whether Mission Control can do it, the weights of
\* its triggers in the order of the source.
Intent(name, tier, supported, weights) ==
  [name |-> name, tier |-> tier, supported |-> supported, weights |-> weights]

CalendarWrites == <<
  Intent("calendar.move_event", 1, FALSE, <<800, 700, 600>>),
  Intent("calendar.add_event", 1, FALSE, <<800, 700>>),
  Intent("calendar.delete_event", 1, FALSE, <<800, 750>>)>>

ListIntents == <<
  Intent("list.add", 1, TRUE, <<850, 800, 850, 600, 600, 500>>),
  Intent("list.remove", 1, TRUE, <<850, 850, 800>>),
  Intent("list.check", 1, TRUE, <<850, 600, 850, 800>>),
  Intent("list.clear", 1, TRUE, <<900, 900, 850, 700>>),
  Intent("list.show", 0, TRUE, <<750, 750, 700, 800>>)>>

DisplayIntents == <<
  Intent("display.off", 0, FALSE, <<900, 700, 600>>),
  Intent("display.on", 0, FALSE, <<850, 850>>)>>

TimerIntents == <<
  Intent("timer.pause", 0, TRUE, <<900, 850, 700>>),
  Intent("timer.restart", 0, TRUE, <<920, 850, 800, 800>>),
  Intent("timer.resume", 0, TRUE, <<900, 850, 850, 800>>),
  Intent("timer.start", 1, TRUE, <<850, 850, 800, 800, 550, 600, 600, 700, 600>>),
  Intent("timer.cancel", 0, TRUE, <<900, 900, 700, 500>>),
  Intent("timer.extend", 0, TRUE, <<700, 750, 850, 700>>),
  Intent("timer.query", 0, TRUE, <<900, 800, 700>>)>>

CalendarReads == <<
  Intent("calendar.person_filter", 1, TRUE, <<850, 700, 750, 550, 700, 850, 700>>),
  Intent("calendar.open_event", 1, TRUE, <<800, 550, 700, 600, 700>>),
  Intent("calendar.conflicts", 1, TRUE, <<900, 800>>),
  Intent("calendar.plan", 2, TRUE, <<850, 900, 850, 800, 800, 600, 500, 700, 700>>),
  Intent("calendar.query_person", 1, TRUE, <<800, 800, 700, 600, 600>>),
  Intent("calendar.query_day", 1, TRUE, <<750, 850, 800, 750, 700, 750, 600, 800>>),
  Intent("calendar.show_view", 0, TRUE, <<800, 850, 850, 800, 700>>)>>

\* The catalogue, the most specific intent first.
INTENTS == CalendarWrites \o ListIntents \o DisplayIntents \o TimerIntents \o CalendarReads

Names(intents) == {intents[i].name : i \in DOMAIN intents}

\* The best trigger, and a little for each that agrees with it.
Confidence(intent, hits) ==
  LET best == Max({intent.weights[i] : i \in hits})
  IN Min({990, best + Min({120, 50 * (Cardinality(hits) - 1)})})

\* The first of match_intents(): the most confident, then the most specific.
Candidates(u) == {i \in DOMAIN INTENTS : /\ INTENTS[i].name \in DOMAIN u.hits \ u.vetoed
                                         /\ u.hits[INTENTS[i].name] # {}}
Confident(u, i) == Confidence(INTENTS[i], u.hits[INTENTS[i].name])
TopIntent(u) == CHOOSE i \in Candidates(u) : \A j \in Candidates(u) :
  Confident(u, i) > Confident(u, j) \/ (Confident(u, i) = Confident(u, j) /\ i <= j)

-----------------------------------------------------------------------------
\* EntityMatch: the number of the calendar or event (0 is None), its score,
\* and the score of the first alternative (-1 when there is none).
NoMatch == [value |-> 0, score |-> 0, rival |-> -1]

Resolved(m) == m.value # 0 /\ m.score >= 550

\* Mutant: a tie is no longer a tie when the best one scores well.
AmbiguousRarely(m) == m.rival >= 0 /\ Resolved(m) /\ m.score < 900 /\ m.score - m.rival < 120

Ambiguous(m) == m.rival >= 0 /\ Resolved(m) /\ m.score - m.rival < 120

\* The first of the highest scores, as a stable sort leaves it in front.
Leader(S, score) == CHOOSE i \in S : \A j \in S : score[i] > score[j]
                                                  \/ (score[i] = score[j] /\ i <= j)

\* The best of S and the one behind it, which counts above a threshold.
Match(S, score, counts) ==
  LET first == Leader(S, score)
      rest == S \ {first}
      second == score[Leader(rest, score)]
  IN IF S = {} THEN NoMatch
     ELSE [value |-> IF score[first] >= 550 THEN first ELSE 0,
           score |-> score[first],
           rival |-> IF rest # {} /\ second > counts THEN second ELSE -1]

\* resolve_person: a name the household uses for someone counts for more.
ResolvePerson(ref) ==
  Match(DOMAIN ref.scores,
        [i \in DOMAIN ref.scores |-> IF ref.alias THEN Min({1000, ref.scores[i] + 150})
                                     ELSE ref.scores[i]], 300)

\* resolve_event: title before category before place, among the events of
\* the days spoken of and of the person's calendar (0 is anybody's).
EventScore(like) == Max({like.title, (7 * like.category) \div 10, (6 * like.place) \div 10})

InScope(event, scope) == scope.kind = "none"
                         \/ (event.first <= scope.end /\ event.last >= scope.start)

ResolveEvent(ref, events, scope, calendar) ==
  LET score == [i \in DOMAIN events |-> EventScore(ref.likes[i])]
  IN Match({i \in DOMAIN events : /\ calendar \in {0, events[i].calendar}
                                  /\ InScope(events[i], scope) /\ score[i] > 200}, score, -1)

\* resolve_list: there is one list; a name that is not like it is unresolved.
ResolveList(score) == IF score >= 700 THEN [value |-> 1, score |-> score, rival |-> -1] ELSE NoMatch
=============================================================================
