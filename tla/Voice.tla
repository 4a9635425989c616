------------------------------- MODULE Voice -------------------------------
(***************************************************************************)
(* The ways of a voice command: the gate on the speaker device that hears  *)
(* the wake word (WakeBridge), the grant a kiosk asks for (Grants), the    *)
(* local turn it opens (LocalVoice), everything the interpreter may be     *)
(* asked and the moment it is asked (Interpreter), and the sound that goes *)
(* back to the device (SpeakerBridge).  They share no state but the code   *)
(* they call; a behaviour is of one of them, chosen at the start.          *)
(***************************************************************************)
EXTENDS LocalVoice, Grants, WakeBridge, SpeakerBridge

CONSTANT Askings  \* what may be asked: a sequence of sets of records [u, stt, ctx]

\* The clock is two years and more away from either end of the calendar that
\* datetime has: the years 1 and 9999.
ASSUME VoiceAssumption ==
  /\ \A i \in DOMAIN Askings : \A q \in Askings[i] :
       /\ WellFormed(q.u) /\ q.stt \in Score \cup {-1}
       /\ q.ctx.now \in Nat /\ Today(q.ctx) \in 800 .. (LastDay - 800)
  /\ \A t \in Transcripts : WellFormed(t.u) /\ t.stt \in Score \cup {-1}

VARIABLES
  scene,   \* "wake", "grants", "turns", "words" or "speaker"
  asked,   \* what the interpreter was asked, if anything: [u, stt, ctx]
  made     \* what it made of it: the day it is about, and its answer

Unasked == [u |-> [Silence EXCEPT !.empty = TRUE], stt |-> -1, ctx |-> Context]
Made(q, scope) == [scope |-> scope, answer |-> Decide(q.u, q.stt, q.ctx, scope)]
deviceLinks == <<gateVars, speakerVars>>
voiceVars == <<scene, asked, made, vars, grantVars, deviceLinks>>

VoiceInit ==
  /\ scene \in {"wake", "grants", "turns", "words", "speaker"}
  /\ asked = Unasked /\ made = Made(asked, DateOf(asked.u, asked.ctx))
  /\ Init /\ (scene # "turns" => ~streaming)
  /\ GrantsInit /\ (scene # "grants" => provider = "gemini" /\ agenda = {})
  /\ WakeBridgeInit /\ (scene # "wake" => gateClient = "closed" /\ gateUp)
  /\ SpeakerInit /\ (scene # "speaker" => speakerUp)

\* POST /api/voice/local/interpret, or the same words in a turn.
Ask ==
  /\ scene = "words" /\ asked = Unasked
  /\ \E i \in DOMAIN Askings : asked' \in Askings[i]
  /\ made' = Made(asked', DateOf(asked'.u, asked'.ctx))
  /\ UNCHANGED <<scene, vars, grantVars, deviceLinks>>

VoiceNext ==
  \/ scene = "wake" /\ WakeBridgeNext /\ UNCHANGED <<scene, asked, made, vars, grantVars, speakerVars>>
  \/ scene = "grants" /\ GrantsNext /\ UNCHANGED <<scene, asked, made, vars, deviceLinks>>
  \/ scene = "turns" /\ Next /\ UNCHANGED <<scene, asked, made, grantVars, deviceLinks>>
  \/ Ask
  \/ scene = "speaker" /\ SpeakerNext /\ UNCHANGED <<scene, asked, made, vars, grantVars, gateVars>>

VoiceSpec == VoiceInit /\ [][VoiceNext]_voiceVars /\ Fairness

-----------------------------------------------------------------------------
\* Every part stays within its types, and whatever is said is answered in one
\* of the ways interpret() has, or raises.
VoiceTypesOK ==
  /\ LocalTypeOK /\ GrantsTypeOK /\ WakeBridgeTypeOK /\ SpeakerTypeOK
  /\ made.answer.disposition \in
       {"handled_locally", "needs_clarification", "rejected", "escalate_to_cloud", "raises"}

\* dates.py:1-9, interpreter.py:401, _plan_query and _plan_show_view: days and
\* clock times are the ones a person would mean, on every day of the year and
\* at every hour, and whoever asks about days is shown all of them.  Excepted
\* are a view that was named, be it with another period ("the week next
\* month"), and a "now" said of another day.
DatesAsSaid ==
  LET u == asked.u
      answer == made.answer
      scope == OrToday(made.scope, asked.ctx)
  IN scene = "words" =>
       /\ MeansTheDay(u.phrase, made.scope, Today(asked.ctx))
       /\ MeansTheTime(u.clock, asked.ctx.now)
       /\ /\ answer.disposition = "handled_locally"
          /\ answer.intent \in {"calendar.query_day", "calendar.query_person", "calendar.show_view"}
          /\ u.views = {} /\ (answer.intent = "calendar.show_view" => ~TwoPeriods(u, scope))
          /\ u.phrase.words \cap TodayWords # {} => IsToday(scope, asked.ctx)
          => \E call \in ViewsOf(answer) : scope.start .. scope.end \subseteq Shown(call, asked.ctx)

\* entities.py:1-12: the calendar that is filtered or read, and the event
\* that is opened, is clearly more like what was said than any other.
NeverAGuess ==
  LET u == asked.u
      answer == made.answer
      Clear(score, chosen, S) == \A i \in S \ {chosen} : score[i] + 120 <= score[chosen]
      likes == [i \in DOMAIN Events |-> EventScore(u.event[1].likes[i])]
      owner == IF u.person = <<>> THEN 0 ELSE ResolvePerson(u.person[1]).value
      inSight == {i \in DOMAIN Events : /\ InScope(Events[i], made.scope)
                                        /\ owner \in {0, Events[i].calendar}}
  IN scene = "words" /\ answer.disposition = "handled_locally" =>
       \A k \in DOMAIN answer.calls : LET call == answer.calls[k] IN
         /\ call.name = "highlight_event" => \A i \in call.who : Clear(likes, i, inSight)
         /\ answer.intent = "calendar.query_person" =>
              \A i \in call.who : Clear(u.person[1].scores, i, DOMAIN u.person[1].scores)
         /\ call.name = "set_people_filter" => \A i \in call.who : \E r \in DOMAIN Spoken(u) :
              Clear(Spoken(u)[r].scores, i, DOMAIN Spoken(u)[r].scores)

\* interpret() and the plans: a recogniser that is surer of the same words
\* never turns what was done into a question, nor into something else.
HearingBetterNeverHurts ==
  LET With(stt) == Decide(asked.u, stt, asked.ctx, made.scope)
      Surer == IF asked.stt = -1 THEN {} ELSE {-1} \cup {s \in {0, 300, 600} : s > asked.stt}
  IN scene = "words" /\ made.answer.disposition = "handled_locally" =>
       \A stt \in Surer : With(stt) = made.answer
=============================================================================
