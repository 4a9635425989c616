----------------------------- MODULE VoiceRelay -----------------------------
(***************************************************************************)
(* One voice turn through the relay (voice/relay.py): two asyncio pumps    *)
(* share the _RelayTurn of a connection, one moving the kiosk's frames to  *)
(* the provider, one the provider's events to the kiosk.  A response that  *)
(* calls tools is not the end of the turn: when it is done and every       *)
(* output is in, the relay asks for one more response.                     *)
(*                                                                         *)
(* An action runs from one await to the next.  Sends to the provider take  *)
(* turns (websockets sends under a mutex, and while the write buffer is    *)
(* full the sender waits in it): a frame goes out when its send() returns, *)
(* and until then the other pump may run.  What touches no state (speech,  *)
(* transcripts, the kiosk's "open") is left out; "hybrid" end-of-speech    *)
(* behaves as "client" here.                                               *)
(* The provider and the kiosk are modelled from how the relay and          *)
(* useVoiceSession.ts use them.                                            *)
(***************************************************************************)
EXTENDS Naturals, Sequences, FiniteSets

CONSTANTS Calls,       \* call_ids, each used once
          MaxToolCalls \* _MAX_TOOL_CALLS_PER_RESPONSE

ASSUME RelayAssumption == MaxToolCalls \in Nat /\ IsFiniteSet(Calls)

VARIABLES
  endpointing,  \* who ends the user's speech: "client" or "provider"
  link,         \* run_relay: "open" until either socket closes
  kiosk,        \* the turn as the kiosk sees it
  dispatched,   \* tool calls the kiosk is running
  uplink,       \* frames on the way from the kiosk
  turn,         \* _RelayTurn
  up,           \* _pump_client_to_upstream: where it is, what it is sending
  down,         \* _pump_upstream_to_client: where it is
  mutex,        \* the pumps in upstream.send(), in the order they called it
  wire,         \* frames on the way to the provider
  events,       \* events on the way from the provider
  response,     \* the provider's response: "none", "due" or "active"
  asked, fresh, \* every call the provider made; those of its last response
  outputs,      \* the outputs in the provider's conversation
  overlapped    \* history: both pumps asked for the same answer

relay == <<turn, up, down, mutex, overlapped>>
household == <<kiosk, dispatched, uplink>>
provider == <<response, asked, fresh, outputs>>
vars == <<endpointing, link, household, relay, wire, events, provider>>

NewRound == [awaiting |-> {}, made |-> FALSE, done |-> FALSE,
             calls |-> 0, cancelled |-> FALSE]

Audio == [type |-> "audio"]
ActivityEnd == [type |-> "activity-end"]
ToolResponse(id) == [type |-> "tool-response", id |-> id]

Append_ == [type |-> "append"]
Commit == [type |-> "commit"]
Create == [type |-> "create"]
Cancel == [type |-> "cancel"]
Output(id) == [type |-> "output", id |-> id]
Frames == {Append_, Commit, Create, Cancel} \cup {Output(id) : id \in Calls}

Event(type) == [type |-> type]
Call(id) == [type |-> "call", id |-> id]
Events == {Event(t) : t \in {"done", "error", "benign"}} \cup {Call(id) : id \in Calls}

TypeOK ==
  /\ endpointing \in {"client", "provider"}
  /\ link \in {"open", "closed"}
  /\ kiosk \in {"listening", "waiting", "complete", "failed"}
  /\ dispatched \subseteq Calls
  /\ uplink \subseteq {Audio, ActivityEnd} \cup {ToolResponse(id) : id \in Calls}
  /\ turn \in [awaiting : SUBSET Calls, made : BOOLEAN, done : BOOLEAN,
               calls : 0 .. Cardinality(Calls), cancelled : BOOLEAN]
  /\ up \in [at : {"held", "receive", "send", "request"}, out : Seq(Frames)]
  /\ down \in {"receive", "deliver", "cancel", "request"}
  /\ mutex \in {<<>>, <<"up">>, <<"down">>, <<"up", "down">>, <<"down", "up">>}
  /\ (up.at \in {"send", "request"} <=> \E i \in DOMAIN mutex : mutex[i] = "up")
  /\ (down \in {"cancel", "request"} <=> \E i \in DOMAIN mutex : mutex[i] = "down")
  /\ wire \in Seq(Frames) /\ events \in Seq(Events)
  /\ response \in {"none", "due", "active"}
  /\ asked \subseteq Calls /\ fresh \subseteq asked /\ outputs \subseteq asked
  /\ overlapped \in BOOLEAN

\* run_relay has sent session.update; in provider mode the reply is due as
\* soon as the provider's own end-of-speech detection says so.
Init ==
  /\ endpointing \in {"client", "provider"}
  /\ link = "open"
  /\ kiosk = "listening" /\ dispatched = {} /\ uplink = {}
  /\ turn = NewRound
  /\ up = [at |-> "held", out |-> <<>>] /\ down = "receive" /\ mutex = <<>>
  /\ wire = <<>> /\ events = <<>>
  /\ response = IF endpointing = "provider" THEN "due" ELSE "none"
  /\ asked = {} /\ fresh = {} /\ outputs = {}
  /\ overlapped = FALSE

-----------------------------------------------------------------------------
\* Mutant: the answer does not wait for the outputs.
FollowUpEager(t) == t.made /\ t.done

FollowUpReady(t) == t.made /\ t.done /\ t.awaiting = {}

\* _pump_client_to_upstream starts: the kiosk's frames are held until the
\* provider has applied the session, or for 5 seconds.
UpStart ==
  /\ link = "open" /\ up.at = "held"
  /\ up' = [up EXCEPT !.at = "receive"]
  /\ UNCHANGED <<endpointing, link, household, turn, down, mutex, overlapped,
                 wire, events, provider>>

\* translate_client.
Translated(frame) ==
  CASE frame.type = "audio" -> <<Append_>>
    [] frame.type = "activity-end" ->
         IF endpointing = "provider" THEN <<Commit>> ELSE <<Commit, Create>>
    [] frame.type = "tool-response" -> <<Output(frame.id)>>

\* A frame is read and translated, and its first part is being sent.
UpReceive(frame) ==
  /\ link = "open" /\ up.at = "receive" /\ frame \in uplink
  /\ uplink' = uplink \ {frame}
  /\ turn' = IF frame.type = "tool-response"
             THEN [turn EXCEPT !.awaiting = @ \ {frame.id}] ELSE turn
  /\ up' = [at |-> "send", out |-> Translated(frame)]
  /\ mutex' = Append(mutex, "up")
  /\ UNCHANGED <<endpointing, link, kiosk, dispatched, down, overlapped, wire,
                 events, provider>>

\* A part is out (audio only fills the provider's buffer); then the next one
\* or, after the last, _maybe_request_answer.
UpSent ==
  /\ link = "open" /\ up.at = "send" /\ Head(mutex) = "up"
  /\ wire' = IF Head(up.out) = Append_ THEN wire ELSE Append(wire, Head(up.out))
  /\ LET rest == Tail(up.out)
     IN  \/ /\ rest # <<>>
            /\ up' = [at |-> "send", out |-> rest]
            /\ mutex' = Append(Tail(mutex), "up")
            /\ UNCHANGED overlapped
         \/ /\ rest = <<>> /\ FollowUpReady(turn)
            /\ up' = [at |-> "request", out |-> <<>>]
            /\ mutex' = Append(Tail(mutex), "up")
            /\ overlapped' = (overlapped \/ down = "request")
         \/ /\ rest = <<>> /\ ~FollowUpReady(turn)
            /\ up' = [at |-> "receive", out |-> <<>>]
            /\ mutex' = Tail(mutex)
            /\ UNCHANGED overlapped
  /\ UNCHANGED <<endpointing, link, household, turn, down, events, provider>>

\* response.create is out: clear_round.
UpRequested ==
  /\ link = "open" /\ up.at = "request" /\ Head(mutex) = "up"
  /\ wire' = Append(wire, Create)
  /\ turn' = NewRound
  /\ up' = [up EXCEPT !.at = "receive"]
  /\ mutex' = Tail(mutex)
  /\ UNCHANGED <<endpointing, link, household, down, overlapped, events, provider>>

-----------------------------------------------------------------------------
\* _maybe_request_answer of the other pump; q are the pumps sending.
MaybeRequest(t, q) ==
  IF FollowUpReady(t)
  THEN /\ down' = "request" /\ mutex' = Append(q, "down")
       /\ overlapped' = (overlapped \/ up.at = "request")
  ELSE down' = "receive" /\ mutex' = q /\ UNCHANGED overlapped

\* The end of the loop's body, on the turn t: _maybe_break_tool_loop and, if
\* nothing is to be cancelled, _maybe_request_answer at once.
RestOfBody(t) ==
  /\ IF t.calls > MaxToolCalls /\ ~t.cancelled
     THEN /\ turn' = [t EXCEPT !.cancelled = TRUE]
          /\ down' = "cancel" /\ mutex' = Append(mutex, "down")
          /\ UNCHANGED overlapped
     ELSE turn' = t /\ MaybeRequest(t, mutex)
  /\ UNCHANGED up

DownReads(type) ==
  /\ link = "open" /\ down = "receive"
  /\ events # <<>> /\ Head(events).type = type
  /\ events' = Tail(events)
  /\ UNCHANGED <<endpointing, link, uplink, wire, provider>>

\* Mutant: what is awaited is the frame's missing id.
DownCallUnnamed ==
  /\ DownReads("call")
  /\ turn' = [turn EXCEPT !.made = TRUE, !.calls = @ + 1, !.awaiting = @ \cup {""}]
  /\ dispatched' = dispatched \cup {Head(events).id}
  /\ down' = "deliver"
  /\ UNCHANGED <<kiosk, up, mutex, overlapped>>

DownCall ==
  /\ DownReads("call")
  /\ LET id == Head(events).id
     IN  /\ turn' = [turn EXCEPT !.made = TRUE, !.calls = @ + 1,
                                 !.awaiting = @ \cup {id}]
         /\ dispatched' = IF kiosk \in {"listening", "waiting"}
                          THEN dispatched \cup {id} ELSE dispatched
  /\ down' = "deliver"
  /\ UNCHANGED <<kiosk, up, mutex, overlapped>>

\* Mutant: only the other pump asks for the answer.
DownDoneWaits ==
  /\ DownReads("done") /\ turn.made
  /\ turn' = [turn EXCEPT !.done = TRUE]
  /\ UNCHANGED <<kiosk, dispatched, up, down, mutex, overlapped>>

\* A response that made calls is not the end of the turn: nothing is sent to
\* the kiosk, hence no await before the rest of the body.
DownDoneWithCalls ==
  /\ DownReads("done") /\ turn.made
  /\ RestOfBody([turn EXCEPT !.done = TRUE])
  /\ UNCHANGED <<kiosk, dispatched>>

\* The kiosk ends its turn on generation-complete (and turn-complete), or
\* fails it on an error.
KioskTold(outcome) ==
  /\ kiosk' = IF kiosk \in {"listening", "waiting"} THEN outcome ELSE kiosk
  /\ down' = "deliver"
  /\ UNCHANGED <<dispatched, turn, up, mutex, overlapped>>

\* Mutant: every response is the end of the turn.
DownDoneAlways == DownReads("done") /\ KioskTold("complete")

DownDone == DownReads("done") /\ ~turn.made /\ KioskTold("complete")

DownError == DownReads("error") /\ KioskTold("failed")

\* response_cancel_not_active is dropped.
DownBenign ==
  /\ DownReads("benign")
  /\ RestOfBody(turn)
  /\ UNCHANGED <<kiosk, dispatched>>

DownDelivered ==
  /\ link = "open" /\ down = "deliver"
  /\ RestOfBody(turn)
  /\ UNCHANGED <<endpointing, link, household, wire, events, provider>>

DownCancelled ==
  /\ link = "open" /\ down = "cancel" /\ Head(mutex) = "down"
  /\ wire' = Append(wire, Cancel)
  /\ MaybeRequest(turn, Tail(mutex))
  /\ UNCHANGED <<endpointing, link, household, turn, up, events, provider>>

\* Mutant: the calls are counted on into the next round.
DownRequestedCounting ==
  /\ link = "open" /\ down = "request" /\ Head(mutex) = "down"
  /\ wire' = Append(wire, Create)
  /\ turn' = [NewRound EXCEPT !.calls = turn.calls]
  /\ down' = "receive"
  /\ mutex' = Tail(mutex)
  /\ UNCHANGED <<endpointing, link, household, up, overlapped, events, provider>>

DownRequested ==
  /\ link = "open" /\ down = "request" /\ Head(mutex) = "down"
  /\ wire' = Append(wire, Create)
  /\ turn' = NewRound
  /\ down' = "receive"
  /\ mutex' = Tail(mutex)
  /\ UNCHANGED <<endpointing, link, household, up, overlapped, events, provider>>

\* Either socket closes, or the kiosk gives up: the other pump is cancelled,
\* the provider's socket is closed, and what was on the way is gone with both.
Close ==
  /\ link = "open" /\ link' = "closed"
  /\ kiosk' = IF kiosk = "complete" THEN "complete" ELSE "failed"
  /\ dispatched' = {} /\ uplink' = {} /\ wire' = <<>> /\ events' = <<>>
  /\ turn' = NewRound /\ up' = [at |-> "receive", out |-> <<>>]
  /\ down' = "receive" /\ mutex' = <<>> /\ overlapped' = FALSE
  /\ response' = "none" /\ asked' = {} /\ fresh' = {} /\ outputs' = {}
  /\ UNCHANGED endpointing

-----------------------------------------------------------------------------
KioskSpeaks ==
  /\ link = "open" /\ kiosk = "listening"
  /\ uplink' = uplink \cup {Audio}
  /\ UNCHANGED <<endpointing, link, kiosk, dispatched, relay, wire, events,
                 provider>>

\* endUserTurn: in provider mode endActivity sends nothing.
KioskEndsSpeech ==
  /\ kiosk = "listening" /\ kiosk' = "waiting"
  /\ uplink' = IF endpointing = "provider" THEN uplink ELSE uplink \cup {ActivityEnd}
  /\ UNCHANGED <<endpointing, link, dispatched, relay, wire, events, provider>>

\* dispatchToolCall settles; tools run concurrently, so in any order.
KioskAnswers(id) ==
  /\ kiosk \in {"listening", "waiting"} /\ id \in dispatched
  /\ dispatched' = dispatched \ {id}
  /\ uplink' = uplink \cup {ToolResponse(id)}
  /\ UNCHANGED <<endpointing, link, kiosk, relay, wire, events, provider>>

ProviderReads ==
  /\ wire # <<>>
  /\ wire' = Tail(wire)
  /\ LET frame == Head(wire)
     IN  \/ /\ frame.type = "commit"
            /\ UNCHANGED <<events, provider>>
         \/ /\ frame.type = "output"
            /\ outputs' = outputs \cup {frame.id}
            /\ UNCHANGED <<events, response, asked, fresh>>
         \/ /\ frame.type = "create" /\ response # "active"
            /\ response' = "active" /\ fresh' = {}
            /\ UNCHANGED <<events, asked, outputs>>
         \/ /\ frame.type = "create" /\ response = "active"
            /\ events' = Append(events, Event("error"))
            /\ UNCHANGED provider
         \/ /\ frame.type = "cancel" /\ response = "active"
            /\ response' = "none"
            /\ events' = Append(events, Event("done"))
            /\ UNCHANGED <<asked, fresh, outputs>>
         \/ /\ frame.type = "cancel" /\ response # "active"
            /\ events' = Append(events, Event("benign"))
            /\ UNCHANGED provider
  /\ UNCHANGED <<endpointing, link, household, relay>>

ProviderHearsEnd ==
  /\ response = "due"
  /\ response' = "active"
  /\ UNCHANGED <<endpointing, link, household, relay, wire, events, asked, fresh,
                 outputs>>

ProviderCalls(id) ==
  /\ response = "active" /\ id \notin asked
  /\ asked' = asked \cup {id} /\ fresh' = fresh \cup {id}
  /\ events' = Append(events, Call(id))
  /\ UNCHANGED <<endpointing, link, household, relay, wire, response, outputs>>

ProviderDone ==
  /\ response = "active"
  /\ response' = "none"
  /\ events' = Append(events, Event("done"))
  /\ UNCHANGED <<endpointing, link, household, relay, wire, asked, fresh, outputs>>

-----------------------------------------------------------------------------
UpPump == UpStart \/ (\E frame \in uplink : UpReceive(frame)) \/ UpSent \/ UpRequested
DownPump == DownCall \/ DownDoneWithCalls \/ DownDone \/ DownError \/ DownBenign
              \/ DownDelivered \/ DownCancelled \/ DownRequested
Kiosk == KioskSpeaks \/ KioskEndsSpeech \/ \E id \in Calls : KioskAnswers(id)
Provider == ProviderReads \/ ProviderHearsEnd
              \/ (\E id \in Calls : ProviderCalls(id)) \/ ProviderDone

Next == UpPump \/ DownPump \/ Close \/ Kiosk \/ Provider

Spec == Init /\ [][Next]_vars

\* The event loop resumes both pumps and every frame is read in the end
\* (frames are taken in order); the tools settle, the provider reads what it
\* is sent and finishes its responses.  Nobody has to give up.
FairSpec ==
  /\ Spec
  /\ WF_vars(DownPump) /\ WF_vars(UpStart) /\ WF_vars(UpSent) /\ WF_vars(UpRequested)
  /\ SF_vars(UpReceive(ActivityEnd))
  /\ \A id \in Calls : SF_vars(UpReceive(ToolResponse(id)))
  /\ \A id \in Calls : WF_vars(KioskAnswers(id))
  /\ WF_vars(ProviderReads) /\ WF_vars(ProviderHearsEnd) /\ WF_vars(ProviderDone)

-----------------------------------------------------------------------------
(***************************************************************************)
(* Properties.                                                             *)
(***************************************************************************)

\* Exactly one response.create per round of tool calls ("idempotent:
\* clear_round makes a second call a no-op"): two pumps are never both
\* between sending it and clearing the round.
OneAnswerPerRound == ~(up.at = "request" /\ down = "request")

\* The provider starts a response only when it has the output of every call
\* of the responses before, whatever the order of outputs, response.done and
\* the breaking of a loop (unless the pumps overlapped: then a late
\* clear_round may wipe the calls of the next round).
OutputsBeforeAnswer ==
  overlapped \/ (response = "active" => asked \ fresh \subseteq outputs)

\* The kiosk is told that the turn is complete only when it is: the provider
\* has finished, it has every output, and it has no other answer to give.
CompleteMeansAnswered ==
  kiosk = "complete" /\ ~overlapped =>
    response = "none" /\ asked \subseteq outputs /\ events = <<>>

\* A cancel only ever hits the response that was looping, never the answer.
CancelHitsTheLoop ==
  [][ProviderReads /\ Head(wire).type = "cancel" /\ response = "active" /\ ~overlapped
       => Cardinality(fresh) > MaxToolCalls]_vars

\* Once the user has spoken the turn ends by itself: no combination of tool
\* calls, early and late outputs and a broken loop leaves both sides waiting.
TurnEnds ==
  kiosk = "waiting" ~>
    kiosk \in {"complete", "failed"} \/ overlapped
=============================================================================
