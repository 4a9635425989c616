----------------------------- MODULE LocalVoice -----------------------------
(***************************************************************************)
(* The local voice pipeline (voice/local/session.py): one connection per   *)
(* turn and kiosk, a receive loop that runs the recogniser, the snapshot   *)
(* and the interpreter in worker threads, and one recogniser per process,  *)
(* which every connection of every kiosk uses.                             *)
(*                                                                         *)
(* An action runs from one await to the next.  The kiosk                   *)
(* (providers/local.ts) sends audio, ends the speech, runs the tool calls  *)
(* and closes; it may close at any time.                                   *)
(***************************************************************************)
EXTENDS Interpreter

CONSTANTS Kiosks, Turns,  \* the kiosks, and a bound on the turns of each
          Chunks,         \* a bound on the audio frames of a turn
          Transcripts,    \* what a finished transcript may say: records [u, stt]
          Now             \* the moment it is said

ASSUME LocalVoiceAssumption == IsFiniteSet(Kiosks) /\ Turns \in [Kiosks -> Nat] /\ Chunks \in Nat

VARIABLES
  streaming,  \* the engine ends the speech by itself, now and then
  shared,     \* _recognizer: 0, or the number of the one built last
  built,      \* how many have been built
  buffer,     \* recogniser -> the turns whose audio it holds
  conn,       \* kiosk -> its connection
  turns,      \* kiosk -> how many turns it has begun
  mixed       \* history: turns that used a recogniser while another did

vars == <<streaming, shared, built, buffer, conn, turns, mixed>>

Recognizers == 1 .. Cardinality(Kiosks)
AwaitResult == {"timer.query", "calendar.conflicts"}

\* No timer-state frame is ever sent by the kiosk: the pipeline assumes none.
Context == [now |-> Now, timer |-> FALSE, cloud |-> FALSE]
Answers == {Interpret(t.u, t.stt, Context) : t \in Transcripts}

Closed == [at |-> "closed", rec |-> 0, inbox |-> <<>>, chunks |-> 0, ended |-> FALSE,
           finalized |-> FALSE, heard |-> {}, calls |-> 0, told |-> {}]

Turn(k) == <<k, turns[k]>>
Busy(k) == conn[k].at \notin {"closed", "done"}

LocalTypeOK ==
  /\ streaming \in BOOLEAN /\ shared \in 0 .. built /\ built \in 0 .. Cardinality(Kiosks)
  /\ DOMAIN buffer = Recognizers
  /\ \A k \in Kiosks : turns[k] \in 0 .. Turns[k]
  /\ \A k \in Kiosks :
       /\ conn[k].at \in {"closed", "build", "receive", "accept", "finalize", "think",
                          "wait", "done", "raised"}
       /\ conn[k].rec \in 0 .. built
       /\ conn[k].told \subseteq {"calls", "reply", "complete"}
       /\ conn[k].inbox \in Seq({"audio", "end", "result"})
       /\ conn[k].chunks \in 0 .. Chunks /\ conn[k].calls \in 0 .. 2

Init ==
  /\ streaming \in BOOLEAN
  /\ shared = 0 /\ built = 0
  /\ buffer = [r \in Recognizers |-> {}]
  /\ conn = [k \in Kiosks |-> Closed]
  /\ turns = [k \in Kiosks |-> 0]
  /\ mixed = {}

-----------------------------------------------------------------------------
\* Mutant: a new utterance begins with what the recogniser still holds.
ResetForgotten(r) == buffer

\* recognizer.reset() of run_local_pipeline.
Reset(r) == [buffer EXCEPT ![r] = {}]

\* The pipeline starts with recogniser r; whoever is in a turn shares it.
Begin(k, r, turn) ==
  LET others == {j \in Kiosks \ {k} : conn[j].rec = r /\ conn[j].at # "closed"}
  IN /\ buffer' = Reset(r)
     /\ conn' = [conn EXCEPT ![k] = [Closed EXCEPT !.at = "receive", !.rec = r]]
     /\ mixed' = mixed \cup (IF others = {} THEN {} ELSE {turn} \cup {Turn(j) : j \in others})

\* The kiosk opens its connection.  The first one builds the recogniser, and
\* so does every other that comes before it is built.
Open(k) ==
  /\ conn[k].at = "closed" /\ turns[k] < Turns[k]
  /\ turns' = [turns EXCEPT ![k] = @ + 1]
  /\ IF shared = 0
     THEN /\ conn' = [conn EXCEPT ![k] = [Closed EXCEPT !.at = "build"]]
          /\ UNCHANGED <<buffer, mixed>>
     ELSE Begin(k, shared, <<k, turns[k] + 1>>)
  /\ UNCHANGED <<streaming, shared, built>>

\* get_recognizer: the lock beside it is never taken.
Built(k) ==
  /\ conn[k].at = "build"
  /\ built' = built + 1 /\ shared' = built + 1
  /\ Begin(k, built + 1, Turn(k))
  /\ UNCHANGED <<streaming, turns>>

\* What the kiosk sends.
Send(k) ==
  /\ Busy(k) /\ conn[k].at # "build" /\ conn[k].at # "raised"
  /\ \/ /\ ~conn[k].ended /\ conn[k].chunks < Chunks
        /\ conn' = [conn EXCEPT ![k].inbox = Append(@, "audio"), ![k].chunks = @ + 1]
     \/ /\ ~conn[k].ended
        /\ conn' = [conn EXCEPT ![k].inbox = Append(@, "end"), ![k].ended = TRUE]
     \/ /\ conn[k].calls > 0
        /\ conn' = [conn EXCEPT ![k].inbox = Append(@, "result"), ![k].calls = @ - 1]
  /\ UNCHANGED <<streaming, shared, built, buffer, turns, mixed>>

\* The loop reads a frame: audio goes to a worker thread unless the turn is
\* final already; the end of speech finalizes it, once.
Receive(k) ==
  /\ conn[k].at \in {"receive", "done"} /\ conn[k].inbox # <<>>
  /\ LET frame == Head(conn[k].inbox)
         next == CASE frame = "audio" /\ ~conn[k].finalized -> "accept"
                   [] frame = "end" /\ ~conn[k].finalized -> "finalize"
                   [] OTHER -> conn[k].at
     IN conn' = [conn EXCEPT ![k].inbox = Tail(@), ![k].at = next,
                             ![k].finalized = @ \/ frame = "end"]
  /\ UNCHANGED <<streaming, shared, built, buffer, turns, mixed>>

\* accept_audio: a streaming engine may find the end of the speech in it,
\* which finalizes the turn with what it has heard so far.
Accept(k) ==
  /\ conn[k].at = "accept"
  /\ LET r == conn[k].rec
         held == buffer[r] \cup {Turn(k)}
     IN \/ /\ buffer' = [buffer EXCEPT ![r] = held]
           /\ conn' = [conn EXCEPT ![k].at = "receive"]
        \/ /\ streaming
           /\ buffer' = [buffer EXCEPT ![r] = {}]
           /\ conn' = [conn EXCEPT ![k].at = "think", ![k].finalized = TRUE, ![k].heard = held]
  /\ UNCHANGED <<streaming, shared, built, turns, mixed>>

\* finalize(): the transcript of all the recogniser holds.
Finalize(k) ==
  /\ conn[k].at = "finalize"
  /\ conn' = [conn EXCEPT ![k].at = IF buffer[conn[k].rec] = {} THEN "done" ELSE "think",
                          ![k].heard = buffer[conn[k].rec],
                          ![k].told = IF buffer[conn[k].rec] = {} THEN {"complete"} ELSE {}]
  /\ UNCHANGED <<streaming, shared, built, buffer, turns, mixed>>

\* The snapshot, interpret() and _dispatch.  An exception of the interpreter
\* is none of those the loop expects: the connection is dropped.
Think(k) ==
  /\ conn[k].at = "think"
  /\ \E answer \in Answers :
       LET waits == answer.disposition = "handled_locally" /\ answer.intent \in AwaitResult
       IN conn' = [conn EXCEPT ![k].at = CASE answer.disposition = "raises" -> "raised"
                                           [] waits -> "wait"
                                           [] OTHER -> "done",
                               ![k].calls = Len(answer.calls),
                               ![k].told = CASE answer.disposition = "raises" -> {}
                                             [] waits -> {"calls"}
                                             [] OTHER -> {"reply", "complete"}]
  /\ UNCHANGED <<streaming, shared, built, buffer, turns, mixed>>

\* Mutant: the wait for the results has no end.
NeverGivesUp(k) == FALSE

GivesUp(k) == conn[k].at = "wait"

\* The wait of _dispatch runs in the loop that would read the results, so
\* only its four seconds end it; the reply is made without them.
Timeout(k) ==
  /\ GivesUp(k)
  /\ conn' = [conn EXCEPT ![k].at = "done", ![k].told = @ \cup {"reply", "complete"}]
  /\ UNCHANGED <<streaming, shared, built, buffer, turns, mixed>>

\* The kiosk closes, or sees that the connection was dropped.  A loop that
\* is not reading notices when it next reads.
Close(k) ==
  /\ conn[k].at \in {"receive", "done", "raised"}
  /\ conn' = [conn EXCEPT ![k] = Closed]
  /\ UNCHANGED <<streaming, shared, built, buffer, turns, mixed>>

Pipeline(k) == Built(k) \/ Receive(k) \/ Accept(k) \/ Finalize(k) \/ Think(k) \/ Timeout(k)

Next == \E k \in Kiosks : Open(k) \/ Send(k) \/ Close(k) \/ Pipeline(k)

\* The event loop and its worker threads go on; no kiosk has to do anything.
Fairness == \A k \in Kiosks : WF_vars(Pipeline(k))

Spec == Init /\ [][Next]_vars /\ Fairness

-----------------------------------------------------------------------------
\* A transcript is of the speech of its own turn, unless another kiosk was
\* in a turn with the same recogniser: what an earlier turn left in it is
\* never heard again.
HeardItself == \A k \in Kiosks : Turn(k) \notin mixed => conn[k].heard \subseteq {Turn(k)}

\* A turn whose speech has ended is closed in the end, by an answer, a
\* refusal or a dropped connection, whatever the kiosk does or does not do.
TurnEnds == \A k \in Kiosks :
  conn[k].at # "closed" /\ conn[k].ended ~> ("complete" \in conn[k].told \/ conn[k].at \in {"raised", "closed"})
=============================================================================
