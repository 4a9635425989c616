-------------------------- MODULE VoiceRelayProofs --------------------------
(***************************************************************************)
(* Theorems about VoiceRelay, for any set of calls and any limit on the    *)
(* calls of a response.                                                    *)
(*                                                                         *)
(* The argument.  A turn is always in exactly one place (OneTurn): with    *)
(* the user who speaks, in a frame to the relay, in the relay's hands on   *)
(* the way to the provider, in a response, in the response.done on its way *)
(* back, or in the relay, which gathers outputs.  Only the relay in that   *)
(* last place asks for the next response, when it awaits nothing           *)
(* (Requests); by then every output was put on the wire before it          *)
(* (Covered, CreatesLast, NothingBehind).  All of this is lost once both   *)
(* pumps ask for the same answer, so it is stated of turns where they have *)
(* not.                                                                    *)
(***************************************************************************)
EXTENDS VoiceRelay, FiniteSetTheorems, SequenceTheorems, TLAPS

In(x, s) == \E i \in DOMAIN s : s[i] = x

Done == Event("done")
Benign == Event("benign")
Error == Event("error")

\* The calls the relay has not read yet.
Announced == {id \in Calls : In(Call(id), events)}

-----------------------------------------------------------------------------
(***************************************************************************)
(* What holds even when the pumps overlapped.                              *)
(***************************************************************************)
Translations == {<<Append_>>, <<Commit>>, <<Create>>, <<Commit, Create>>}
                  \cup {<<Output(id)>> : id \in Calls}

UpSends == IF up.at = "send" THEN up.out \in Translations ELSE up.out = <<>>

CallsOnce ==
  /\ \A id \in Calls : \A i, j \in DOMAIN events :
       events[i] = Call(id) /\ events[j] = Call(id) => i = j
  /\ Announced \subseteq asked

CallsCounted == turn.calls <= Cardinality(asked \ Announced)

\* Only calls the provider made are answered.
Known == \A id \in Calls :
  In(Output(id), wire) \/ In(Output(id), up.out) \/ ToolResponse(id) \in uplink
    \/ id \in dispatched => id \in asked

Always == TypeOK /\ UpSends /\ CallsOnce /\ CallsCounted /\ Known

-----------------------------------------------------------------------------
(***************************************************************************)
(* Where the turn is.                                                      *)
(***************************************************************************)
Speaking == kiosk = "listening" /\ endpointing = "client"
Ending == ActivityEnd \in uplink
Committing == In(Create, up.out)
Created == In(Create, wire)
Responding == response # "none"
Finishing == In(Done, events)
Gathering == turn.done

OneTurn ==
  /\ Speaking => ~Ending /\ ~Committing /\ ~Created /\ ~Responding /\ ~Finishing /\ ~Gathering
  /\ Ending => ~Committing /\ ~Created /\ ~Responding /\ ~Finishing /\ ~Gathering
  /\ Committing => ~Created /\ ~Responding /\ ~Finishing /\ ~Gathering
  /\ Created => ~Responding /\ ~Finishing /\ ~Gathering
  /\ Responding => ~Finishing /\ ~Gathering
  /\ Finishing => ~Gathering

\* Before its first response a turn has no calls; nor has a round that has
\* just begun.
NothingAsked == Speaking \/ Ending \/ Committing \/ response = "due" => asked = {}

RoundsBegin ==
  /\ ~turn.made => turn = NewRound
  /\ Speaking \/ Ending \/ Committing \/ Created \/ response = "due" => turn = NewRound

\* A response and the outputs it had to wait for; and how many calls it has
\* made, which are all there is of its round.
Answering ==
  /\ Announced # {} => Responding \/ Finishing
  /\ Responding \/ Finishing =>
       /\ asked \ fresh \subseteq outputs
       /\ Announced \subseteq fresh
       /\ ~turn.made => fresh \subseteq Announced
       /\ turn.calls <= Cardinality(fresh \ Announced)

Awaited ==
  /\ turn.awaiting \subseteq asked /\ turn.awaiting \cap Announced = {}
  /\ dispatched \subseteq turn.awaiting
  /\ \A id \in Calls : ToolResponse(id) \in uplink => id \in turn.awaiting \ dispatched

\* Every output is on its way.
Covered == \A id \in asked :
  \/ id \in Announced \/ id \in turn.awaiting
  \/ In(Output(id), up.out) \/ In(Output(id), wire) \/ id \in outputs

Requests ==
  /\ up.at = "request" \/ down = "request" => FollowUpReady(turn)
  /\ ~(up.at = "request" /\ down = "request")

\* What stands behind a request that is next to be sent is no output.
NothingBehind ==
  down = "request" /\ mutex = <<"down", "up">> => \A id \in Calls : ~In(Output(id), up.out)

\* The wire: every output before the create, no create after a create, and a
\* cancel only in its own round or before the next.
CreatesLast ==
  /\ \A i \in DOMAIN wire : wire[i] = Create => \A id \in asked :
       id \in outputs \/ \E j \in 1 .. i - 1 : wire[j] = Output(id)
  /\ \A i, j \in DOMAIN wire : wire[i] = Create /\ wire[j] = Create => i = j

CancelsOnWire == \A j \in DOMAIN wire : wire[j] = Cancel =>
  turn.cancelled \/ \E i \in DOMAIN wire : i > j /\ wire[i] = Create

CancelsFirst ==
  /\ CancelsOnWire
  /\ down = "cancel" => turn.cancelled
  /\ up.at = "request" /\ down = "cancel" => mutex = <<"down", "up">>

Loops ==
  /\ turn.cancelled => turn.calls > MaxToolCalls
  /\ turn.done => turn.calls <= MaxToolCalls \/ turn.cancelled

\* The events: no errors, and nothing after response.done but the answer to a
\* cancel of the same round.
DoneLast ==
  /\ ~In(Error, events)
  /\ \A i, j \in DOMAIN events : i < j /\ events[i] = Done => events[j] = Benign /\ turn.cancelled

Completed ==
  kiosk = "complete" =>
    /\ ~Ending /\ ~Committing /\ ~Created /\ ~Responding /\ ~Gathering
    /\ events = <<>> /\ ~turn.made /\ asked \subseteq outputs

Orderly ==
  /\ OneTurn /\ NothingAsked /\ RoundsBegin /\ Answering /\ Awaited /\ Covered
  /\ Requests /\ NothingBehind /\ CreatesLast /\ CancelsFirst /\ Loops /\ DoneLast /\ Completed

RelayInv == Always /\ (~overlapped => Orderly)

-----------------------------------------------------------------------------
(***************************************************************************)
(* Sequences.                                                              *)
(***************************************************************************)
LEMMA Appending ==
  ASSUME NEW S, NEW s \in Seq(S), NEW e \in S
  PROVE  /\ Append(s, e) \in Seq(S) /\ Append(s, e) # <<>>
         /\ Len(s) \in Nat /\ DOMAIN s = 1 .. Len(s)
         /\ DOMAIN Append(s, e) = 1 .. (Len(s) + 1)
         /\ \A i \in 1 .. Len(s) : Append(s, e)[i] = s[i]
         /\ Append(s, e)[Len(s) + 1] = e
         /\ \A x : In(x, Append(s, e)) <=> In(x, s) \/ x = e
<1>1. /\ Append(s, e) \in Seq(S) /\ Append(s, e) # <<>>
      /\ Len(s) \in Nat /\ DOMAIN s = 1 .. Len(s)
      /\ DOMAIN Append(s, e) = 1 .. (Len(s) + 1)
      /\ \A i \in 1 .. Len(s) : Append(s, e)[i] = s[i]
      /\ Append(s, e)[Len(s) + 1] = e
  OBVIOUS
<1>2. \A x : In(x, Append(s, e)) <=> In(x, s) \/ x = e
  BY <1>1 DEF In
<1> QED
  BY <1>1, <1>2

LEMMA Taking ==
  ASSUME NEW S, NEW s \in Seq(S), s # <<>>
  PROVE  /\ Head(s) \in S /\ Tail(s) \in Seq(S)
         /\ Len(s) \in Nat \ {0} /\ DOMAIN s = 1 .. Len(s)
         /\ DOMAIN Tail(s) = 1 .. (Len(s) - 1)
         /\ \A i \in 1 .. (Len(s) - 1) : Tail(s)[i] = s[i + 1]
         /\ s[1] = Head(s)
         /\ \A x : In(x, s) <=> In(x, Tail(s)) \/ x = Head(s)
<1>1. /\ Head(s) \in S /\ Tail(s) \in Seq(S)
      /\ Len(s) \in Nat \ {0} /\ DOMAIN s = 1 .. Len(s)
      /\ DOMAIN Tail(s) = 1 .. (Len(s) - 1)
      /\ \A i \in 1 .. (Len(s) - 1) : Tail(s)[i] = s[i + 1]
      /\ s[1] = Head(s)
  OBVIOUS
<1>2. ASSUME NEW x, In(x, s)
      PROVE  In(x, Tail(s)) \/ x = Head(s)
  <2>1. PICK i \in DOMAIN s : s[i] = x
    BY <1>2 DEF In
  <2>2. CASE i # 1
    <3>1. i - 1 \in DOMAIN Tail(s) /\ Tail(s)[i - 1] = x
      BY <1>1, <2>1, <2>2
    <3> QED
      BY <3>1 DEF In
  <2> QED
    BY <1>1, <2>1, <2>2
<1>3. \A x : In(x, Tail(s)) \/ x = Head(s) => In(x, s)
  BY <1>1 DEF In
<1> QED
  BY <1>1, <1>2, <1>3

LEMMA NothingIn == \A x : ~In(x, <<>>)
BY DEF In

\* The mutex has at most one place for each pump.
LEMMA MutexTable ==
  /\ \A x : In(x, <<"up">>) <=> x = "up"
  /\ \A x : In(x, <<"down">>) <=> x = "down"
  /\ \A x : In(x, <<"up", "down">>) <=> x = "up" \/ x = "down"
  /\ \A x : In(x, <<"down", "up">>) <=> x = "up" \/ x = "down"
<1>1. \A x : In(x, <<"up">>) <=> x = "up"
  BY DEF In
<1>2. \A x : In(x, <<"down">>) <=> x = "down"
  BY DEF In
<1>3. \A x : In(x, <<"up", "down">>) <=> x = "up" \/ x = "down"
  BY DEF In
<1>4. \A x : In(x, <<"down", "up">>) <=> x = "up" \/ x = "down"
  BY DEF In
<1> QED
  BY <1>1, <1>2, <1>3, <1>4

LEMMA MutexMoves ==
  /\ Append(<<>>, "up") = <<"up">> /\ Append(<<>>, "down") = <<"down">>
  /\ Append(<<"up">>, "down") = <<"up", "down">> /\ Append(<<"down">>, "up") = <<"down", "up">>
  /\ Tail(<<"up">>) = <<>> /\ Tail(<<"down">>) = <<>>
  /\ Tail(<<"up", "down">>) = <<"down">> /\ Tail(<<"down", "up">>) = <<"up">>
  /\ Head(<<"up">>) = "up" /\ Head(<<"down">>) = "down"
  /\ Head(<<"up", "down">>) = "up" /\ Head(<<"down", "up">>) = "down"
<1>1. ASSUME NEW p \in {"up", "down"}, NEW q \in {"up", "down"}
      PROVE  Append(<<p>>, q) = <<p, q>>
  <2>1. <<p>> \in Seq({"up", "down"}) /\ <<p, q>> \in Seq({"up", "down"})
    OBVIOUS
  <2>2. Append(<<p>>, q) \in Seq({"up", "down"})
    BY <2>1
  <2>3. Len(Append(<<p>>, q)) = 2 /\ Len(<<p, q>>) = 2
    OBVIOUS
  <2>4. \A i \in 1 .. 2 : Append(<<p>>, q)[i] = <<p, q>>[i]
    OBVIOUS
  <2> QED
    BY <2>1, <2>2, <2>3, <2>4, SeqEqual
<1>2. /\ Append(<<>>, "up") = <<"up">> /\ Append(<<>>, "down") = <<"down">>
      /\ Tail(<<"up">>) = <<>> /\ Tail(<<"down">>) = <<>>
  OBVIOUS
<1>3. Tail(<<"up", "down">>) = <<"down">> /\ Tail(<<"down", "up">>) = <<"up">>
  OBVIOUS
<1>4. /\ Head(<<"up">>) = "up" /\ Head(<<"down">>) = "down"
      /\ Head(<<"up", "down">>) = "up" /\ Head(<<"down", "up">>) = "down"
  OBVIOUS
<1> QED
  BY <1>1, <1>2, <1>3, <1>4

LEMMA MutexesDiffer ==
  /\ <<"up", "down">> # <<"down", "up">> /\ <<"down">> # <<"down", "up">>
  /\ <<"up">> # <<"down", "up">> /\ <<"up">> # <<"down">>
  /\ <<>> # <<"down", "up">> /\ <<>> # <<"up">> /\ <<>> # <<"down">>
OBVIOUS

\* Who stands in it, by what the pumps are at.
Fits(u, d, q) ==
  LET U == u \in {"send", "request"}
      D == d \in {"cancel", "request"}
  IN /\ ~U /\ ~D => q = <<>>
     /\ U /\ ~D => q = <<"up">>
     /\ ~U /\ D => q = <<"down">>
     /\ U /\ D => q \in {<<"up", "down">>, <<"down", "up">>}

LEMMA MutexFits ==
  ASSUME NEW u, NEW d, NEW q
  PROVE  Fits(u, d, q) <=>
           /\ q \in {<<>>, <<"up">>, <<"down">>, <<"up", "down">>, <<"down", "up">>}
           /\ u \in {"send", "request"} <=> \E i \in DOMAIN q : q[i] = "up"
           /\ d \in {"cancel", "request"} <=> \E i \in DOMAIN q : q[i] = "down"
<1>1. ASSUME Fits(u, d, q)
      PROVE  /\ q \in {<<>>, <<"up">>, <<"down">>, <<"up", "down">>, <<"down", "up">>}
             /\ u \in {"send", "request"} <=> In("up", q)
             /\ d \in {"cancel", "request"} <=> In("down", q)
  BY <1>1, MutexTable, NothingIn DEF Fits
<1>2. ASSUME q \in {<<>>, <<"up">>, <<"down">>, <<"up", "down">>, <<"down", "up">>},
             u \in {"send", "request"} <=> In("up", q),
             d \in {"cancel", "request"} <=> In("down", q)
      PROVE  Fits(u, d, q)
  BY <1>2, MutexTable, NothingIn DEF Fits
<1> QED
  BY <1>1, <1>2 DEF In

LEMMA MutexQueue ==
  ASSUME NEW u, NEW d, NEW q, Fits(u, d, q), NEW v
  PROVE  /\ u \notin {"send", "request"} /\ v \in {"send", "request"} =>
              Fits(v, d, Append(q, "up"))
         /\ u \in {"send", "request"} /\ Head(q) = "up" =>
              /\ v \notin {"send", "request"} => Fits(v, d, Tail(q))
              /\ v \in {"send", "request"} => Fits(v, d, Append(Tail(q), "up"))
              /\ d \in {"cancel", "request"} => Append(Tail(q), "up") = <<"down", "up">>
         /\ d \notin {"cancel", "request"} /\ v \in {"cancel", "request"} =>
              Fits(u, v, Append(q, "down"))
         /\ d \in {"cancel", "request"} /\ Head(q) = "down" =>
              /\ v \notin {"cancel", "request"} => Fits(u, v, Tail(q))
              /\ v \in {"cancel", "request"} => Fits(u, v, Append(Tail(q), "down"))
              /\ Append(Tail(q), "down") # <<"down", "up">>
         /\ d \notin {"cancel", "request"} => Append(q, "down") # <<"down", "up">>
<1>1. CASE u \notin {"send", "request"} /\ d \notin {"cancel", "request"}
  BY <1>1, MutexMoves, MutexesDiffer DEF Fits
<1>2. CASE u \in {"send", "request"} /\ d \notin {"cancel", "request"}
  BY <1>2, MutexMoves, MutexesDiffer DEF Fits
<1>3. CASE u \notin {"send", "request"} /\ d \in {"cancel", "request"}
  BY <1>3, MutexMoves, MutexesDiffer DEF Fits
<1>4. CASE u \in {"send", "request"} /\ d \in {"cancel", "request"} /\ q = <<"up", "down">>
  BY <1>4, MutexMoves, MutexesDiffer DEF Fits
<1>5. CASE u \in {"send", "request"} /\ d \in {"cancel", "request"} /\ q = <<"down", "up">>
  BY <1>5, MutexMoves, MutexesDiffer DEF Fits
<1> QED
  BY <1>1, <1>2, <1>3, <1>4, <1>5 DEF Fits

\* Frames and events are told apart by their type.
LEMMA FramesDiffer ==
  /\ Append_ # Commit /\ Append_ # Create /\ Append_ # Cancel
  /\ Commit # Create /\ Commit # Cancel /\ Create # Cancel
  /\ \A id : Output(id) # Append_ /\ Output(id) # Commit /\ Output(id) # Create /\ Output(id) # Cancel
  /\ \A id, jd : Output(id) = Output(jd) => id = jd
BY DEF Append_, Commit, Create, Cancel, Output

LEMMA EventsDiffer ==
  /\ Done # Benign /\ Done # Error /\ Benign # Error
  /\ \A id : Call(id) # Done /\ Call(id) # Benign /\ Call(id) # Error
  /\ \A id, jd : Call(id) = Call(jd) => id = jd
BY DEF Done, Benign, Error, Event, Call

-----------------------------------------------------------------------------
(***************************************************************************)
(* A frame more on the wire, and a frame less.                             *)
(***************************************************************************)
LEMMA WireGrows ==
  ASSUME wire \in Seq(Frames), NEW f \in Frames, wire' = Append(wire, f),
         CreatesLast, asked' = asked, outputs' = outputs,
         f = Create => ~Created /\ \A id \in asked : id \in outputs \/ In(Output(id), wire)
  PROVE  CreatesLast'
<1>1. /\ Len(wire) \in Nat /\ DOMAIN wire = 1 .. Len(wire)
      /\ DOMAIN wire' = 1 .. (Len(wire) + 1)
      /\ \A i \in 1 .. Len(wire) : wire'[i] = wire[i]
      /\ wire'[Len(wire) + 1] = f
  BY Appending
<1>2. ASSUME NEW i \in DOMAIN wire', wire'[i] = Create, NEW id \in asked, id \notin outputs
      PROVE  \E j \in 1 .. i - 1 : wire'[j] = Output(id)
  <2>1. CASE i \in 1 .. Len(wire)
    <3>1. wire[i] = Create /\ i \in DOMAIN wire
      BY <1>1, <1>2, <2>1
    <3>2. PICK j \in 1 .. i - 1 : wire[j] = Output(id)
      BY <3>1, <1>2 DEF CreatesLast
    <3>3. j \in 1 .. Len(wire) /\ wire'[j] = Output(id)
      BY <1>1, <2>1, <3>2
    <3> QED
      BY <3>3
  <2>2. CASE i = Len(wire) + 1
    <3>1. In(Output(id), wire)
      BY <1>1, <1>2, <2>2
    <3>2. PICK j \in DOMAIN wire : wire[j] = Output(id)
      BY <3>1 DEF In
    <3>3. j \in 1 .. i - 1 /\ wire'[j] = Output(id)
      BY <1>1, <2>2, <3>2
    <3> QED
      BY <3>3
  <2> QED
    BY <1>1, <2>1, <2>2
<1>3. ASSUME NEW i \in DOMAIN wire', NEW j \in DOMAIN wire', wire'[i] = Create, wire'[j] = Create
      PROVE  i = j
  <2>1. CASE i \in 1 .. Len(wire) /\ j \in 1 .. Len(wire)
    BY <1>1, <1>3, <2>1 DEF CreatesLast
  <2>2. CASE i = Len(wire) + 1 \/ j = Len(wire) + 1
    <3>1. \A k \in 1 .. Len(wire) : wire'[k] # Create
      BY <1>1, <1>3, <2>2 DEF Created, In
    <3> QED
      BY <1>1, <1>3, <3>1
  <2> QED
    BY <1>1, <2>1, <2>2
<1> QED
  BY <1>2, <1>3 DEF CreatesLast

LEMMA WireShrinks ==
  ASSUME wire \in Seq(Frames), wire # <<>>, wire' = Tail(wire), CreatesLast,
         asked' = asked, outputs \subseteq outputs',
         \A id \in asked : Head(wire) = Output(id) => id \in outputs'
  PROVE  CreatesLast'
<1>1. /\ Len(wire) \in Nat \ {0} /\ DOMAIN wire = 1 .. Len(wire)
      /\ DOMAIN wire' = 1 .. (Len(wire) - 1)
      /\ \A i \in 1 .. (Len(wire) - 1) : wire'[i] = wire[i + 1]
      /\ wire[1] = Head(wire)
  BY Taking
<1>2. ASSUME NEW i \in DOMAIN wire', wire'[i] = Create, NEW id \in asked, id \notin outputs'
      PROVE  \E j \in 1 .. i - 1 : wire'[j] = Output(id)
  <2>1. i + 1 \in DOMAIN wire /\ wire[i + 1] = Create /\ id \notin outputs
    BY <1>1, <1>2
  <2>2. PICK j \in 1 .. (i + 1) - 1 : wire[j] = Output(id)
    BY <2>1 DEF CreatesLast
  <2>3. j # 1
    BY <1>1, <1>2, <2>2
  <2>4. j - 1 \in 1 .. i - 1 /\ wire'[j - 1] = Output(id)
    BY <1>1, <1>2, <2>2, <2>3
  <2> QED
    BY <2>4
<1>3. ASSUME NEW i \in DOMAIN wire', NEW j \in DOMAIN wire', wire'[i] = Create, wire'[j] = Create
      PROVE  i = j
  <2>1. /\ i + 1 \in DOMAIN wire /\ wire[i + 1] = Create
        /\ j + 1 \in DOMAIN wire /\ wire[j + 1] = Create
    BY <1>1, <1>3
  <2>2. i + 1 = j + 1
    BY <2>1 DEF CreatesLast
  <2> QED
    BY <1>1, <2>2
<1> QED
  BY <1>2, <1>3 DEF CreatesLast

LEMMA CancelsGrow ==
  ASSUME wire \in Seq(Frames), NEW f \in Frames, wire' = Append(wire, f), CancelsOnWire,
         f = Cancel => turn'.cancelled,
         turn.cancelled => turn'.cancelled \/ f = Create
  PROVE  CancelsOnWire'
<1>1. /\ Len(wire) \in Nat /\ DOMAIN wire = 1 .. Len(wire)
      /\ DOMAIN wire' = 1 .. (Len(wire) + 1)
      /\ \A i \in 1 .. Len(wire) : wire'[i] = wire[i]
      /\ wire'[Len(wire) + 1] = f
  BY Appending
<1>2. ASSUME NEW j \in DOMAIN wire', wire'[j] = Cancel, ~turn'.cancelled
      PROVE  \E i \in DOMAIN wire' : i > j /\ wire'[i] = Create
  <2>1. j \in DOMAIN wire /\ wire[j] = Cancel
    BY <1>1, <1>2
  <2>2. CASE turn.cancelled
    BY <1>1, <1>2, <2>1, <2>2
  <2>3. CASE ~turn.cancelled
    <3>1. PICK i \in DOMAIN wire : i > j /\ wire[i] = Create
      BY <2>1, <2>3 DEF CancelsOnWire
    <3> QED
      BY <1>1, <3>1
  <2> QED
    BY <2>2, <2>3
<1> QED
  BY <1>2 DEF CancelsOnWire

LEMMA CancelsShrink ==
  ASSUME wire \in Seq(Frames), wire # <<>>, wire' = Tail(wire), CancelsOnWire, turn' = turn
  PROVE  CancelsOnWire'
<1>1. /\ Len(wire) \in Nat \ {0} /\ DOMAIN wire = 1 .. Len(wire)
      /\ DOMAIN wire' = 1 .. (Len(wire) - 1)
      /\ \A i \in 1 .. (Len(wire) - 1) : wire'[i] = wire[i + 1]
  BY Taking
<1>2. ASSUME NEW j \in DOMAIN wire', wire'[j] = Cancel, ~turn'.cancelled
      PROVE  \E i \in DOMAIN wire' : i > j /\ wire'[i] = Create
  <2>1. j + 1 \in DOMAIN wire /\ wire[j + 1] = Cancel
    BY <1>1, <1>2
  <2>2. PICK i \in DOMAIN wire : i > j + 1 /\ wire[i] = Create
    BY <1>2, <2>1 DEF CancelsOnWire
  <2>3. i - 1 \in DOMAIN wire' /\ i - 1 > j /\ wire'[i - 1] = Create
    BY <1>1, <1>2, <2>2
  <2> QED
    BY <2>3
<1> QED
  BY <1>2 DEF CancelsOnWire

-----------------------------------------------------------------------------
(***************************************************************************)
(* An event more, and an event less.                                       *)
(***************************************************************************)
LEMMA EventsGrow ==
  ASSUME events \in Seq(Events), NEW e \in Events, events' = Append(events, e)
  PROVE  /\ events' \in Seq(Events) /\ events' # <<>>
         /\ \A x : In(x, events') <=> In(x, events) \/ x = e
         /\ Announced' = Announced \cup {id \in Calls : e = Call(id)}
         /\ CallsOnce /\ asked \subseteq asked'
              /\ (\A id \in Calls : e = Call(id) => id \in asked' \ asked) => CallsOnce'
         /\ DoneLast /\ e # Error /\ turn' = turn
              /\ (Finishing => e = Benign /\ turn.cancelled) => DoneLast'
<1>1. /\ Len(events) \in Nat /\ DOMAIN events = 1 .. Len(events)
      /\ DOMAIN events' = 1 .. (Len(events) + 1)
      /\ \A i \in 1 .. Len(events) : events'[i] = events[i]
      /\ events'[Len(events) + 1] = e
      /\ \A x : In(x, events') <=> In(x, events) \/ x = e
      /\ events' \in Seq(Events) /\ events' # <<>>
  BY Appending
<1>2. Announced' = Announced \cup {id \in Calls : e = Call(id)}
  BY <1>1 DEF Announced
<1>3. ASSUME CallsOnce, asked \subseteq asked', \A id \in Calls : e = Call(id) => id \in asked' \ asked
      PROVE  CallsOnce'
  <2>1. ASSUME NEW id \in Calls, NEW i \in DOMAIN events', NEW j \in DOMAIN events',
               events'[i] = Call(id), events'[j] = Call(id)
        PROVE  i = j
    <3>1. CASE In(Call(id), events)
      <4>1. id \in asked
        BY <1>3, <3>1 DEF CallsOnce, Announced
      <4>2. i \in DOMAIN events /\ j \in DOMAIN events
        BY <1>1, <1>3, <2>1, <4>1
      <4> QED
        BY <1>1, <1>3, <2>1, <4>2 DEF CallsOnce
    <3>2. CASE ~In(Call(id), events)
      BY <1>1, <2>1, <3>2 DEF In
    <3> QED
      BY <3>1, <3>2
  <2>2. Announced' \subseteq asked'
    BY <1>2, <1>3 DEF CallsOnce
  <2> QED
    BY <2>1, <2>2 DEF CallsOnce
<1>4. ASSUME DoneLast, e # Error, turn' = turn, Finishing => e = Benign /\ turn.cancelled
      PROVE  DoneLast'
  <2>1. ~In(Error, events')
    BY <1>1, <1>4 DEF DoneLast
  <2>2. ASSUME NEW i \in DOMAIN events', NEW j \in DOMAIN events', i < j, events'[i] = Done
        PROVE  events'[j] = Benign /\ turn'.cancelled
    <3>1. i \in DOMAIN events /\ events[i] = Done
      BY <1>1, <2>2
    <3>2. Finishing
      BY <3>1 DEF Finishing, In
    <3>3. CASE j \in DOMAIN events
      BY <1>1, <1>4, <2>2, <3>1, <3>3 DEF DoneLast
    <3>4. CASE j = Len(events) + 1
      BY <1>1, <1>4, <3>2, <3>4
    <3> QED
      BY <1>1, <3>3, <3>4
  <2> QED
    BY <2>1, <2>2 DEF DoneLast
<1> QED
  BY <1>1, <1>2, <1>3, <1>4

LEMMA EventsShrink ==
  ASSUME events \in Seq(Events), events # <<>>, events' = Tail(events)
  PROVE  /\ events' \in Seq(Events)
         /\ Head(events) \in Events /\ In(Head(events), events)
         /\ \A x : In(x, events) <=> In(x, events') \/ x = Head(events)
         /\ Announced = Announced' \cup {id \in Calls : Head(events) = Call(id)}
         /\ CallsOnce => \A id \in Calls : Head(events) = Call(id) => id \notin Announced'
         /\ CallsOnce /\ asked \subseteq asked' => CallsOnce'
         /\ DoneLast /\ (turn.cancelled => turn'.cancelled) => DoneLast'
         /\ DoneLast /\ Head(events) = Done =>
              /\ \A x : In(x, events') => x = Benign
              /\ ~turn.cancelled => events' = <<>>
<1>1. /\ Len(events) \in Nat \ {0} /\ DOMAIN events = 1 .. Len(events)
      /\ DOMAIN events' = 1 .. (Len(events) - 1)
      /\ \A i \in 1 .. (Len(events) - 1) : events'[i] = events[i + 1]
      /\ events[1] = Head(events)
      /\ \A x : In(x, events) <=> In(x, events') \/ x = Head(events)
      /\ events' \in Seq(Events) /\ Head(events) \in Events
  BY Taking
<1>2. Announced = Announced' \cup {id \in Calls : Head(events) = Call(id)}
  BY <1>1 DEF Announced
<1>3. ASSUME CallsOnce, NEW id \in Calls, Head(events) = Call(id)
      PROVE  id \notin Announced'
  <2>1. SUFFICES ASSUME In(Call(id), events') PROVE FALSE
    BY DEF Announced
  <2>2. PICK i \in DOMAIN events' : events'[i] = Call(id)
    BY <2>1 DEF In
  <2>3. 1 \in DOMAIN events /\ i + 1 \in DOMAIN events /\ events[i + 1] = Call(id) /\ i + 1 # 1
    BY <1>1, <2>2
  <2> QED
    BY <1>1, <1>3, <2>3 DEF CallsOnce
<1>4. ASSUME CallsOnce, asked \subseteq asked'
      PROVE  CallsOnce'
  <2>1. ASSUME NEW id \in Calls, NEW i \in DOMAIN events', NEW j \in DOMAIN events',
               events'[i] = Call(id), events'[j] = Call(id)
        PROVE  i = j
    <3>1. /\ i + 1 \in DOMAIN events /\ events[i + 1] = Call(id)
          /\ j + 1 \in DOMAIN events /\ events[j + 1] = Call(id)
      BY <1>1, <2>1
    <3>2. i + 1 = j + 1
      BY <1>4, <3>1 DEF CallsOnce
    <3> QED
      BY <1>1, <3>2
  <2>2. Announced' \subseteq asked'
    BY <1>2, <1>4 DEF CallsOnce
  <2> QED
    BY <2>1, <2>2 DEF CallsOnce
<1>5. ASSUME DoneLast, turn.cancelled => turn'.cancelled
      PROVE  DoneLast'
  <2>1. ~In(Error, events')
    BY <1>1, <1>5 DEF DoneLast
  <2>2. ASSUME NEW i \in DOMAIN events', NEW j \in DOMAIN events', i < j, events'[i] = Done
        PROVE  events'[j] = Benign /\ turn'.cancelled
    <3>1. /\ i + 1 \in DOMAIN events /\ j + 1 \in DOMAIN events /\ i + 1 < j + 1
          /\ events[i + 1] = Done /\ events'[j] = events[j + 1]
      BY <1>1, <2>2
    <3> QED
      BY <1>5, <3>1 DEF DoneLast
  <2> QED
    BY <2>1, <2>2 DEF DoneLast
<1>6. ASSUME DoneLast, Head(events) = Done
      PROVE  /\ \A x : In(x, events') => x = Benign
             /\ ~turn.cancelled => events' = <<>>
  <2>1. ASSUME NEW i \in DOMAIN events'
        PROVE  events'[i] = Benign /\ turn.cancelled
    <3>1. 1 \in DOMAIN events /\ i + 1 \in DOMAIN events /\ 1 < i + 1 /\ events'[i] = events[i + 1]
      BY <1>1
    <3> QED
      BY <1>1, <1>6, <3>1 DEF DoneLast
  <2>2. \A x : In(x, events') => x = Benign
    BY <2>1 DEF In
  <2>3. ASSUME ~turn.cancelled PROVE events' = <<>>
    BY <1>1, <2>1, <2>3
  <2> QED
    BY <2>2, <2>3
<1> QED
  BY <1>1, <1>2, <1>3, <1>4, <1>5, <1>6

-----------------------------------------------------------------------------
(***************************************************************************)
(* How many calls there are.                                               *)
(***************************************************************************)
LEMMA CallSets ==
  ASSUME NEW S \in SUBSET Calls
  PROVE  /\ Cardinality(S) \in Nat /\ Cardinality(S) <= Cardinality(Calls)
         /\ Cardinality(Calls) \in Nat
         /\ \A T \in SUBSET S : Cardinality(T) <= Cardinality(S)
         /\ \A id \in Calls \ S : Cardinality(S \cup {id}) = Cardinality(S) + 1
<1>1. IsFiniteSet(Calls) /\ IsFiniteSet(S)
  BY RelayAssumption, FS_Subset
<1>2. Cardinality(S) \in Nat /\ Cardinality(Calls) \in Nat
  BY <1>1, FS_CardinalityType
<1>3. Cardinality(S) <= Cardinality(Calls)
  BY <1>1, FS_Subset
<1>4. \A T \in SUBSET S : Cardinality(T) <= Cardinality(S)
  BY <1>1, FS_Subset
<1>5. \A id \in Calls \ S : Cardinality(S \cup {id}) = Cardinality(S) + 1
  BY <1>1, FS_AddElement
<1> QED
  BY <1>2, <1>3, <1>4, <1>5

-----------------------------------------------------------------------------
(***************************************************************************)
(* The invariant holds initially and every action keeps it.                *)
(***************************************************************************)
TurnType == [awaiting : SUBSET Calls, made : BOOLEAN, done : BOOLEAN,
             calls : 0 .. Cardinality(Calls), cancelled : BOOLEAN]
PumpType == [at : {"held", "receive", "send", "request"}, out : Seq(Frames)]

LEMMA Typed ==
  ASSUME TypeOK
  PROVE  /\ turn \in TurnType /\ up \in PumpType
         /\ Fits(up.at, down, mutex)
         /\ wire \in Seq(Frames) /\ events \in Seq(Events)
BY MutexFits DEF TypeOK, TurnType, PumpType

LEMMA InitInv == Init => RelayInv
<1> SUFFICES ASSUME Init PROVE RelayInv
  OBVIOUS
<1> USE DEF Init, household, provider
<1>1. /\ \A x : ~In(x, wire) /\ ~In(x, events) /\ ~In(x, up.out)
      /\ Announced = {}
  BY NothingIn DEF Announced
<1>2. TypeOK
  <2>1. turn \in [awaiting : SUBSET Calls, made : BOOLEAN, done : BOOLEAN,
                  calls : 0 .. Cardinality(Calls), cancelled : BOOLEAN]
    BY CallSets DEF NewRound
  <2>2. /\ up.at \in {"send", "request"} <=> \E i \in DOMAIN mutex : mutex[i] = "up"
        /\ down \in {"cancel", "request"} <=> \E i \in DOMAIN mutex : mutex[i] = "down"
    OBVIOUS
  <2>3. /\ up \in [at : {"held", "receive", "send", "request"}, out : Seq(Frames)]
        /\ wire \in Seq(Frames) /\ events \in Seq(Events)
    OBVIOUS
  <2> QED
    BY <2>1, <2>2, <2>3 DEF TypeOK
<1>3. CallsCounted /\ UpSends /\ CallsOnce /\ Known
  BY <1>1, CallSets DEF CallsCounted, UpSends, CallsOnce, Known, NewRound
<1>4. OneTurn /\ NothingAsked
  BY <1>1 DEF OneTurn, NothingAsked, Speaking, Ending, Committing, Created,
              Responding, Finishing, Gathering, NewRound
<1>5. RoundsBegin
  BY DEF RoundsBegin
<1>6. Answering
  <2>1. turn.calls = 0 /\ Cardinality(fresh \ Announced) \in Nat
    BY CallSets DEF NewRound
  <2> QED
    BY <1>1, <2>1 DEF Answering
<1>7. Awaited /\ Covered /\ Requests /\ NothingBehind
  BY <1>1 DEF Awaited, Covered, Requests, NothingBehind, FollowUpReady, NewRound
<1>8. CreatesLast /\ CancelsFirst /\ Loops /\ DoneLast
  BY <1>1, RelayAssumption DEF CreatesLast, CancelsFirst, CancelsOnWire, Loops, DoneLast, NewRound
<1>9. Completed
  BY DEF Completed
<1> QED
  BY <1>2, <1>3, <1>4, <1>5, <1>6, <1>7, <1>8, <1>9 DEF RelayInv, Always, Orderly

LEMMA UpStartKeeps ==
  ASSUME RelayInv, UpStart
  PROVE  RelayInv'
<1> USE DEF UpStart, household, provider
<1>1. Always
  BY DEF RelayInv
<1>2. /\ up' \in [at : {"held", "receive", "send", "request"}, out : Seq(Frames)]
      /\ up.at = "held" /\ up'.at = "receive" /\ up'.out = up.out /\ up.out = <<>>
  BY <1>1 DEF Always, TypeOK, UpSends
<1>3. Always'
  <2>1. TypeOK'
    BY <1>1, <1>2 DEF Always, TypeOK
  <2>2. CallsCounted' /\ UpSends' /\ CallsOnce' /\ Known'
    BY <1>1, <1>2 DEF Always, CallsCounted, Announced, UpSends, CallsOnce, Known
  <2> QED
    BY <2>1, <2>2 DEF Always
<1>4. ASSUME ~overlapped' PROVE Orderly'
  <2> USE DEF Orderly
  <2>1. Orderly
    BY <1>4 DEF RelayInv
  <2>2. OneTurn' /\ NothingAsked' /\ RoundsBegin'
    BY <1>2, <2>1 DEF OneTurn, NothingAsked, RoundsBegin, Speaking, Ending, Committing, Created,
              Responding, Finishing, Gathering
  <2>3. Answering' /\ Awaited' /\ Covered'
    BY <1>2, <2>1 DEF Answering, Awaited, Covered, Responding, Finishing, Announced
  <2>4. Requests' /\ NothingBehind'
    BY <1>2, <2>1 DEF Requests, NothingBehind, FollowUpReady
  <2>5. CreatesLast' /\ CancelsFirst'
    BY <1>2, <2>1 DEF CreatesLast, CancelsFirst, CancelsOnWire
  <2>6. Loops' /\ DoneLast' /\ Completed'
    BY <1>2, <2>1 DEF Loops, DoneLast, Completed, Ending, Committing, Created,
              Responding, Finishing, Gathering
  <2> QED
    BY <2>2, <2>3, <2>4, <2>5, <2>6
<1> QED
  BY <1>3, <1>4 DEF RelayInv

\* What one frame becomes.
LEMMA TranslatedFrames ==
  ASSUME NEW frame \in {Audio, ActivityEnd} \cup {ToolResponse(id) : id \in Calls}
  PROVE  /\ Translated(frame) \in Translations /\ Translated(frame) \in Seq(Frames)
         /\ frame.type # "tool-response" => \A id : ~In(Output(id), Translated(frame))
         /\ frame.type # "activity-end" => ~In(Create, Translated(frame))
         /\ frame.type = "activity-end" => frame = ActivityEnd
         /\ frame.type = "tool-response" =>
              frame.id \in Calls /\ frame = ToolResponse(frame.id)
                /\ In(Output(frame.id), Translated(frame))
         /\ \A id : In(Output(id), Translated(frame)) => frame = ToolResponse(id)
<1>1. CASE frame = Audio
  <2>1. Translated(frame) = <<Append_>> /\ frame.type = "audio"
    BY <1>1 DEF Audio, Translated
  <2>2. \A x : In(x, <<Append_>>) <=> x = Append_
    BY DEF In
  <2>3. <<Append_>> \in Translations /\ <<Append_>> \in Seq(Frames)
    BY DEF Translations, Frames
  <2> QED
    BY <2>1, <2>2, <2>3, FramesDiffer
<1>2. CASE frame = ActivityEnd
  <2>1. /\ Translated(frame) = <<Commit>> \/ Translated(frame) = <<Commit, Create>>
        /\ frame.type = "activity-end"
    BY <1>2 DEF ActivityEnd, Translated
  <2>2. /\ \A x : In(x, <<Commit>>) => x = Commit
        /\ \A x : In(x, <<Commit, Create>>) => x = Commit \/ x = Create
    BY DEF In
  <2>3. /\ <<Commit>> \in Translations /\ <<Commit, Create>> \in Translations
        /\ <<Commit>> \in Seq(Frames) /\ <<Commit, Create>> \in Seq(Frames)
    BY DEF Translations, Frames
  <2> QED
    BY <1>2, <2>1, <2>2, <2>3, FramesDiffer
<1>3. ASSUME NEW id \in Calls, frame = ToolResponse(id)
      PROVE  /\ Translated(frame) = <<Output(id)>> /\ frame.id = id
             /\ frame.type = "tool-response"
  BY <1>3 DEF ToolResponse, Translated
<1>4. CASE \E id \in Calls : frame = ToolResponse(id)
  <2>1. PICK id \in Calls : frame = ToolResponse(id)
    BY <1>4
  <2>2. /\ Translated(frame) = <<Output(id)>> /\ frame.id = id
        /\ frame.type = "tool-response"
    BY <1>3, <2>1
  <2>3. \A x : In(x, <<Output(id)>>) <=> x = Output(id)
    BY DEF In
  <2> QED
    BY <2>1, <2>2, <2>3, FramesDiffer DEF Translations, Frames
<1> QED
  BY <1>1, <1>2, <1>4

LEMMA UpReceiveKeeps ==
  ASSUME RelayInv, NEW frame \in uplink, UpReceive(frame)
  PROVE  RelayInv'
<1> USE DEF UpReceive, household, provider
<1>1. Always
  BY DEF RelayInv
<1>2. /\ frame \in {Audio, ActivityEnd} \cup {ToolResponse(id) : id \in Calls}
      /\ up.at = "receive" /\ up.out = <<>>
  BY <1>1 DEF Always, TypeOK, UpSends
<1>3. \A x : ~In(x, up.out)
  BY <1>2, NothingIn
<1>4. /\ up' \in [at : {"held", "receive", "send", "request"}, out : Seq(Frames)]
      /\ up'.at = "send" /\ up'.out = Translated(frame)
  BY <1>2, TranslatedFrames
<1>5. UNCHANGED Announced
  BY DEF Announced
<1>6. CASE frame.type = "tool-response"
  <2>1. PICK id \in Calls : frame = ToolResponse(id) /\ frame.id = id
    BY <1>2, <1>6, TranslatedFrames
  <2>2. /\ uplink' = uplink \ {ToolResponse(id)}
        /\ turn' = [turn EXCEPT !.awaiting = @ \ {id}]
    BY <1>6, <2>1
  <2>3. turn \in [awaiting : SUBSET Calls, made : BOOLEAN, done : BOOLEAN,
                  calls : 0 .. Cardinality(Calls), cancelled : BOOLEAN]
    BY <1>1 DEF Always, TypeOK
  <2>4. /\ turn'.awaiting = turn.awaiting \ {id} /\ turn'.made = turn.made
        /\ turn'.done = turn.done /\ turn'.calls = turn.calls
        /\ turn'.cancelled = turn.cancelled
    BY <2>2, <2>3
  <2>5. /\ In(Output(id), up'.out) /\ ~In(Create, up'.out)
        /\ \A jd \in Calls : In(Output(jd), up'.out) => ToolResponse(jd) \in uplink
    BY <1>2, <1>4, <1>6, <2>1, TranslatedFrames
  <2>6. /\ \A jd : ToolResponse(jd) = ToolResponse(id) => jd = id
        /\ ActivityEnd # ToolResponse(id)
    BY DEF ToolResponse, ActivityEnd
  <2>7. Always'
    <3>1. Fits(up'.at, down', mutex')
      BY <1>1, <1>2, <1>4, Typed, MutexQueue DEF Always
    <3>2. turn' \in TurnType
      BY <1>1, <2>2, <2>3 DEF TurnType
    <3>3. TypeOK'
      BY <1>1, <1>4, <2>2, <3>1, <3>2, MutexFits DEF Always, TypeOK, TurnType
    <3>4. UpSends' /\ CallsOnce' /\ CallsCounted'
      BY <1>1, <1>2, <1>4, <1>5, <2>4, TranslatedFrames DEF Always, UpSends, CallsOnce, CallsCounted
    <3>5. Known'
      BY <1>1, <1>3, <2>2, <2>5 DEF Always, Known
    <3> QED
      BY <3>3, <3>4, <3>5 DEF Always
  <2>8. ASSUME ~overlapped' PROVE Orderly'
    <3> USE DEF Orderly
    <3>1. Orderly
      BY <2>8 DEF RelayInv
    <3>2. id \in turn.awaiting /\ id \notin dispatched
      BY <2>1, <3>1 DEF Awaited
    <3>3. up.at # "request" /\ down # "request" /\ turn.made /\ turn # NewRound
      BY <3>1, <3>2 DEF Requests, FollowUpReady, RoundsBegin, NewRound
    <3>4. OneTurn' /\ NothingAsked'
      BY <1>3, <2>2, <2>4, <2>5, <2>6, <3>1
      DEF OneTurn, NothingAsked, Speaking, Ending, Committing, Created, Responding, Finishing, Gathering
    <3>5. RoundsBegin'
      BY <1>3, <2>2, <2>4, <2>5, <2>6, <3>1, <3>3
      DEF RoundsBegin, Speaking, Ending, Committing, Created
    <3>6. Answering'
      BY <1>5, <2>4, <3>1 DEF Answering, Responding, Finishing
    <3>7. Awaited'
      BY <1>5, <2>2, <2>4, <2>6, <3>1, <3>2 DEF Awaited
    <3>8. Covered'
      BY <1>3, <1>5, <2>4, <2>5, <3>1 DEF Covered
    <3>9. Requests' /\ NothingBehind'
      BY <1>4, <3>3 DEF Requests, NothingBehind
    <3>10. CreatesLast' /\ CancelsFirst'
      BY <1>4, <2>4, <3>1 DEF CreatesLast, CancelsFirst, CancelsOnWire
    <3>11. Loops' /\ DoneLast'
      BY <2>4, <3>1 DEF Loops, DoneLast
    <3>12. Completed'
      BY <2>2, <2>4, <2>5, <3>1, <3>3 DEF Completed
    <3> QED
      BY <3>4, <3>5, <3>6, <3>7, <3>8, <3>9, <3>10, <3>11, <3>12
  <2> QED
    BY <2>7, <2>8 DEF RelayInv
<1>7. CASE frame.type # "tool-response"
  <2>1. /\ turn' = turn /\ uplink' = uplink \ {frame}
        /\ \A id : ~In(Output(id), up'.out)
        /\ In(Create, up'.out) => frame = ActivityEnd
    BY <1>2, <1>4, <1>7, TranslatedFrames
  <2>2. Always'
    <3>1. Fits(up'.at, down', mutex')
      BY <1>1, <1>2, <1>4, Typed, MutexQueue DEF Always
    <3>2. TypeOK'
      BY <1>1, <1>4, <2>1, <3>1, MutexFits DEF Always, TypeOK
    <3>3. UpSends' /\ CallsOnce' /\ CallsCounted'
      BY <1>1, <1>2, <1>4, <1>5, <2>1, TranslatedFrames DEF Always, UpSends, CallsOnce, CallsCounted
    <3>4. Known'
      BY <1>1, <2>1 DEF Always, Known
    <3> QED
      BY <3>2, <3>3, <3>4 DEF Always
  <2>3. ASSUME ~overlapped' PROVE Orderly'
    <3> USE DEF Orderly
    <3>1. Orderly
      BY <2>3 DEF RelayInv
    <3>2. OneTurn' /\ NothingAsked' /\ RoundsBegin'
      BY <1>3, <2>1, <3>1 DEF OneTurn, NothingAsked, RoundsBegin, Speaking, Ending, Committing,
                              Created, Responding, Finishing, Gathering
    <3>3. Answering' /\ Awaited' /\ Covered'
      BY <1>3, <1>5, <2>1, <3>1 DEF Answering, Awaited, Covered, Responding, Finishing
    <3>4. Requests' /\ NothingBehind'
      BY <1>4, <2>1, <3>1 DEF Requests, NothingBehind, FollowUpReady
    <3>5. CreatesLast' /\ CancelsFirst' /\ Loops' /\ DoneLast'
      BY <1>4, <2>1, <3>1 DEF CreatesLast, CancelsFirst, CancelsOnWire, Loops, DoneLast
    <3>6. Completed'
      BY <2>1, <3>1 DEF Completed, Ending, Committing, Created, Responding, Gathering
    <3> QED
      BY <3>2, <3>3, <3>4, <3>5, <3>6
  <2> QED
    BY <2>2, <2>3 DEF RelayInv
<1> QED
  BY <1>6, <1>7

\* The parts of what one frame becomes, as they are sent.
LEMMA TranslationParts ==
  ASSUME NEW out \in Translations
  PROVE  /\ Head(out) \in Frames \ {Cancel} /\ Tail(out) \in {<<>>, <<Create>>}
         /\ Tail(out) # <<>> => Head(out) = Commit
         /\ \A x : In(x, out) <=> x = Head(out) \/ In(x, Tail(out))
         /\ \A id : ~In(Output(id), Tail(out))
         /\ Tail(out) \in Seq(Frames) /\ (Tail(out) # <<>> => Tail(out) \in Translations)
<1>1. ASSUME NEW f \in Frames, out = <<f>>, f # Cancel
      PROVE  Head(out) = f /\ Tail(out) = <<>> /\ \A x : In(x, out) <=> x = f
  BY <1>1 DEF In
<1>2. ASSUME out = <<Commit, Create>>
      PROVE  Head(out) = Commit /\ Tail(out) = <<Create>> /\ \A x : In(x, out) <=> x = Commit \/ x = Create
  BY <1>2 DEF In
<1>3. \/ \E f \in Frames \ {Cancel} : out = <<f>>
      \/ out = <<Commit, Create>>
  BY FramesDiffer DEF Translations, Frames
<1>4. /\ \A x : In(x, <<Create>>) <=> x = Create
      /\ <<Create>> \in Translations /\ Commit \in Frames /\ Create \in Frames
  BY DEF In, Translations, Frames
<1>5. <<>> \in Seq(Frames) /\ <<Create>> \in Seq(Frames)
  BY <1>4
<1>6. CASE \E f \in Frames \ {Cancel} : out = <<f>>
  BY <1>1, <1>5, <1>6, NothingIn
<1>7. CASE out = <<Commit, Create>>
  BY <1>2, <1>4, <1>5, <1>7, FramesDiffer
<1> QED
  BY <1>3, <1>6, <1>7

LEMMA UpSentKeeps ==
  ASSUME RelayInv, UpSent
  PROVE  RelayInv'
<1> USE DEF household, provider
<1>1. Always
  BY DEF RelayInv
<1> DEFINE f == Head(up.out)
           rest == Tail(up.out)
<1>2. /\ up.at = "send" /\ Head(mutex) = "up" /\ up.out \in Translations
      /\ f \in Frames /\ f # Cancel /\ rest \in {<<>>, <<Create>>} /\ (rest # <<>> => f = Commit)
      /\ \A x : In(x, up.out) <=> x = f \/ In(x, rest)
      /\ \A id : ~In(Output(id), rest)
      /\ rest \in Seq(Frames) /\ (rest # <<>> => rest \in Translations)
  <2>1. up.at = "send" /\ Head(mutex) = "up" /\ up.out \in Translations
    BY <1>1 DEF Always, UpSends, UpSent
  <2> QED
    BY <2>1, TranslationParts
<1>3. /\ wire' = IF f = Append_ THEN wire ELSE Append(wire, f)
      /\ UNCHANGED <<endpointing, link, household, turn, down, events, provider>>
  BY DEF UpSent
<1>4. \/ /\ rest # <<>>
         /\ up' = [at |-> "send", out |-> rest]
         /\ mutex' = Append(Tail(mutex), "up")
         /\ UNCHANGED overlapped
      \/ /\ rest = <<>> /\ FollowUpReady(turn)
         /\ up' = [at |-> "request", out |-> <<>>]
         /\ mutex' = Append(Tail(mutex), "up")
         /\ overlapped' = (overlapped \/ down = "request")
      \/ /\ rest = <<>> /\ ~FollowUpReady(turn)
         /\ up' = [at |-> "receive", out |-> <<>>]
         /\ mutex' = Tail(mutex)
         /\ UNCHANGED overlapped
  BY DEF UpSent
<1> HIDE DEF f, rest
<1>5. /\ up'.out = rest /\ up' \in PumpType
      /\ up'.at \in {"send", "request", "receive"} /\ (up'.at = "send" <=> rest # <<>>)
      /\ mutex' = IF up'.at = "receive" THEN Tail(mutex) ELSE Append(Tail(mutex), "up")
      /\ up'.at = "request" => FollowUpReady(turn)
  BY <1>2, <1>4 DEF PumpType
<1>6. /\ overlapped' \in BOOLEAN
      /\ ~overlapped' => ~overlapped /\ ~(up'.at = "request" /\ down = "request")
  <2>1. overlapped \in BOOLEAN
    BY <1>1 DEF Always, TypeOK
  <2>2. \/ overlapped' = overlapped /\ up'.at # "request"
        \/ overlapped' = (overlapped \/ down = "request")
    BY <1>4
  <2> QED
    BY <2>1, <2>2, Zenon
<1>7. \A x : In(x, wire') <=> In(x, wire) \/ (x = f /\ f # Append_)
  BY <1>1, <1>2, <1>3, <1>5, Appending DEF Always, TypeOK
<1>8. UNCHANGED Announced
  BY <1>3, <1>5 DEF Announced
<1>9. Always'
  <2>1. Fits(up'.at, down', mutex')
    BY <1>1, <1>2, <1>3, <1>5, Typed, MutexQueue DEF Always
  <2>2. wire' \in Seq(Frames)
    BY <1>1, <1>2, <1>3, <1>5, Appending DEF Always, TypeOK
  <2>3. TypeOK'
    BY <1>1, <1>3, <1>5, <1>6, <2>1, <2>2, MutexFits DEF Always, TypeOK, PumpType
  <2>4. UpSends'
    BY <1>2, <1>3, <1>5 DEF UpSends, Translations
  <2>5. CallsOnce' /\ CallsCounted'
    BY <1>1, <1>3, <1>5, <1>8 DEF Always, CallsOnce, CallsCounted
  <2>6. Known'
    BY <1>1, <1>2, <1>3, <1>5, <1>7 DEF Always, Known
  <2> QED
    BY <2>3, <2>4, <2>5, <2>6 DEF Always
<1>10. ASSUME ~overlapped' PROVE Orderly'
  <2> USE DEF Orderly
  <2>1. Orderly /\ ~(up'.at = "request" /\ down = "request")
    BY <1>6, <1>10 DEF RelayInv
  <2>2. /\ Committing <=> f = Create \/ In(Create, rest)
        /\ Committing' <=> In(Create, rest)
        /\ Created' <=> Created \/ f = Create
        /\ (f = Create => rest = <<>>) /\ ~In(Create, <<>>)
        /\ UNCHANGED <<Speaking, Ending, Responding, Finishing, Gathering>>
    BY <1>2, <1>3, <1>5, <1>7, FramesDiffer, NothingIn
    DEF Speaking, Ending, Committing, Created, Responding, Finishing, Gathering
  <2>3. OneTurn'
    BY <2>1, <2>2 DEF OneTurn
  <2>4. NothingAsked' /\ RoundsBegin'
    BY <1>3, <2>1, <2>2 DEF NothingAsked, RoundsBegin
  <2>5. Answering' /\ Awaited'
    BY <1>3, <1>5, <1>8, <2>1 DEF Answering, Awaited, Responding, Finishing
  <2>6. Covered'
    BY <1>2, <1>3, <1>5, <1>7, <1>8, <2>1, FramesDiffer DEF Covered
  <2>7. Requests' /\ NothingBehind'
    BY <1>2, <1>3, <1>5, <2>1 DEF Requests, NothingBehind, FollowUpReady
  <2>8. CreatesLast'
    <3>1. CASE f = Append_
      BY <1>3, <1>5, <2>1, <3>1 DEF CreatesLast
    <3>2. CASE f # Append_
      <4>1. f = Create => ~Created /\ asked = {}
        BY <1>2, <2>1 DEF Committing, OneTurn, NothingAsked
      <4> QED
        BY <1>1, <1>2, <1>3, <1>5, <2>1, <3>2, <4>1, WireGrows DEF Always, TypeOK
    <3> QED
      BY <3>1, <3>2
  <2>9. CancelsOnWire'
    <3>1. CASE f = Append_
      BY <1>3, <1>5, <2>1, <3>1 DEF CancelsFirst, CancelsOnWire
    <3>2. CASE f # Append_
      BY <1>1, <1>2, <1>3, <1>5, <2>1, <3>2, CancelsGrow DEF Always, TypeOK, CancelsFirst
    <3> QED
      BY <3>1, <3>2
  <2>10. CancelsFirst'
    BY <1>1, <1>2, <1>3, <1>5, <2>1, <2>9, Typed, MutexQueue DEF Always, CancelsFirst
  <2>11. Loops' /\ DoneLast'
    BY <1>3, <1>5, <2>1 DEF Loops, DoneLast
  <2>12. Completed'
    BY <1>2, <1>3, <1>5, <1>7, <2>1 DEF Completed, Ending, Committing, Created, Responding, Gathering
  <2> QED
    BY <2>3, <2>4, <2>5, <2>6, <2>7, <2>8, <2>10, <2>11, <2>12
<1> QED
  BY <1>9, <1>10 DEF RelayInv

\* The request for the answer, whichever pump sends it.
LEMMA RequestKeeps ==
  ASSUME RelayInv, turn' = NewRound, wire' = Append(wire, Create), overlapped' = overlapped,
         UNCHANGED <<endpointing, link, household, events, provider>>,
         up' \in PumpType, up'.out = up.out, UpSends',
         down' \in {"receive", "deliver", "cancel", "request"}, Fits(up'.at, down', mutex'),
         ~overlapped =>
           /\ FollowUpReady(turn)
           /\ down' \notin {"cancel", "request"} /\ up'.at # "request"
           /\ \A id \in Calls : ~In(Output(id), up.out)
  PROVE  RelayInv'
<1> USE DEF household, provider
<1>1. Always
  BY DEF RelayInv
<1>2. \A x : In(x, wire') <=> In(x, wire) \/ x = Create
  BY <1>1, Appending DEF Always, TypeOK, Frames
<1>3. UNCHANGED Announced
  BY DEF Announced
<1>4. /\ turn' \in TurnType /\ turn'.calls = 0 /\ turn'.awaiting = {} /\ ~turn'.made
      /\ ~turn'.done /\ ~turn'.cancelled
  BY CallSets DEF TurnType, NewRound
<1>5. Always'
  <2>1. wire' \in Seq(Frames)
    BY <1>1, Appending DEF Always, TypeOK, Frames
  <2>2. TypeOK'
    BY <1>1, <1>4, <2>1, MutexFits DEF Always, TypeOK, PumpType, TurnType
  <2>3. CallsOnce' /\ Known'
    BY <1>1, <1>2, <1>3, FramesDiffer DEF Always, CallsOnce, Known
  <2>4. CallsCounted'
    <3>1. asked \ Announced \in SUBSET Calls
      BY <1>1 DEF Always, TypeOK
    <3> QED
      BY <1>3, <1>4, <3>1, CallSets DEF CallsCounted
  <2> QED
    BY <2>2, <2>3, <2>4 DEF Always
<1>6. ASSUME ~overlapped' PROVE Orderly'
  <2> USE DEF Orderly
  <2>1. /\ Orderly /\ FollowUpReady(turn)
        /\ down' \notin {"cancel", "request"} /\ up'.at # "request"
        /\ \A id \in Calls : ~In(Output(id), up.out)
    BY <1>6 DEF RelayInv
  <2>2. /\ Gathering /\ turn.awaiting = {}
        /\ ~Speaking /\ ~Ending /\ ~Committing /\ ~Created /\ ~Responding /\ ~Finishing
        /\ Announced = {}
    BY <2>1 DEF FollowUpReady, OneTurn, Gathering, Answering
  <2>3. \A id \in asked : In(Output(id), wire) \/ id \in outputs
    BY <1>1, <2>1, <2>2 DEF Covered, Always, TypeOK
  <2>4. ~Speaking' /\ ~Ending' /\ ~Committing' /\ Created' /\ ~Responding' /\ ~Finishing' /\ ~Gathering'
    BY <1>2, <1>4, <2>2 DEF Speaking, Ending, Committing, Created, Responding, Finishing, Gathering
  <2>5. OneTurn' /\ NothingAsked' /\ RoundsBegin' /\ Answering'
    BY <1>3, <2>2, <2>4 DEF OneTurn, NothingAsked, RoundsBegin, Answering, Responding
  <2>6. Awaited' /\ Covered'
    BY <1>2, <1>3, <1>4, <2>1, <2>2, <2>3 DEF Awaited, Covered
  <2>7. Requests' /\ NothingBehind'
    BY <2>1 DEF Requests, NothingBehind
  <2>8. CreatesLast'
    BY <1>1, <2>1, <2>2, <2>3, WireGrows DEF Always, TypeOK, Frames
  <2>9. CancelsFirst'
    <3>1. CancelsOnWire'
      BY <1>1, <2>1, FramesDiffer, CancelsGrow DEF Always, TypeOK, Frames, CancelsFirst
    <3> QED
      BY <2>1, <3>1 DEF CancelsFirst
  <2>10. Loops'
    BY <1>4, RelayAssumption DEF Loops
  <2>11. DoneLast'
    BY <2>1, <2>2 DEF DoneLast, Finishing, In
  <2>12. Completed'
    BY <2>1, <2>2 DEF Completed
  <2> QED
    BY <2>5, <2>6, <2>7, <2>8, <2>9, <2>10, <2>11, <2>12
<1> QED
  BY <1>5, <1>6 DEF RelayInv

LEMMA UpRequestedKeeps ==
  ASSUME RelayInv, UpRequested
  PROVE  RelayInv'
<1> USE DEF UpRequested, household, provider
<1>1. Always
  BY DEF RelayInv
<1>2. /\ up \in PumpType /\ up.at = "request" /\ up.out = <<>> /\ Head(mutex) = "up"
      /\ Fits(up.at, down, mutex)
  BY <1>1, Typed DEF Always, UpSends
<1>3. up' \in PumpType /\ up'.at = "receive" /\ up'.out = up.out /\ UpSends'
  BY <1>2 DEF PumpType, UpSends
<1>4. Fits(up'.at, down', mutex') /\ down' \in {"receive", "deliver", "cancel", "request"}
  BY <1>1, <1>2, <1>3, MutexQueue DEF Always, TypeOK
<1>5. ASSUME ~overlapped
      PROVE  /\ FollowUpReady(turn) /\ down' \notin {"cancel", "request"}
             /\ \A id \in Calls : ~In(Output(id), up.out)
  <2>1. FollowUpReady(turn) /\ down # "request"
    BY <1>2, <1>5 DEF RelayInv, Orderly, Requests
  <2>2. down # "cancel"
    BY <1>2, <1>5, MutexMoves DEF RelayInv, Orderly, CancelsFirst
  <2> QED
    BY <1>2, <2>1, <2>2, NothingIn
<1> QED
  BY <1>3, <1>4, <1>5, RequestKeeps

LEMMA DownRequestedKeeps ==
  ASSUME RelayInv, DownRequested
  PROVE  RelayInv'
<1> USE DEF DownRequested, household, provider
<1>1. Always
  BY DEF RelayInv
<1>2. up \in PumpType /\ down = "request" /\ Head(mutex) = "down" /\ Fits(up.at, down, mutex)
  BY <1>1, Typed DEF Always
<1>3. Fits(up'.at, down', mutex') /\ UpSends'
  BY <1>1, <1>2, MutexQueue DEF Always, UpSends
<1>4. ASSUME ~overlapped
      PROVE  /\ FollowUpReady(turn) /\ up.at # "request"
             /\ \A id \in Calls : ~In(Output(id), up.out)
  <2>1. FollowUpReady(turn) /\ up.at # "request"
    BY <1>2, <1>4 DEF RelayInv, Orderly, Requests
  <2>2. CASE up.at = "send"
    <3>1. mutex = <<"down", "up">>
      BY <1>2, <2>2, MutexMoves DEF Fits
    <3> QED
      BY <1>2, <1>4, <2>1, <3>1 DEF RelayInv, Orderly, NothingBehind
  <2>3. CASE up.at # "send"
    BY <1>1, <2>1, <2>3, NothingIn DEF Always, UpSends
  <2> QED
    BY <2>1, <2>2, <2>3
<1> QED
  BY <1>2, <1>3, <1>4, RequestKeeps

\* Reading an event; what it was.
LEMMA HeadOfEvents ==
  ASSUME TypeOK, NEW type, DownReads(type)
  PROVE  /\ link = "open" /\ down = "receive" /\ events \in Seq(Events) /\ events # <<>>
         /\ events' = Tail(events) /\ UNCHANGED <<endpointing, link, uplink, wire, provider>>
         /\ type = "call" => \E id \in Calls : Head(events) = Call(id) /\ Head(events).id = id
         /\ type = "done" => Head(events) = Done
         /\ type = "error" => Head(events) = Error
         /\ type = "benign" => Head(events) = Benign
<1>1. /\ link = "open" /\ down = "receive" /\ events \in Seq(Events) /\ events # <<>>
      /\ events' = Tail(events) /\ UNCHANGED <<endpointing, link, uplink, wire, provider>>
      /\ Head(events).type = type
  BY DEF TypeOK, DownReads
<1>2. Head(events) \in Events
  BY <1>1, EventsShrink
<1>3. \/ Head(events) = Done /\ type = "done"
      \/ Head(events) = Error /\ type = "error"
      \/ Head(events) = Benign /\ type = "benign"
      \/ type = "call" /\ \E id \in Calls : Head(events) = Call(id) /\ Head(events).id = id
  BY <1>1, <1>2 DEF Events, Event, Done, Error, Benign, Call
<1> QED
  BY <1>1, <1>3

LEMMA DownCallKeeps ==
  ASSUME RelayInv, DownCall
  PROVE  RelayInv'
<1> USE DEF household, provider
<1>1. Always
  BY DEF RelayInv
<1>2. PICK id \in Calls :
        /\ Head(events) = Call(id) /\ Head(events).id = id
        /\ down = "receive" /\ events # <<>> /\ events' = Tail(events)
        /\ UNCHANGED <<endpointing, link, uplink, wire, provider>>
  BY <1>1, HeadOfEvents DEF Always, DownCall
<1>3. /\ turn' = [turn EXCEPT !.made = TRUE, !.calls = @ + 1, !.awaiting = @ \cup {id}]
      /\ dispatched' \in {dispatched, dispatched \cup {id}}
      /\ down' = "deliver" /\ UNCHANGED <<kiosk, up, mutex, overlapped>>
  BY <1>2 DEF DownCall
<1>4. /\ events \in Seq(Events) /\ turn \in TurnType /\ CallsOnce /\ Fits(up.at, down, mutex)
      /\ asked \subseteq Calls /\ fresh \subseteq asked
  BY <1>1, Typed DEF Always, TypeOK
<1>5. /\ events' \in Seq(Events) /\ CallsOnce'
      /\ id \notin Announced' /\ Announced = Announced' \cup {id} /\ id \in asked
      /\ Finishing' <=> Finishing
  BY <1>2, <1>4, EventsShrink, EventsDiffer DEF CallsOnce, Finishing
<1>6. /\ turn'.awaiting = turn.awaiting \cup {id} /\ turn'.made
      /\ turn'.calls = turn.calls + 1 /\ turn.calls \in Nat
      /\ turn'.done = turn.done /\ turn'.cancelled = turn.cancelled
  BY <1>3, <1>4, CallSets DEF TurnType
\* One call more is read of any set of calls it belongs to.
<1>7. ASSUME NEW S \in SUBSET Calls, id \in S, turn.calls <= Cardinality(S \ Announced)
      PROVE  turn'.calls <= Cardinality(S \ Announced')
  <2>1. S \ Announced' = (S \ Announced) \cup {id} /\ id \in Calls \ (S \ Announced)
    BY <1>5, <1>7
  <2>2. S \ Announced \in SUBSET Calls
    OBVIOUS
  <2>3. Cardinality(S \ Announced') = Cardinality(S \ Announced) + 1 /\ Cardinality(S \ Announced) \in Nat
    BY <2>1, <2>2, CallSets
  <2> QED
    BY <1>6, <1>7, <2>3
<1>8. Always'
  <2>1. CallsCounted'
    BY <1>1, <1>2, <1>4, <1>5, <1>7 DEF Always, CallsCounted
  <2>2. turn' \in TurnType
    <3>1. asked' \ Announced' \in SUBSET Calls
      BY <1>2, <1>4
    <3>2. turn'.calls \in 0 .. Cardinality(Calls)
      BY <1>6, <2>1, <3>1, CallSets DEF CallsCounted
    <3> QED
      BY <1>3, <1>4, <1>6, <3>2 DEF TurnType
  <2>3. Fits(up'.at, down', mutex')
    BY <1>2, <1>3, <1>4 DEF Fits
  <2>4. TypeOK'
    BY <1>1, <1>2, <1>3, <1>5, <2>2, <2>3, MutexFits DEF Always, TypeOK, TurnType
  <2>5. Known' /\ UpSends'
    BY <1>1, <1>2, <1>3, <1>5 DEF Always, Known, UpSends
  <2> QED
    BY <1>5, <2>1, <2>4, <2>5 DEF Always
<1>9. ASSUME ~overlapped' PROVE Orderly'
  <2> USE DEF Orderly
  <2>1. Orderly
    BY <1>3, <1>9 DEF RelayInv
  <2>2. /\ Responding \/ Finishing
        /\ ~Gathering /\ ~Speaking /\ ~Ending /\ ~Committing /\ ~Created
        /\ id \in fresh /\ asked # {} /\ response # "due" /\ id \notin turn.awaiting
        /\ up.at # "request"
    BY <1>5, <2>1 DEF OneTurn, Answering, NothingAsked, Awaited, Requests, FollowUpReady, Gathering
  <2>3. /\ UNCHANGED <<Speaking, Ending, Committing, Created, Responding, Gathering>>
        /\ Finishing' <=> Finishing
    BY <1>2, <1>3, <1>5, <1>6 DEF Speaking, Ending, Committing, Created, Responding, Gathering
  <2>4. OneTurn' /\ NothingAsked' /\ RoundsBegin'
    BY <1>2, <1>6, <2>1, <2>2, <2>3 DEF OneTurn, NothingAsked, RoundsBegin
  <2>5. Answering'
    BY <1>2, <1>4, <1>5, <1>6, <1>7, <2>1, <2>2, <2>3 DEF Answering
  <2>6. Awaited'
    BY <1>2, <1>3, <1>5, <1>6, <2>1, <2>2 DEF Awaited
  <2>7. Covered'
    BY <1>2, <1>3, <1>5, <1>6, <2>1 DEF Covered
  <2>8. Requests' /\ NothingBehind'
    BY <1>3, <2>2 DEF Requests, NothingBehind
  <2>9. CreatesLast' /\ CancelsFirst'
    BY <1>2, <1>3, <1>6, <2>1 DEF CreatesLast, CancelsFirst, CancelsOnWire
  <2>10. Loops'
    BY <1>6, <2>1, <2>2, RelayAssumption DEF Loops, Gathering
  <2>11. DoneLast'
    BY <1>2, <1>4, <1>6, <2>1, EventsShrink
  <2>12. Completed'
    BY <1>2, <1>3, <2>1 DEF Completed
  <2> QED
    BY <2>4, <2>5, <2>6, <2>7, <2>8, <2>9, <2>10, <2>11, <2>12
<1> QED
  BY <1>8, <1>9 DEF RelayInv

\* The end of the loop's body on the turn t.
LEMMA Rest ==
  ASSUME Always, NEW t \in TurnType, RestOfBody(t), down \in {"receive", "deliver"}
  PROVE  /\ turn' \in TurnType
         /\ turn'.awaiting = t.awaiting /\ turn'.made = t.made /\ turn'.done = t.done
         /\ turn'.calls = t.calls /\ (t.cancelled => turn'.cancelled)
         /\ turn'.cancelled => t.cancelled \/ t.calls > MaxToolCalls
         /\ t.calls <= MaxToolCalls => turn' = t
         /\ t.calls \in Nat /\ (t.calls <= MaxToolCalls \/ turn'.cancelled)
         /\ up' = up /\ down' \in {"receive", "cancel", "request"}
         /\ Fits(up'.at, down', mutex') /\ mutex' # <<"down", "up">>
         /\ down' = "cancel" => turn'.cancelled /\ t.calls > MaxToolCalls /\ ~t.cancelled
         /\ down' = "request" => FollowUpReady(turn')
         /\ overlapped' \in BOOLEAN
         /\ ~overlapped' => ~overlapped /\ (down' = "request" => up.at # "request")
<1>1. /\ overlapped \in BOOLEAN /\ Fits(up.at, down, mutex)
      /\ t.calls \in Nat /\ t.cancelled \in BOOLEAN
  BY Typed, CallSets DEF Always, TypeOK, TurnType
<1>2. mutex # <<"down", "up">>
  BY <1>1, MutexesDiffer DEF Fits
<1>3. CASE t.calls > MaxToolCalls /\ ~t.cancelled
  <2>1. /\ turn' = [t EXCEPT !.cancelled = TRUE]
        /\ down' = "cancel" /\ mutex' = Append(mutex, "down")
        /\ UNCHANGED <<up, overlapped>>
    BY <1>3 DEF RestOfBody
  <2>2. /\ turn' \in TurnType /\ turn'.awaiting = t.awaiting /\ turn'.made = t.made
        /\ turn'.done = t.done /\ turn'.calls = t.calls /\ turn'.cancelled
    BY <2>1 DEF TurnType
  <2>3. Fits(up'.at, down', mutex') /\ mutex' # <<"down", "up">>
    BY <1>1, <2>1, MutexQueue
  <2>4. ~(t.calls <= MaxToolCalls)
    BY <1>1, <1>3, RelayAssumption
  <2> QED
    BY <1>1, <1>3, <2>1, <2>2, <2>3, <2>4
<1>4. CASE ~(t.calls > MaxToolCalls /\ ~t.cancelled)
  <2>1. turn' = t /\ MaybeRequest(t, mutex) /\ up' = up
    BY <1>4 DEF RestOfBody
  <2>2. t.calls <= MaxToolCalls \/ t.cancelled
    BY <1>1, <1>4, RelayAssumption
  <2>3. CASE FollowUpReady(t)
    <3>1. /\ down' = "request" /\ mutex' = Append(mutex, "down")
          /\ overlapped' = (overlapped \/ up.at = "request")
      BY <2>1, <2>3 DEF MaybeRequest
    <3>2. /\ overlapped' \in BOOLEAN
          /\ ~overlapped' => ~overlapped /\ (down' = "request" => up.at # "request")
      BY <1>1, <3>1, Zenon
    <3>3. Fits(up'.at, down', mutex') /\ mutex' # <<"down", "up">>
      BY <1>1, <2>1, <3>1, MutexQueue
    <3> QED
      BY <1>1, <2>1, <2>2, <2>3, <3>1, <3>2, <3>3
  <2>4. CASE ~FollowUpReady(t)
    <3>1. down' = "receive" /\ mutex' = mutex /\ UNCHANGED overlapped
      BY <2>1, <2>4 DEF MaybeRequest
    <3>2. Fits(up'.at, down', mutex') /\ mutex' # <<"down", "up">>
      BY <1>1, <1>2, <2>1, <3>1 DEF Fits
    <3> QED
      BY <1>1, <2>1, <2>2, <3>1, <3>2
  <2> QED
    BY <2>3, <2>4
<1> QED
  BY <1>3, <1>4

\* ... when the turn is what it was.
LEMMA RestKeeps ==
  ASSUME RelayInv, RestOfBody(turn), down \in {"receive", "deliver"},
         UNCHANGED <<endpointing, link, household, wire, provider>>,
         events' \in Seq(Events), CallsOnce', UNCHANGED Announced,
         Finishing' <=> Finishing, events = <<>> => events' = <<>>,
         DoneLast /\ (turn.cancelled => turn'.cancelled) => DoneLast'
  PROVE  RelayInv'
<1> USE DEF household, provider
<1>1. Always /\ turn \in TurnType
  BY Typed DEF RelayInv, Always
<1>2. /\ turn' \in TurnType
      /\ turn'.awaiting = turn.awaiting /\ turn'.made = turn.made /\ turn'.done = turn.done
      /\ turn'.calls = turn.calls /\ (turn.cancelled => turn'.cancelled)
      /\ turn'.cancelled => turn.cancelled \/ turn.calls > MaxToolCalls
      /\ turn.calls <= MaxToolCalls => turn' = turn
      /\ turn.calls \in Nat /\ (turn.calls <= MaxToolCalls \/ turn'.cancelled)
      /\ up' = up /\ down' \in {"receive", "cancel", "request"}
      /\ Fits(up'.at, down', mutex') /\ mutex' # <<"down", "up">>
      /\ down' = "cancel" => turn'.cancelled /\ turn.calls > MaxToolCalls /\ ~turn.cancelled
      /\ down' = "request" => FollowUpReady(turn')
      /\ overlapped' \in BOOLEAN
      /\ ~overlapped' => ~overlapped /\ (down' = "request" => up.at # "request")
  BY <1>1, Rest
<1>3. Always'
  <2>1. TypeOK'
    BY <1>1, <1>2, MutexFits DEF Always, TypeOK, TurnType
  <2>2. UpSends' /\ CallsCounted' /\ Known'
    BY <1>1, <1>2 DEF Always, UpSends, CallsCounted, Known
  <2> QED
    BY <2>1, <2>2 DEF Always
<1>4. ASSUME ~overlapped' PROVE Orderly'
  <2> USE DEF Orderly
  <2>1. Orderly /\ (down' = "request" => up.at # "request")
    BY <1>2, <1>4 DEF RelayInv
  <2>2. /\ UNCHANGED <<Speaking, Ending, Committing, Created, Responding, Gathering>>
        /\ Finishing' <=> Finishing
    BY <1>2 DEF Speaking, Ending, Committing, Created, Responding, Gathering
  <2>3. turn = NewRound => turn' = NewRound
    BY <1>2, RelayAssumption DEF NewRound
  <2>4. OneTurn' /\ NothingAsked' /\ RoundsBegin'
    BY <1>2, <2>1, <2>2, <2>3 DEF OneTurn, NothingAsked, RoundsBegin
  <2>5. Answering' /\ Awaited' /\ Covered'
    BY <1>2, <2>1, <2>2 DEF Answering, Awaited, Covered
  <2>6. up.at = "request" => FollowUpReady(turn) /\ (turn.calls <= MaxToolCalls \/ turn.cancelled)
    BY <2>1 DEF Requests, FollowUpReady, Loops
  <2>7. Requests' /\ NothingBehind'
    BY <1>2, <2>1, <2>6 DEF Requests, NothingBehind, FollowUpReady
  <2>8. CreatesLast' /\ CancelsFirst'
    BY <1>2, <2>1, <2>6, RelayAssumption DEF CreatesLast, CancelsFirst, CancelsOnWire
  <2>9. Loops' /\ DoneLast'
    BY <1>2, <2>1 DEF Loops
  <2>10. Completed'
    BY <1>2, <2>1, <2>2 DEF Completed
  <2> QED
    BY <2>4, <2>5, <2>7, <2>8, <2>9, <2>10
<1> QED
  BY <1>3, <1>4 DEF RelayInv

LEMMA DownBenignKeeps ==
  ASSUME RelayInv, DownBenign
  PROVE  RelayInv'
<1> USE DEF household, provider
<1>1. /\ down = "receive" /\ events \in Seq(Events) /\ events # <<>>
      /\ events' = Tail(events) /\ Head(events) = Benign
      /\ UNCHANGED <<endpointing, link, household, wire, provider>> /\ RestOfBody(turn)
  BY HeadOfEvents DEF RelayInv, Always, DownBenign
<1>2. /\ events' \in Seq(Events) /\ CallsOnce' /\ Announced' = Announced
      /\ Finishing' <=> Finishing
      /\ DoneLast /\ (turn.cancelled => turn'.cancelled) => DoneLast'
  BY <1>1, EventsShrink, EventsDiffer DEF Finishing, RelayInv, Always
<1> QED
  BY <1>1, <1>2, RestKeeps

LEMMA DownDeliveredKeeps ==
  ASSUME RelayInv, DownDelivered
  PROVE  RelayInv'
<1> USE DEF DownDelivered, household, provider
<1>1. /\ events' = events /\ events' \in Seq(Events) /\ CallsOnce' /\ Announced' = Announced
      /\ Finishing' <=> Finishing
  BY DEF RelayInv, Always, TypeOK, CallsOnce, Announced, Finishing
<1>2. DoneLast /\ (turn.cancelled => turn'.cancelled) => DoneLast'
  BY <1>1 DEF DoneLast
<1> QED
  BY <1>1, <1>2, RestKeeps

LEMMA DownDoneWithCallsKeeps ==
  ASSUME RelayInv, DownDoneWithCalls
  PROVE  RelayInv'
<1> USE DEF household, provider
<1> DEFINE t == [turn EXCEPT !.done = TRUE]
<1>1. /\ Always /\ turn \in TurnType
      /\ events \in Seq(Events)
  BY Typed DEF RelayInv, Always
<1>2. /\ down = "receive" /\ events # <<>>
      /\ events' = Tail(events) /\ Head(events) = Done
      /\ UNCHANGED <<endpointing, link, household, wire, provider>>
      /\ RestOfBody(t) /\ turn.made
  BY <1>1, HeadOfEvents DEF Always, DownDoneWithCalls
<1>3. /\ events' \in Seq(Events) /\ CallsOnce' /\ Announced' = Announced
      /\ Finishing
      /\ DoneLast /\ (turn.cancelled => turn'.cancelled) => DoneLast'
      /\ DoneLast => ~Finishing' /\ Announced' = {}
  BY <1>1, <1>2, EventsShrink, EventsDiffer DEF Finishing, Always, Announced
<1>4. /\ t \in TurnType /\ t.awaiting = turn.awaiting /\ t.made = turn.made /\ t.done
      /\ t.calls = turn.calls /\ t.cancelled = turn.cancelled
  BY <1>1 DEF TurnType
<1> HIDE DEF t
<1>5. /\ turn' \in TurnType
      /\ turn'.awaiting = turn.awaiting /\ turn'.made /\ turn'.done
      /\ turn'.calls = turn.calls /\ (turn.cancelled => turn'.cancelled)
      /\ turn'.cancelled => turn.cancelled \/ turn.calls > MaxToolCalls
      /\ turn.calls \in Nat /\ (turn.calls <= MaxToolCalls \/ turn'.cancelled)
      /\ up' = up /\ down' \in {"receive", "cancel", "request"}
      /\ Fits(up'.at, down', mutex') /\ mutex' # <<"down", "up">>
      /\ down' = "cancel" => turn'.cancelled
      /\ down' = "request" => FollowUpReady(turn')
      /\ overlapped' \in BOOLEAN
      /\ ~overlapped' => ~overlapped
  BY <1>1, <1>2, <1>4, Rest
<1>6. Always'
  <2>1. TypeOK'
    BY <1>1, <1>2, <1>3, <1>5, MutexFits DEF Always, TypeOK, TurnType
  <2>2. UpSends' /\ CallsCounted' /\ Known'
    BY <1>1, <1>2, <1>3, <1>5 DEF Always, UpSends, CallsCounted, Known
  <2> QED
    BY <1>3, <2>1, <2>2 DEF Always
<1>7. ASSUME ~overlapped' PROVE Orderly'
  <2> USE DEF Orderly
  <2>1. Orderly
    BY <1>5, <1>7 DEF RelayInv
  <2>2. /\ ~Speaking /\ ~Ending /\ ~Committing /\ ~Created /\ ~Responding /\ ~Gathering
        /\ up.at # "request"
    BY <1>3, <2>1 DEF OneTurn, Requests, FollowUpReady, Gathering
  <2>3. /\ UNCHANGED <<Speaking, Ending, Committing, Created, Responding>>
        /\ ~Finishing' /\ Announced' = {}
    BY <1>2, <1>3, <1>5, <2>1 DEF Speaking, Ending, Committing, Created, Responding
  <2>4. OneTurn' /\ NothingAsked' /\ RoundsBegin'
    BY <1>2, <1>5, <2>2, <2>3 DEF OneTurn, NothingAsked, RoundsBegin, Responding
  <2>5. Answering'
    BY <2>2, <2>3 DEF Answering
  <2>6. Awaited' /\ Covered'
    BY <1>2, <1>3, <1>5, <2>1 DEF Awaited, Covered
  <2>7. Requests' /\ NothingBehind'
    BY <1>5, <2>2 DEF Requests, NothingBehind
  <2>8. CreatesLast' /\ CancelsFirst'
    BY <1>2, <1>5, <2>1, <2>2 DEF CreatesLast, CancelsFirst, CancelsOnWire
  <2>9. Loops' /\ DoneLast'
    BY <1>3, <1>5, <2>1 DEF Loops
  <2>10. Completed'
    BY <1>2, <2>1 DEF Completed
  <2> QED
    BY <2>4, <2>5, <2>6, <2>7, <2>8, <2>9, <2>10
<1> QED
  BY <1>6, <1>7 DEF RelayInv

\* A turn that is over, one way or the other.
LEMMA KioskToldKeeps ==
  ASSUME RelayInv, NEW outcome \in {"complete", "failed"}, KioskTold(outcome),
         down = "receive", events # <<>>, events' = Tail(events),
         UNCHANGED <<endpointing, link, uplink, wire, provider>>,
         Head(events) = IF outcome = "complete" THEN Done ELSE Error,
         outcome = "complete" => ~turn.made
  PROVE  RelayInv'
<1> USE DEF KioskTold, provider
<1>1. /\ Always /\ events \in Seq(Events) /\ Fits(up.at, down, mutex)
  BY Typed DEF RelayInv, Always
<1>2. /\ events' \in Seq(Events) /\ CallsOnce' /\ Announced' = Announced
      /\ DoneLast => DoneLast'
      /\ DoneLast /\ outcome = "complete" =>
           (~turn.cancelled => events' = <<>>) /\ Finishing /\ ~Finishing' /\ Announced' = {}
      /\ DoneLast => outcome = "complete"
  <2>1. /\ events' \in Seq(Events) /\ CallsOnce' /\ Announced' = Announced
        /\ DoneLast => DoneLast'
    BY <1>1, EventsShrink, EventsDiffer DEF Always
  <2>2. ASSUME DoneLast, outcome = "complete"
        PROVE  (~turn.cancelled => events' = <<>>) /\ Finishing /\ ~Finishing' /\ Announced' = {}
    BY <1>1, <2>2, EventsShrink, EventsDiffer DEF Finishing, Announced
  <2>3. ASSUME DoneLast PROVE outcome = "complete"
    BY <1>1, <2>3, EventsShrink DEF DoneLast
  <2> QED
    BY <2>1, <2>2, <2>3
<1>3. kiosk' \in {"listening", "waiting", "complete", "failed"} /\ kiosk' # "listening"
  BY <1>1 DEF Always, TypeOK
<1>4. Always'
  <2>1. Fits(up'.at, down', mutex')
    BY <1>1 DEF Fits
  <2>2. TypeOK'
    BY <1>1, <1>2, <1>3, <2>1, MutexFits DEF Always, TypeOK
  <2>3. UpSends' /\ CallsCounted' /\ Known'
    BY <1>1, <1>2 DEF Always, UpSends, CallsCounted, Known
  <2> QED
    BY <1>2, <2>2, <2>3 DEF Always
<1>5. ASSUME ~overlapped' PROVE Orderly'
  <2> USE DEF Orderly
  <2>1. Orderly /\ DoneLast'
    BY <1>2, <1>5 DEF RelayInv
  <2>2. /\ outcome = "complete" /\ Finishing /\ ~Finishing' /\ Announced' = {}
        /\ turn = NewRound /\ events' = <<>>
    BY <1>2, <2>1 DEF RoundsBegin, NewRound
  <2>3. /\ ~Speaking /\ ~Ending /\ ~Committing /\ ~Created /\ ~Responding /\ ~Gathering
        /\ asked \subseteq outputs
    BY <1>2, <2>1, <2>2 DEF OneTurn, Answering
  <2>4. /\ UNCHANGED <<Ending, Committing, Created, Responding, Gathering>>
        /\ ~Speaking'
    BY <1>3 DEF Speaking, Ending, Committing, Created, Responding, Gathering
  <2>5. OneTurn' /\ NothingAsked' /\ RoundsBegin' /\ Answering'
    BY <2>1, <2>2, <2>3, <2>4 DEF OneTurn, NothingAsked, RoundsBegin, Answering, Responding
  <2>6. Awaited' /\ Covered'
    BY <1>2, <2>1 DEF Awaited, Covered
  <2>7. Requests' /\ NothingBehind' /\ CreatesLast' /\ CancelsFirst' /\ Loops'
    BY <2>1 DEF Requests, NothingBehind, FollowUpReady, CreatesLast, CancelsFirst, CancelsOnWire, Loops
  <2>8. Completed'
    BY <2>2, <2>3, <2>4 DEF Completed, NewRound
  <2> QED
    BY <2>1, <2>5, <2>6, <2>7, <2>8
<1> QED
  BY <1>4, <1>5 DEF RelayInv

LEMMA DownToldKeeps ==
  ASSUME RelayInv, DownDone \/ DownError
  PROVE  RelayInv'
<1>1. CASE DownDone
  <2>1. /\ KioskTold("complete") /\ ~turn.made /\ down = "receive" /\ events # <<>>
        /\ events' = Tail(events) /\ UNCHANGED <<endpointing, link, uplink, wire, provider>>
        /\ Head(events) = Done
    BY <1>1, HeadOfEvents DEF RelayInv, Always, DownDone
  <2> QED
    BY <2>1, KioskToldKeeps
<1>2. CASE DownError
  <2>1. /\ KioskTold("failed") /\ down = "receive" /\ events # <<>>
        /\ events' = Tail(events) /\ UNCHANGED <<endpointing, link, uplink, wire, provider>>
        /\ Head(events) = Error
    BY <1>2, HeadOfEvents DEF RelayInv, Always, DownError
  <2> QED
    BY <2>1, KioskToldKeeps
<1> QED
  BY <1>1, <1>2

LEMMA DownCancelledKeeps ==
  ASSUME RelayInv, DownCancelled
  PROVE  RelayInv'
<1> USE DEF DownCancelled, household, provider
<1>1. /\ Always /\ Fits(up.at, down, mutex) /\ down = "cancel" /\ Head(mutex) = "down"
      /\ overlapped \in BOOLEAN /\ wire \in Seq(Frames)
  BY Typed DEF RelayInv, Always, TypeOK
<1>2. /\ wire' \in Seq(Frames) /\ \A x : In(x, wire') <=> In(x, wire) \/ x = Cancel
  BY <1>1, Appending DEF Frames
<1>3. /\ down' \in {"receive", "request"} /\ Fits(up.at, down', mutex')
      /\ down' = "request" => FollowUpReady(turn) /\ mutex' # <<"down", "up">>
      /\ overlapped' \in BOOLEAN
      /\ ~overlapped' => ~overlapped /\ (down' = "request" => up.at # "request")
  <2>1. CASE FollowUpReady(turn)
    <3>1. /\ down' = "request" /\ mutex' = Append(Tail(mutex), "down")
          /\ overlapped' = (overlapped \/ up.at = "request")
      BY <2>1 DEF MaybeRequest
    <3>2. /\ overlapped' \in BOOLEAN
          /\ ~overlapped' => ~overlapped /\ (down' = "request" => up.at # "request")
      BY <1>1, <3>1, Zenon
    <3> QED
      BY <1>1, <2>1, <3>1, <3>2, MutexQueue
  <2>2. CASE ~FollowUpReady(turn)
    <3>1. down' = "receive" /\ mutex' = Tail(mutex) /\ UNCHANGED overlapped
      BY <2>2 DEF MaybeRequest
    <3> QED
      BY <1>1, <2>2, <3>1, MutexQueue
  <2> QED
    BY <2>1, <2>2
<1>4. UNCHANGED Announced
  BY DEF Announced
<1>5. Always'
  <2>1. TypeOK'
    BY <1>1, <1>2, <1>3, MutexFits DEF Always, TypeOK
  <2>2. UpSends' /\ CallsOnce' /\ CallsCounted' /\ Known'
    BY <1>1, <1>2, <1>4, FramesDiffer DEF Always, UpSends, CallsOnce, CallsCounted, Known
  <2> QED
    BY <2>1, <2>2 DEF Always
<1>6. ASSUME ~overlapped' PROVE Orderly'
  <2> USE DEF Orderly
  <2>1. Orderly /\ (down' = "request" => up.at # "request")
    BY <1>3, <1>6 DEF RelayInv
  <2>2. /\ UNCHANGED <<Speaking, Ending, Committing, Responding, Finishing, Gathering>>
        /\ Created' <=> Created
    BY <1>2, FramesDiffer DEF Speaking, Ending, Committing, Created, Responding, Finishing, Gathering
  <2>3. OneTurn' /\ NothingAsked' /\ RoundsBegin' /\ Answering'
    BY <1>4, <2>1, <2>2 DEF OneTurn, NothingAsked, RoundsBegin, Answering
  <2>4. Awaited' /\ Covered'
    BY <1>2, <1>4, <2>1 DEF Awaited, Covered
  <2>5. Requests' /\ NothingBehind'
    BY <1>3, <2>1 DEF Requests, NothingBehind, FollowUpReady
  <2>6. CreatesLast'
    BY <1>1, <2>1, WireGrows, FramesDiffer DEF Frames
  <2>7. CancelsOnWire'
    BY <1>1, <2>1, CancelsGrow DEF Frames, CancelsFirst
  <2>8. CancelsFirst' /\ Loops' /\ DoneLast'
    BY <1>3, <2>1, <2>7 DEF CancelsFirst, Loops, DoneLast
  <2>9. Completed'
    BY <2>1, <2>2 DEF Completed
  <2> QED
    BY <2>3, <2>4, <2>5, <2>6, <2>7, <2>8, <2>9
<1> QED
  BY <1>5, <1>6 DEF RelayInv

LEMMA CloseKeeps ==
  ASSUME RelayInv, Close
  PROVE  RelayInv'
<1> USE DEF Close
<1>1. /\ \A x : ~In(x, wire') /\ ~In(x, events') /\ ~In(x, up'.out)
      /\ Announced' = {} /\ turn' \in TurnType /\ up' \in PumpType
  BY NothingIn, CallSets DEF Announced, TurnType, PumpType, NewRound
<1>2. TypeOK'
  <2>1. Fits(up'.at, down', mutex')
    BY DEF Fits
  <2>2. /\ kiosk' \in {"listening", "waiting", "complete", "failed"}
        /\ endpointing' \in {"client", "provider"}
    BY DEF RelayInv, Always, TypeOK
  <2>3. wire' \in Seq(Frames) /\ events' \in Seq(Events)
    OBVIOUS
  <2> QED
    BY <1>1, <2>1, <2>2, <2>3, MutexFits DEF TypeOK, TurnType, PumpType
<1>3. Always'
  BY <1>1, <1>2, CallSets DEF Always, CallsCounted, UpSends, CallsOnce, Known, NewRound
<1>4. Orderly'
  <2>1. ~Speaking' /\ ~Ending' /\ ~Committing' /\ ~Created' /\ ~Responding' /\ ~Finishing' /\ ~Gathering'
    BY <1>1 DEF Speaking, Ending, Committing, Created, Responding, Finishing, Gathering, NewRound
  <2>2. OneTurn' /\ NothingAsked' /\ RoundsBegin' /\ Answering' /\ Completed'
    BY <1>1, <2>1 DEF OneTurn, NothingAsked, RoundsBegin, Answering, Completed, NewRound
  <2>3. /\ Awaited' /\ Covered'
        /\ Requests' /\ NothingBehind'
    <3>1. Awaited' /\ Covered'
      BY DEF Awaited, Covered, NewRound
    <3>2. Requests' /\ NothingBehind'
      BY DEF Requests, NothingBehind
    <3> QED
      BY <3>1, <3>2
  <2>4. CreatesLast' /\ CancelsFirst' /\ Loops' /\ DoneLast'
    BY <1>1, RelayAssumption DEF CreatesLast, CancelsFirst, CancelsOnWire, Loops, DoneLast, NewRound
  <2> QED
    BY <2>2, <2>3, <2>4 DEF Orderly
<1> QED
  BY <1>3, <1>4 DEF RelayInv

\* What the kiosk does, and the rest stands still.
LEMMA KioskKeeps ==
  ASSUME RelayInv, Kiosk
  PROVE  RelayInv'
<1> USE DEF relay, provider
<1>1. /\ UNCHANGED <<endpointing, link, relay, wire, events, provider>>
      /\ \/ /\ uplink' = uplink \cup {Audio} /\ kiosk' = kiosk /\ dispatched' = dispatched
         \/ /\ kiosk = "listening" /\ kiosk' = "waiting" /\ dispatched' = dispatched
            /\ uplink' = IF endpointing = "provider" THEN uplink ELSE uplink \cup {ActivityEnd}
         \/ \E id \in dispatched :
              /\ kiosk' = kiosk /\ kiosk # "complete" /\ dispatched' = dispatched \ {id}
              /\ uplink' = uplink \cup {ToolResponse(id)}
  BY DEF Kiosk, KioskSpeaks, KioskEndsSpeech, KioskAnswers
<1>2. /\ Audio # ActivityEnd
      /\ \A id : ToolResponse(id) # ActivityEnd /\ ToolResponse(id) # Audio
      /\ \A id, jd : ToolResponse(id) = ToolResponse(jd) => id = jd
  BY DEF Audio, ActivityEnd, ToolResponse
<1>3. UNCHANGED Announced
  BY <1>1 DEF Announced
<1>4. Always'
  <2>1. TypeOK'
    BY <1>1 DEF RelayInv, Always, TypeOK
  <2>2. UpSends' /\ CallsOnce' /\ CallsCounted'
    BY <1>1, <1>3 DEF RelayInv, Always, UpSends, CallsOnce, CallsCounted
  <2>3. Known'
    BY <1>1, <1>2 DEF RelayInv, Always, Known
  <2> QED
    BY <2>1, <2>2, <2>3 DEF Always
<1>5. ASSUME ~overlapped' PROVE Orderly'
  <2> USE DEF Orderly
  <2>1. Orderly /\ endpointing \in {"client", "provider"}
    BY <1>1, <1>5 DEF RelayInv, Always, TypeOK
  <2>2. /\ UNCHANGED <<Committing, Created, Responding, Finishing, Gathering>>
        /\ Speaking' => Speaking /\ ~Ending'
        /\ Ending' => Ending \/ Speaking
    BY <1>1, <1>2, <2>1
    DEF Speaking, Ending, Committing, Created, Responding, Finishing, Gathering, OneTurn
  <2>3. OneTurn' /\ NothingAsked' /\ RoundsBegin'
    BY <1>1, <2>1, <2>2 DEF OneTurn, NothingAsked, RoundsBegin
  <2>4. Answering' /\ Covered'
    BY <1>1, <1>3, <2>1, <2>2 DEF Answering, Covered
  <2>5. Awaited'
    BY <1>1, <1>2, <1>3, <2>1 DEF Awaited
  <2>6. Requests' /\ NothingBehind' /\ CreatesLast' /\ CancelsFirst' /\ Loops' /\ DoneLast'
    BY <1>1, <2>1
    DEF Requests, FollowUpReady, NothingBehind, CreatesLast, CancelsFirst, CancelsOnWire, Loops, DoneLast
  <2>7. Completed'
    BY <1>1, <1>2, <2>1, <2>2 DEF Completed, Ending
  <2> QED
    BY <2>3, <2>4, <2>5, <2>6, <2>7
<1> QED
  BY <1>4, <1>5 DEF RelayInv

LEMMA ProviderHearsEndKeeps ==
  ASSUME RelayInv, ProviderHearsEnd
  PROVE  RelayInv'
<1> USE DEF ProviderHearsEnd, household, relay
<1>1. UNCHANGED Announced
  BY DEF Announced
<1>2. Always'
  <2>1. TypeOK'
    BY DEF RelayInv, Always, TypeOK
  <2> QED
    BY <1>1, <2>1 DEF RelayInv, Always, UpSends, CallsOnce, CallsCounted, Known
<1>3. ASSUME ~overlapped' PROVE Orderly'
  <2> USE DEF Orderly
  <2>1. Orderly
    BY <1>3 DEF RelayInv
  <2>2. /\ UNCHANGED <<Speaking, Ending, Committing, Created, Finishing, Gathering>>
        /\ Responding /\ Responding'
    BY DEF Speaking, Ending, Committing, Created, Responding, Finishing, Gathering
  <2>3. OneTurn' /\ NothingAsked' /\ RoundsBegin' /\ Answering' /\ Completed'
    BY <1>1, <2>1, <2>2 DEF OneTurn, NothingAsked, RoundsBegin, Answering, Completed
  <2>4. Awaited' /\ Covered'
    BY <1>1, <2>1 DEF Awaited, Covered
  <2>5. Requests' /\ NothingBehind' /\ CreatesLast' /\ CancelsFirst' /\ Loops' /\ DoneLast'
    BY <2>1
    DEF Requests, FollowUpReady, NothingBehind, CreatesLast, CancelsFirst, CancelsOnWire, Loops, DoneLast
  <2> QED
    BY <2>3, <2>4, <2>5
<1> QED
  BY <1>2, <1>3 DEF RelayInv

LEMMA ProviderCallsKeeps ==
  ASSUME RelayInv, NEW id \in Calls, ProviderCalls(id)
  PROVE  RelayInv'
<1> USE DEF ProviderCalls, household, relay
<1>1. Always /\ events \in Seq(Events) /\ Call(id) \in Events /\ CallsOnce
  BY DEF RelayInv, Always, TypeOK, Events
<1>2. /\ events' \in Seq(Events) /\ CallsOnce' /\ events' # <<>>
      /\ Announced' = Announced \cup {id} /\ id \notin Announced
      /\ Finishing' <=> Finishing
      /\ DoneLast /\ ~Finishing => DoneLast'
  BY <1>1, EventsGrow, EventsDiffer DEF Finishing, CallsOnce
<1>3. Always'
  <2>1. TypeOK'
    BY <1>1, <1>2 DEF Always, TypeOK
  <2>2. CallsCounted'
    <3>1. asked' \ Announced' = asked \ Announced
      BY <1>2
    <3> QED
      BY <1>1, <3>1 DEF Always, CallsCounted
  <2>3. UpSends' /\ Known'
    BY <1>1 DEF Always, UpSends, Known
  <2> QED
    BY <1>2, <2>1, <2>2, <2>3 DEF Always
<1>4. ASSUME ~overlapped' PROVE Orderly'
  <2> USE DEF Orderly
  <2>1. Orderly /\ fresh \subseteq asked
    BY <1>1, <1>4 DEF RelayInv, Always, TypeOK
  <2>2. /\ UNCHANGED <<Speaking, Ending, Committing, Created, Gathering>>
        /\ Responding /\ Responding' /\ (Finishing' <=> Finishing)
    BY <1>2 DEF Speaking, Ending, Committing, Created, Responding, Gathering
  <2>3. ~Speaking /\ ~Ending /\ ~Committing /\ ~Created /\ ~Finishing /\ ~Gathering
    BY <2>1, <2>2 DEF OneTurn
  <2>4. OneTurn' /\ NothingAsked' /\ RoundsBegin' /\ Completed'
    BY <2>1, <2>2, <2>3 DEF OneTurn, NothingAsked, RoundsBegin, Completed
  <2>5. Answering'
    <3>1. fresh' \ Announced' = fresh \ Announced /\ asked' \ fresh' \subseteq asked \ fresh
      BY <1>2, <2>1
    <3> QED
      BY <1>2, <2>1, <2>2, <3>1 DEF Answering
  <2>6. Awaited' /\ Covered'
    BY <1>2, <2>1 DEF Awaited, Covered
  <2>7. CreatesLast'
    BY <2>3 DEF CreatesLast, Created, In
  <2>8. Requests' /\ NothingBehind' /\ CancelsFirst' /\ Loops' /\ DoneLast'
    BY <1>2, <2>1, <2>3 DEF Requests, FollowUpReady, NothingBehind, CancelsFirst, CancelsOnWire, Loops
  <2> QED
    BY <2>4, <2>5, <2>6, <2>7, <2>8
<1> QED
  BY <1>3, <1>4 DEF RelayInv

\* A response ends, by itself or broken.
LEMMA ResponseEnds ==
  ASSUME RelayInv, response = "active", response' = "none",
         events' = Append(events, Event("done")),
         UNCHANGED <<endpointing, link, household, relay, asked, fresh, outputs>>,
         wire' \in Seq(Frames), \A x : In(x, wire') => In(x, wire),
         \A id \in Calls : In(Output(id), wire) => In(Output(id), wire'),
         CreatesLast => CreatesLast', CancelsOnWire => CancelsOnWire'
  PROVE  RelayInv'
<1> USE DEF household, relay
<1>1. /\ Always /\ events \in Seq(Events) /\ CallsOnce
      /\ Done \in Events /\ events' = Append(events, Done)
  BY DEF RelayInv, Always, TypeOK, Events, Done
<1>2. /\ events' \in Seq(Events) /\ CallsOnce' /\ events' # <<>>
      /\ Announced' = Announced /\ Finishing'
      /\ DoneLast /\ ~Finishing => DoneLast'
  <2>1. events' \in Seq(Events) /\ CallsOnce' /\ events' # <<>> /\ Announced' = Announced
    <3>1. /\ events' \in Seq(Events) /\ events' # <<>>
          /\ Announced' = Announced \cup {id \in Calls : Done = Call(id)}
      BY <1>1, EventsGrow
    <3>2. asked \subseteq asked' /\ \A id \in Calls : Done = Call(id) => id \in asked' \ asked
      BY EventsDiffer
    <3>3. CallsOnce'
      BY <1>1, <3>2, EventsGrow
    <3> QED
      BY <3>1, <3>3, EventsDiffer
  <2>2. Finishing'
    BY <1>1, EventsGrow DEF Finishing
  <2>3. ASSUME DoneLast, ~Finishing PROVE DoneLast'
    BY <1>1, <2>3, EventsGrow, EventsDiffer
  <2> QED
    BY <2>1, <2>2, <2>3
<1>3. Always'
  <2>1. TypeOK'
    BY <1>1, <1>2 DEF Always, TypeOK
  <2>2. CallsCounted' /\ UpSends' /\ Known'
    BY <1>1, <1>2 DEF Always, CallsCounted, UpSends, Known
  <2> QED
    BY <1>2, <2>1, <2>2 DEF Always
<1>4. ASSUME ~overlapped' PROVE Orderly'
  <2> USE DEF Orderly
  <2>1. Orderly /\ Responding
    BY <1>4 DEF RelayInv, Responding
  <2>2. ~Speaking /\ ~Ending /\ ~Committing /\ ~Created /\ ~Finishing /\ ~Gathering
    BY <2>1 DEF OneTurn
  <2>3. ~Speaking' /\ ~Ending' /\ ~Committing' /\ ~Created' /\ ~Responding' /\ ~Gathering'
    BY <2>2 DEF Speaking, Ending, Committing, Created, Responding, Gathering
  <2>4. OneTurn' /\ NothingAsked' /\ RoundsBegin' /\ Completed'
    BY <2>1, <2>3 DEF OneTurn, NothingAsked, RoundsBegin, Completed
  <2>5. Answering'
    BY <1>2, <2>1 DEF Answering
  <2>6. Awaited'
    BY <1>2, <2>1 DEF Awaited
  <2>7. Covered'
    BY <1>1, <1>2, <2>1 DEF Covered, Always, TypeOK
  <2>8. Requests' /\ NothingBehind' /\ Loops'
    BY <2>1 DEF Requests, FollowUpReady, NothingBehind, Loops
  <2>9. CreatesLast' /\ CancelsFirst' /\ DoneLast'
    BY <1>2, <2>1, <2>2 DEF CancelsFirst
  <2> QED
    BY <2>4, <2>5, <2>6, <2>7, <2>8, <2>9
<1> QED
  BY <1>3, <1>4 DEF RelayInv

LEMMA ProviderDoneKeeps ==
  ASSUME RelayInv, ProviderDone
  PROVE  RelayInv'
<1>1. CreatesLast => CreatesLast'
  BY DEF CreatesLast, ProviderDone
<1>2. CancelsOnWire => CancelsOnWire'
  BY DEF CancelsOnWire, ProviderDone, relay
<1>3. wire' \in Seq(Frames)
  BY DEF ProviderDone, RelayInv, Always, TypeOK
<1> QED
  BY <1>1, <1>2, <1>3, ResponseEnds DEF ProviderDone

LEMMA ProviderReadsKeeps ==
  ASSUME RelayInv, ProviderReads
  PROVE  RelayInv'
<1> USE DEF household, relay
<1> DEFINE frame == Head(wire)
<1>1. Always /\ events \in Seq(Events) /\ wire \in Seq(Frames)
  BY Typed DEF RelayInv, Always
<1>2. /\ wire # <<>> /\ wire' = Tail(wire)
      /\ UNCHANGED <<endpointing, link, household, relay>>
  BY DEF ProviderReads
<1>3. /\ wire' \in Seq(Frames) /\ In(frame, wire)
      /\ \A x : In(x, wire) <=> In(x, wire') \/ x = frame
      /\ frame \in Frames
  BY <1>1, <1>2, Taking
<1>4. /\ frame.type = "commit" => frame = Commit
      /\ frame.type = "output" => \E id \in Calls : frame = Output(id) /\ frame.id = id
      /\ frame.type = "create" => frame = Create
      /\ frame.type = "cancel" => frame = Cancel
  BY <1>3 DEF Frames, Append_, Commit, Create, Cancel, Output
<1>5. CancelsOnWire => CancelsOnWire'
  BY <1>1, <1>2, CancelsShrink
<1>6. ASSUME UNCHANGED <<asked, outputs>>, \A id : frame # Output(id)
      PROVE  CreatesLast => CreatesLast'
  BY <1>1, <1>2, <1>6, WireShrinks
<1>7. CASE frame.type = "commit" /\ UNCHANGED <<events, provider>>
  <2> USE DEF provider
  <2>1. frame = Commit /\ UNCHANGED Announced
    BY <1>4, <1>7 DEF Announced
  <2>2. Always'
    <3>1. TypeOK'
      BY <1>1, <1>2, <1>3, <1>7 DEF Always, TypeOK
    <3> QED
      BY <1>1, <1>2, <1>3, <1>7, <2>1, <3>1 DEF Always, UpSends, CallsOnce, CallsCounted, Known
  <2>3. ASSUME ~overlapped' PROVE Orderly'
    <3> USE DEF Orderly
    <3>1. Orderly
      BY <1>2, <2>3 DEF RelayInv
    <3>2. /\ UNCHANGED <<Speaking, Ending, Committing, Responding, Finishing, Gathering>>
          /\ Created' <=> Created
      BY <1>2, <1>3, <1>7, <2>1, FramesDiffer
      DEF Speaking, Ending, Committing, Created, Responding, Finishing, Gathering
    <3>3. OneTurn' /\ NothingAsked' /\ RoundsBegin' /\ Answering' /\ Completed'
      BY <1>2, <1>7, <2>1, <3>1, <3>2 DEF OneTurn, NothingAsked, RoundsBegin, Answering, Completed
    <3>4. Awaited' /\ Covered'
      BY <1>2, <1>3, <1>7, <2>1, <3>1, FramesDiffer DEF Awaited, Covered
    <3>5. CreatesLast'
      BY <1>6, <1>7, <2>1, <3>1, FramesDiffer
    <3>6. Requests' /\ NothingBehind' /\ CancelsFirst' /\ Loops' /\ DoneLast'
      BY <1>2, <1>5, <1>7, <3>1 DEF Requests, FollowUpReady, NothingBehind, CancelsFirst, Loops, DoneLast
    <3> QED
      BY <3>3, <3>4, <3>5, <3>6
  <2> QED
    BY <2>2, <2>3 DEF RelayInv
<1>8. CASE /\ frame.type = "output"
           /\ outputs' = outputs \cup {frame.id}
           /\ UNCHANGED <<events, response, asked, fresh>>
  <2>1. PICK id \in Calls : frame = Output(id) /\ frame.id = id
    BY <1>4, <1>8
  <2>2. outputs' = outputs \cup {id} /\ UNCHANGED Announced
    BY <1>8, <2>1 DEF Announced
  <2>3. Always'
    <3>1. id \in asked
      BY <1>1, <1>3, <2>1 DEF Always, Known
    <3>2. TypeOK'
      BY <1>1, <1>2, <1>3, <1>8, <2>2, <3>1 DEF Always, TypeOK
    <3> QED
      BY <1>1, <1>2, <1>3, <1>8, <2>2, <3>2 DEF Always, UpSends, CallsOnce, CallsCounted, Known
  <2>4. ASSUME ~overlapped' PROVE Orderly'
    <3> USE DEF Orderly
    <3>1. Orderly
      BY <1>2, <2>4 DEF RelayInv
    <3>2. /\ UNCHANGED <<Speaking, Ending, Committing, Responding, Finishing, Gathering>>
          /\ Created' <=> Created
      BY <1>2, <1>3, <1>8, <2>1, FramesDiffer
      DEF Speaking, Ending, Committing, Created, Responding, Finishing, Gathering
    <3>3. OneTurn' /\ NothingAsked' /\ RoundsBegin'
      BY <1>2, <1>8, <3>1, <3>2 DEF OneTurn, NothingAsked, RoundsBegin
    <3>4. Answering' /\ Completed'
      BY <1>2, <1>8, <2>2, <3>1, <3>2 DEF Answering, Completed
    <3>5. Awaited'
      BY <1>2, <1>8, <2>2, <3>1 DEF Awaited
    <3>6. Covered'
      BY <1>2, <1>3, <1>8, <2>1, <2>2, <3>1, FramesDiffer DEF Covered
    <3>7. CreatesLast'
      BY <1>1, <1>2, <1>8, <2>1, <2>2, <3>1, FramesDiffer, WireShrinks
    <3>8. Requests' /\ NothingBehind' /\ CancelsFirst' /\ Loops' /\ DoneLast'
      BY <1>2, <1>5, <1>8, <3>1 DEF Requests, FollowUpReady, NothingBehind, CancelsFirst, Loops, DoneLast
    <3> QED
      BY <3>3, <3>4, <3>5, <3>6, <3>7, <3>8
  <2> QED
    BY <2>3, <2>4 DEF RelayInv
\* The answer starts: what stood before the create on the wire is in.
<1>9. CASE /\ frame.type = "create" /\ response # "active"
           /\ response' = "active" /\ fresh' = {}
           /\ UNCHANGED <<events, asked, outputs>>
  <2>1. frame = Create /\ UNCHANGED Announced /\ Created
    BY <1>3, <1>4, <1>9 DEF Announced, Created
  <2>2. Always'
    <3>1. TypeOK'
      BY <1>1, <1>2, <1>3, <1>9 DEF Always, TypeOK
    <3> QED
      BY <1>1, <1>2, <1>3, <1>9, <2>1, <3>1 DEF Always, UpSends, CallsOnce, CallsCounted, Known
  <2>3. ASSUME ~overlapped' PROVE Orderly'
    <3> USE DEF Orderly
    <3>1. Orderly
      BY <1>2, <2>3 DEF RelayInv
    <3>2. /\ ~Speaking /\ ~Ending /\ ~Committing /\ ~Responding /\ ~Finishing /\ ~Gathering
          /\ turn = NewRound /\ Announced = {}
      BY <2>1, <3>1 DEF OneTurn, RoundsBegin, Answering
    <3>3. asked \subseteq outputs /\ ~Created'
      <4>1. /\ 1 \in DOMAIN wire /\ wire[1] = Create
            /\ DOMAIN wire' = 1 .. (Len(wire) - 1) /\ DOMAIN wire = 1 .. Len(wire) /\ Len(wire) \in Nat
            /\ \A i \in 1 .. (Len(wire) - 1) : wire'[i] = wire[i + 1]
        BY <1>1, <1>2, <2>1, Taking
      <4>2. asked \subseteq outputs
        BY <3>1, <4>1 DEF CreatesLast
      <4>3. ASSUME NEW i \in DOMAIN wire', wire'[i] = Create PROVE FALSE
        <5>1. i + 1 \in DOMAIN wire /\ wire[i + 1] = Create /\ i + 1 # 1
          BY <4>1, <4>3
        <5> QED
          BY <3>1, <4>1, <5>1 DEF CreatesLast
      <4> QED
        BY <4>2, <4>3 DEF Created, In
    <3>4. ~Speaking' /\ ~Ending' /\ ~Committing' /\ ~Finishing' /\ ~Gathering' /\ Responding'
      BY <1>2, <1>9, <3>2 DEF Speaking, Ending, Committing, Responding, Finishing, Gathering
    <3>5. OneTurn' /\ NothingAsked' /\ RoundsBegin' /\ Completed'
      BY <1>2, <1>9, <2>1, <3>1, <3>2, <3>3, <3>4 DEF OneTurn, NothingAsked, RoundsBegin, Completed
    <3>6. Answering'
      <4>1. turn'.calls = 0 /\ Cardinality(fresh' \ Announced') = 0
        BY <1>2, <1>9, <3>2, FS_EmptySet DEF NewRound
      <4> QED
        BY <1>9, <2>1, <3>2, <3>3, <3>4, <4>1 DEF Answering
    <3>7. Awaited' /\ Covered'
      BY <1>2, <1>3, <1>9, <2>1, <3>1, FramesDiffer DEF Awaited, Covered
    <3>8. CreatesLast'
      BY <1>6, <1>9, <2>1, <3>1, FramesDiffer
    <3>9. Requests' /\ NothingBehind' /\ CancelsFirst' /\ Loops' /\ DoneLast'
      BY <1>2, <1>5, <1>9, <3>1 DEF Requests, FollowUpReady, NothingBehind, CancelsFirst, Loops, DoneLast
    <3> QED
      BY <3>5, <3>6, <3>7, <3>8, <3>9
  <2> QED
    BY <2>2, <2>3 DEF RelayInv
\* A second create while a response is active: only after the pumps overlapped.
<1>10. CASE /\ frame.type = "create" /\ response = "active"
            /\ events' = Append(events, Event("error"))
            /\ UNCHANGED provider
  <2> USE DEF provider
  <2>1. overlapped
    <3>1. Created /\ Responding
      BY <1>3, <1>4, <1>10 DEF Created, Responding
    <3> QED
      BY <3>1 DEF RelayInv, Orderly, OneTurn
  <2>2. Error \in Events /\ events' = Append(events, Error) /\ asked' = asked
    BY <1>10 DEF Events, Error
  <2>3. events' \in Seq(Events) /\ CallsOnce' /\ Announced' = Announced
    BY <1>1, <2>2, EventsGrow, EventsDiffer DEF Always
  <2>4. Always'
    <3>1. TypeOK'
      BY <1>1, <1>2, <1>3, <1>10, <2>3 DEF Always, TypeOK
    <3> QED
      BY <1>1, <1>2, <1>3, <1>10, <2>3, <3>1 DEF Always, UpSends, CallsCounted, Known
  <2> QED
    BY <1>2, <2>1, <2>4 DEF RelayInv
<1>11. CASE /\ frame.type = "cancel" /\ response = "active"
            /\ response' = "none"
            /\ events' = Append(events, Event("done"))
            /\ UNCHANGED <<asked, fresh, outputs>>
  <2>1. frame = Cancel
    BY <1>4, <1>11
  <2>2. CreatesLast => CreatesLast'
    BY <1>6, <1>11, <2>1, FramesDiffer
  <2> QED
    BY <1>2, <1>3, <1>5, <1>11, <2>1, <2>2, FramesDiffer, ResponseEnds
\* ... and a cancel that comes too late.
<1>12. CASE /\ frame.type = "cancel" /\ response # "active"
            /\ events' = Append(events, Event("benign"))
            /\ UNCHANGED provider
  <2> USE DEF provider
  <2>1. frame = Cancel /\ Event("benign") \in Events
    BY <1>4, <1>12 DEF Events
  <2>2. /\ events' \in Seq(Events) /\ CallsOnce' /\ Announced' = Announced
        /\ Finishing' <=> Finishing
        /\ DoneLast /\ (Finishing => turn.cancelled) => DoneLast'
    BY <1>1, <1>2, <1>12, <2>1, EventsGrow, EventsDiffer DEF Always, Finishing, Benign
  <2>3. Always'
    <3>1. TypeOK'
      BY <1>1, <1>2, <1>3, <1>12, <2>2 DEF Always, TypeOK
    <3> QED
      BY <1>1, <1>2, <1>3, <1>12, <2>2, <3>1 DEF Always, UpSends, CallsCounted, Known
  <2>4. ASSUME ~overlapped' PROVE Orderly'
    <3> USE DEF Orderly
    <3>1. Orderly
      BY <1>2, <2>4 DEF RelayInv
    <3>2. turn.cancelled \/ Created
      BY <1>3, <2>1, <3>1 DEF CancelsFirst, CancelsOnWire, Created, In
    <3>3. Finishing => turn.cancelled
      BY <3>1, <3>2 DEF OneTurn
    <3>4. kiosk # "complete"
      BY <3>1, <3>2 DEF Completed, RoundsBegin, NewRound
    <3>5. /\ UNCHANGED <<Speaking, Ending, Committing, Responding, Gathering>>
          /\ (Created' <=> Created) /\ (Finishing' <=> Finishing)
      BY <1>2, <1>3, <1>12, <2>1, <2>2, FramesDiffer
      DEF Speaking, Ending, Committing, Created, Responding, Gathering
    <3>6. OneTurn' /\ NothingAsked' /\ RoundsBegin' /\ Answering' /\ Completed'
      BY <1>2, <1>12, <2>2, <3>1, <3>4, <3>5 DEF OneTurn, NothingAsked, RoundsBegin, Answering, Completed
    <3>7. Awaited' /\ Covered'
      BY <1>2, <1>3, <1>12, <2>1, <2>2, <3>1, FramesDiffer DEF Awaited, Covered
    <3>8. CreatesLast'
      BY <1>6, <1>12, <2>1, <3>1, FramesDiffer
    <3>9. Requests' /\ NothingBehind' /\ CancelsFirst' /\ Loops' /\ DoneLast'
      BY <1>2, <1>5, <1>12, <2>2, <3>1, <3>3 DEF Requests, FollowUpReady, NothingBehind, CancelsFirst, Loops
    <3> QED
      BY <3>6, <3>7, <3>8, <3>9
  <2> QED
    BY <2>3, <2>4 DEF RelayInv
<1> QED
  BY <1>7, <1>8, <1>9, <1>10, <1>11, <1>12 DEF ProviderReads

LEMMA StepKeeps == RelayInv /\ [Next]_vars => RelayInv'
<1> SUFFICES ASSUME RelayInv, [Next]_vars PROVE RelayInv'
  OBVIOUS
<1>1. CASE UpPump
  BY <1>1, UpStartKeeps, UpReceiveKeeps, UpSentKeeps, UpRequestedKeeps DEF UpPump
<1>2. CASE DownPump
  BY <1>2, DownCallKeeps, DownDoneWithCallsKeeps, DownToldKeeps, DownBenignKeeps,
     DownDeliveredKeeps, DownCancelledKeeps, DownRequestedKeeps DEF DownPump
<1>3. CASE Close
  BY <1>3, CloseKeeps
<1>4. CASE Kiosk
  BY <1>4, KioskKeeps
<1>5. CASE Provider
  BY <1>5, ProviderReadsKeeps, ProviderHearsEndKeeps, ProviderCallsKeeps, ProviderDoneKeeps DEF Provider
<1>6. CASE UNCHANGED vars
  <2> USE <1>6 DEF vars, household, relay, provider
  <2>1. UNCHANGED Announced
    BY DEF Announced
  <2>2. Always'
    <3>1. TypeOK'
      BY DEF RelayInv, Always, TypeOK
    <3> QED
      BY <2>1, <3>1 DEF RelayInv, Always, UpSends, CallsOnce, CallsCounted, Known
  <2>3. ASSUME Orderly PROVE Orderly'
    <3>1. OneTurn' /\ NothingAsked' /\ RoundsBegin' /\ Completed'
      BY <2>3 DEF Orderly, OneTurn, NothingAsked, RoundsBegin, Completed, Speaking, Ending,
                  Committing, Created, Responding, Finishing, Gathering
    <3>2. Answering' /\ Awaited' /\ Covered'
      BY <2>1, <2>3 DEF Orderly, Answering, Awaited, Covered, Responding, Finishing
    <3>3. Requests' /\ NothingBehind' /\ CreatesLast' /\ CancelsFirst' /\ Loops' /\ DoneLast'
      BY <2>3 DEF Orderly, Requests, FollowUpReady, NothingBehind, CreatesLast, CancelsFirst,
                  CancelsOnWire, Loops, DoneLast
    <3> QED
      BY <3>1, <3>2, <3>3 DEF Orderly
  <2> QED
    BY <2>2, <2>3 DEF RelayInv
<1> QED
  BY <1>1, <1>2, <1>3, <1>4, <1>5, <1>6 DEF Next

\* Every state of the relay, its kiosk and its provider satisfies the
\* inductive invariant.
THEOREM RelayInvAlways == Spec => []RelayInv
BY InitInv, StepKeeps, PTL DEF Spec

-----------------------------------------------------------------------------
(***************************************************************************)
(* What follows.                                                           *)
(***************************************************************************)

\* The state of a turn keeps its types, whatever the pumps do: a call is
\* awaited, dispatched and answered only if the provider made it.
THEOREM RelayTypeCorrect == Spec => []TypeOK
<1>1. RelayInv => TypeOK
  BY DEF RelayInv, Always
<1> QED
  BY <1>1, RelayInvAlways, PTL

\* While the pumps do not overlap, the provider has every output it waits
\* for when it starts to answer: _maybe_request_answer waits for the last.
THEOREM AnswerHasItsOutputs == Spec => []OutputsBeforeAnswer
<1>1. RelayInv => OutputsBeforeAnswer
  BY DEF RelayInv, Orderly, Answering, Responding, OutputsBeforeAnswer
<1> QED
  BY <1>1, RelayInvAlways, PTL

\* While the pumps do not overlap, "complete" at the kiosk is the end: no
\* response, no event and no output is still to come.
THEOREM CompleteIsTheEnd == Spec => []CompleteMeansAnswered
<1>1. RelayInv => CompleteMeansAnswered
  BY DEF RelayInv, Orderly, Completed, Responding, CompleteMeansAnswered
<1> QED
  BY <1>1, RelayInvAlways, PTL

\* While the pumps do not overlap, _maybe_break_tool_loop breaks the response
\* that made too many calls and no other.
THEOREM OnlyLoopsAreBroken == Spec => CancelHitsTheLoop
<1>1. RelayInv /\ [Next]_vars =>
        [ProviderReads /\ Head(wire).type = "cancel" /\ response = "active" /\ ~overlapped
           => Cardinality(fresh) > MaxToolCalls]_vars
  <2>1. SUFFICES ASSUME RelayInv, ProviderReads, Head(wire).type = "cancel",
                        response = "active", ~overlapped
                 PROVE  Cardinality(fresh) > MaxToolCalls
    OBVIOUS
  <2>2. Orderly /\ Always /\ wire \in Seq(Frames) /\ wire # <<>> /\ turn \in TurnType
    BY <2>1, Typed DEF RelayInv, Always, ProviderReads
  <2>3. In(Cancel, wire)
    BY <2>1, <2>2, Taking DEF Frames, Append_, Commit, Create, Cancel, Output
  <2>4. Responding /\ ~Created
    BY <2>1, <2>2 DEF Orderly, OneTurn, Responding
  <2>5. turn.cancelled
    BY <2>2, <2>3, <2>4 DEF Orderly, CancelsFirst, CancelsOnWire, Created, In
  <2>6. turn.calls > MaxToolCalls /\ turn.calls <= Cardinality(fresh \ Announced)
    BY <2>2, <2>4, <2>5 DEF Orderly, Loops, Answering
  <2>7. /\ Cardinality(fresh \ Announced) <= Cardinality(fresh)
        /\ Cardinality(fresh \ Announced) \in Nat /\ Cardinality(fresh) \in Nat
        /\ turn.calls \in Nat
    <3>1. fresh \in SUBSET Calls /\ fresh \ Announced \in SUBSET fresh
      BY <2>2 DEF Always, TypeOK
    <3> QED
      BY <2>2, <3>1, CallSets DEF TurnType
  <2> QED
    BY <2>6, <2>7, RelayAssumption
<1> QED
  BY <1>1, RelayInvAlways, PTL DEF Spec, CancelHitsTheLoop
=============================================================================
