--------------------------- MODULE LiveFeedProofs ---------------------------
(***************************************************************************)
(* Theorems about LiveFeed, for any number of kiosks, connections, changes *)
(* and breaks.  That a quiet connection has delivered the present state    *)
(* (ToldEverything) is not inductive: a broadcast works on a copy of the   *)
(* registry made when the store changed, so what must be kept is that a    *)
(* served connection was in the registry at that moment (Registered) and   *)
(* that the present version is then either delivered, on the wire or still *)
(* to be sent by the latest broadcast (NothingMissed).  That an old        *)
(* broadcast cannot take a connection back needs NotAhead, and that a slot *)
(* starts afresh needs Forgotten.                                          *)
(***************************************************************************)
EXTENDS LiveFeed, FiniteSetTheorems, TLAPS

Registered == \A c \in Conns :
  path[c] = "up" /\ endpoint[c] \in {"greeting", "serving"} => c \in registry

Forgotten == \A c \in Conns : path[c] # "up" => wire[c] = <<>> /\ told[c] = 0

NotAhead ==
  /\ \A c \in Conns : told[c] <= version
  /\ \A c \in Conns : \A i \in DOMAIN wire[c] : wire[c][i] <= version
  /\ \A k \in Casts : casts[k].todo # {} => k <= version

OnWire(c, v) == \E i \in DOMAIN wire[c] : wire[c][i] = v
ToBeSent(c, v) == v \in Casts /\ c \in casts[v].todo

NothingMissed == \A c \in Conns :
  path[c] = "up" /\ endpoint[c] = "serving" =>
    told[c] = version \/ OnWire(c, version) \/ ToBeSent(c, version)

FeedInv == TypeOK /\ Registered /\ Forgotten /\ NotAhead /\ NothingMissed

Cast == [todo : SUBSET Conns, by : Screens \cup {Backend}]

\* The greater of two versions.
LEMMA MaxOfTwo ==
  ASSUME NEW a \in Int, NEW b \in Int
  PROVE  Max({a, b}) = IF a >= b THEN a ELSE b
<1> DEFINE m == IF a >= b THEN a ELSE b
<1>1. \A x \in {a, b} : (\A y \in {a, b} : x >= y) <=> x = m
  OBVIOUS
<1>2. m \in {a, b}
  OBVIOUS
<1> QED
  BY <1>1, <1>2 DEF Max

LEMMA FeedInit ==
  ASSUME Init
  PROVE  FeedInv
<1>1. TypeOK
  <2>1. \A s \in Screens : answers[s] = {} /\ Cardinality(answers[s]) = 0
    BY FS_EmptySet DEF Init
  <2> QED
    BY <2>1, FeedAssumption DEF Init, TypeOK, Versions, Idle
<1>2. \A k \in Casts : casts[k].todo = {}
  BY DEF Init, Idle
<1> QED
  BY <1>1, <1>2 DEF Init, FeedInv, Registered, Forgotten, NotAhead, NothingMissed

-----------------------------------------------------------------------------
(***************************************************************************)
(* The kiosk's steps.                                                      *)
(***************************************************************************)
LEMMA OpenStep ==
  ASSUME FeedInv, NEW s \in Screens, NEW c \in Conns, Open(s, c)
  PROVE  FeedInv'
<1> USE DEF Open, http, Versions, Casts
<1>1. TypeOK'
  BY DEF FeedInv, TypeOK
<1>2. Registered' /\ Forgotten'
  BY DEF FeedInv, TypeOK, Registered, Forgotten
<1>3. NotAhead'
  BY DEF FeedInv, NotAhead
<1>4. NothingMissed'
  BY DEF FeedInv, TypeOK, NothingMissed, OnWire, ToBeSent
<1> QED
  BY <1>1, <1>2, <1>3, <1>4 DEF FeedInv

LEMMA OpenedStep ==
  ASSUME FeedInv, NEW s \in Screens, Opened(s)
  PROVE  FeedInv'
<1> USE DEF Opened, Refresh, server, network, Versions, Casts
<1>1. TypeOK'
  BY FeedAssumption DEF FeedInv, TypeOK
<1> QED
  BY <1>1 DEF FeedInv, Registered, Forgotten, NotAhead, NothingMissed, OnWire, ToBeSent

\* What is delivered first is the oldest on the wire; if it is the present
\* version, it is the latest that was ever delivered.
LEMMA DeliverStep ==
  ASSUME FeedInv, NEW s \in Screens, Deliver(s)
  PROVE  FeedInv'
<1> DEFINE c == socket[s]
           v == Head(wire[c])
<1>0. TypeOK
  BY DEF FeedInv
<1>1. /\ c \in Conns /\ wire[c] \in Seq(Versions) /\ wire[c] # <<>> /\ told[c] \in Versions
      /\ shown' = [shown EXCEPT ![s] = v]
      /\ wire' = [wire EXCEPT ![c] = Tail(wire[c])]
      /\ told' = [told EXCEPT ![c] = Max({told[c], v})]
      /\ UNCHANGED <<version, registry, endpoint, casts, path, breaks, socket, status, gets, answers>>
  BY <1>0 DEF TypeOK, Deliver, server, http
<1> HIDE DEF c
<1>2. v \in Versions /\ v = wire[c][1] /\ 1 \in DOMAIN wire[c] /\ Tail(wire[c]) \in Seq(Versions)
  BY <1>1
<1>3. \A i \in DOMAIN Tail(wire[c]) : i + 1 \in DOMAIN wire[c] /\ Tail(wire[c])[i] = wire[c][i + 1]
  BY <1>1
<1> HIDE DEF v
<1>4. told' = [told EXCEPT ![c] = IF told[c] >= v THEN told[c] ELSE v]
  <2>1. told[c] \in Int /\ v \in Int
    BY <1>1, <1>2, FeedAssumption DEF Versions
  <2>2. Max({told[c], v}) = IF told[c] >= v THEN told[c] ELSE v
    BY <2>1, MaxOfTwo
  <2> QED
    BY <1>1, <2>2
<1>5. TypeOK'
  BY <1>0, <1>1, <1>2, <1>4 DEF TypeOK
<1>6. Registered' /\ Forgotten'
  <2>1. path[c] = "up"
    BY DEF Deliver, c
  <2> QED
    BY <1>0, <1>1, <2>1 DEF FeedInv, Registered, Forgotten, TypeOK
<1>8. v <= version
  BY <1>1, <1>2 DEF FeedInv, NotAhead
<1>9. NotAhead'
  <2>1. \A d \in Conns : told'[d] <= version'
    BY <1>0, <1>1, <1>4, <1>8 DEF FeedInv, NotAhead, TypeOK
  <2>2. ASSUME NEW d \in Conns, NEW i \in DOMAIN wire'[d]
        PROVE  wire'[d][i] <= version'
    <3>1. CASE d # c
      BY <3>1, <2>2, <1>0, <1>1 DEF FeedInv, NotAhead, TypeOK
    <3>2. CASE d = c
      BY <3>2, <2>2, <1>0, <1>1, <1>3 DEF FeedInv, NotAhead, TypeOK
    <3> QED
      BY <3>1, <3>2
  <2> QED
    BY <1>1, <2>1, <2>2 DEF FeedInv, NotAhead
<1>7. NothingMissed'
  <2> SUFFICES ASSUME NEW d \in Conns, path[d] = "up", endpoint[d] = "serving"
               PROVE  told'[d] = version \/ OnWire(d, version)' \/ ToBeSent(d, version)
    BY <1>1 DEF NothingMissed, OnWire, ToBeSent
  <2>1. told[d] = version \/ OnWire(d, version) \/ ToBeSent(d, version)
    BY DEF FeedInv, NothingMissed
  <2>2. CASE d # c
    BY <2>1, <2>2, <1>0, <1>1 DEF OnWire, TypeOK
  <2>3. CASE d = c /\ told[d] = version
    BY <2>3, <1>0, <1>1, <1>4, <1>8 DEF TypeOK, Versions
  <2>4. CASE d = c /\ OnWire(d, version)
    <3>1. PICK i \in DOMAIN wire[c] : wire[c][i] = version
      BY <2>4 DEF OnWire
    <3>2. CASE i = 1
      BY <3>1, <3>2, <2>4, <1>0, <1>1, <1>2, <1>4 DEF FeedInv, NotAhead, TypeOK, Versions
    <3>3. CASE i # 1
      <4>1. /\ i - 1 \in DOMAIN Tail(wire[c])
            /\ Tail(wire[c])[i - 1] = version
        BY <3>1, <3>3, <1>1
      <4>2. wire'[c] = Tail(wire[c])
        BY <1>0, <1>1 DEF TypeOK
      <4> QED
        BY <4>1, <4>2, <2>4, <1>1 DEF OnWire
    <3> QED
      BY <3>2, <3>3
  <2> QED
    BY <2>1, <2>2, <2>3, <2>4
<1> QED
  BY <1>5, <1>6, <1>7, <1>9 DEF FeedInv

LEMMA CloseStep ==
  ASSUME FeedInv, NEW s \in Screens, Close(s)
  PROVE  FeedInv'
<1> USE DEF Close, server, http, Versions, Casts
<1>0. socket[s] \in Conns
  BY DEF FeedInv, TypeOK
<1>1. TypeOK'
  BY DEF FeedInv, TypeOK
<1>2. Registered' /\ Forgotten' /\ NothingMissed'
  BY <1>0 DEF FeedInv, TypeOK, Registered, Forgotten, NothingMissed, OnWire, ToBeSent
<1>3. NotAhead'
  BY DEF FeedInv, NotAhead
<1> QED
  BY <1>1, <1>2, <1>3 DEF FeedInv

\* Taking an answer away, or serving one, changes the answers alone.
LEMMA FewerAnswers ==
  ASSUME TypeOK, NEW s \in Screens, NEW v \in answers[s]
  PROVE  /\ answers[s] \ {v} \in SUBSET Versions
         /\ Cardinality(answers[s] \ {v}) <= MaxAnswers
<1>1. IsFiniteSet(answers[s])
  <2>1. IsFiniteSet(0 .. MaxVersion)
    BY FS_Interval, FeedAssumption
  <2> QED
    BY <2>1, FS_Subset DEF TypeOK, Versions
<1>2. Cardinality(answers[s] \ {v}) <= Cardinality(answers[s]) /\ Cardinality(answers[s] \ {v}) \in Nat
  BY <1>1, FS_Subset, FS_CardinalityType
<1>3. Cardinality(answers[s]) \in Nat
  BY <1>1, FS_CardinalityType
<1> QED
  BY <1>2, <1>3, FeedAssumption DEF TypeOK

LEMMA OneMoreAnswer ==
  ASSUME TypeOK, NEW s \in Screens, Answer(s)
  PROVE  /\ answers' \in [Screens -> SUBSET Versions]
         /\ \A t \in Screens : Cardinality(answers'[t]) <= MaxAnswers
<1>1. IsFiniteSet(answers[s])
  <2>1. IsFiniteSet(0 .. MaxVersion)
    BY FS_Interval, FeedAssumption
  <2> QED
    BY <2>1, FS_Subset DEF TypeOK, Versions
<1>2. Cardinality(answers[s] \cup {version}) =
        IF version \in answers[s] THEN Cardinality(answers[s]) ELSE Cardinality(answers[s]) + 1
  BY <1>1, FS_AddElement
<1>3. Cardinality(answers[s]) \in Nat
  BY <1>1, FS_CardinalityType
<1>4. Cardinality(answers[s] \cup {version}) <= MaxAnswers
  BY <1>2, <1>3, FeedAssumption DEF Answer
<1> QED
  BY <1>4 DEF Answer, TypeOK

\* HTTP only moves answers and what the hook renders.
LEMMA HttpStep ==
  ASSUME FeedInv, NEW s \in Screens, Render(s) \/ Lose(s) \/ Serve(s)
  PROVE  FeedInv'
<1>0. TypeOK
  BY DEF FeedInv
<1>1. UNCHANGED <<version, registry, endpoint, casts, path, wire, told, breaks, socket, status>>
  BY DEF Render, Lose, Serve, server, network, browser
<1>2. TypeOK'
  <2>1. CASE Render(s)
    <3>1. PICK v \in answers[s] : /\ shown' = [shown EXCEPT ![s] = v]
                                  /\ answers' = [answers EXCEPT ![s] = @ \ {v}]
      BY <2>1 DEF Render
    <3> QED
      BY <2>1, <3>1, <1>0, <1>1, FewerAnswers DEF Render, TypeOK
  <2>2. CASE Lose(s)
    <3>1. UNCHANGED shown
      BY <2>2 DEF Lose, browser
    <3>2. CASE gets[s] > 0 /\ gets' = [gets EXCEPT ![s] = @ - 1] /\ UNCHANGED answers
      BY <3>1, <3>2, <1>0, <1>1, FeedAssumption DEF TypeOK
    <3>3. CASE /\ \E v \in answers[s] : answers' = [answers EXCEPT ![s] = @ \ {v}]
               /\ UNCHANGED gets
      BY <3>1, <3>3, <1>0, <1>1, FewerAnswers DEF TypeOK
    <3> QED
      BY <2>2, <3>2, <3>3 DEF Lose
  <2>3. CASE Serve(s)
    <3>1. /\ gets[s] > 0 /\ gets' = [gets EXCEPT ![s] = @ - 1]
          /\ Answer(s) /\ UNCHANGED shown
      BY <2>3 DEF Serve, browser
    <3> QED
      BY <3>1, <1>0, <1>1, OneMoreAnswer, FeedAssumption DEF TypeOK
  <2> QED
    BY <2>1, <2>2, <2>3
<1> QED
  BY <1>1, <1>2 DEF FeedInv, Registered, Forgotten, NotAhead, NothingMissed, OnWire, ToBeSent

-----------------------------------------------------------------------------
(***************************************************************************)
(* The backend's steps.                                                    *)
(***************************************************************************)

\* What Push does to the wires, whatever is pushed.
LEMMA Pushed ==
  ASSUME TypeOK, NEW c \in Conns, NEW v \in Versions, Push(c, v)
  PROVE  /\ wire' \in [Conns -> Seq(Versions)]
         /\ \A d \in Conns \ {c} : wire'[d] = wire[d]
         /\ path[c] # "up" => wire'[c] = wire[c]
         /\ path[c] = "up" => wire'[c] = Append(wire[c], v)
         /\ \A d \in Conns : \A i \in DOMAIN wire'[d] :
              (i \in DOMAIN wire[d] /\ wire'[d][i] = wire[d][i]) \/ wire'[d][i] = v
         /\ \A d \in Conns, w \in Versions : OnWire(d, w) => OnWire(d, w)'
         /\ path[c] = "up" => \E i \in DOMAIN wire'[c] : wire'[c][i] = v
<1>1. /\ wire' = [wire EXCEPT ![c] = IF path[c] = "up" THEN Append(wire[c], v) ELSE wire[c]]
      /\ wire \in [Conns -> Seq(Versions)] /\ wire[c] \in Seq(Versions)
  BY DEF Push, TypeOK
<1>2. /\ Append(wire[c], v) \in Seq(Versions)
      /\ DOMAIN Append(wire[c], v) = 1 .. (Len(wire[c]) + 1) /\ DOMAIN wire[c] = 1 .. Len(wire[c])
      /\ \A i \in 1 .. Len(wire[c]) : Append(wire[c], v)[i] = wire[c][i]
      /\ Append(wire[c], v)[Len(wire[c]) + 1] = v
      /\ Len(wire[c]) \in Nat
  BY <1>1
<1>3. /\ wire' \in [Conns -> Seq(Versions)]
      /\ \A d \in Conns \ {c} : wire'[d] = wire[d]
      /\ path[c] # "up" => wire'[c] = wire[c]
      /\ path[c] = "up" => wire'[c] = Append(wire[c], v)
  BY <1>1, <1>2
<1>4. ASSUME NEW d \in Conns
      PROVE  /\ \A i \in DOMAIN wire'[d] :
                  (i \in DOMAIN wire[d] /\ wire'[d][i] = wire[d][i]) \/ wire'[d][i] = v
             /\ \A i \in DOMAIN wire[d] : i \in DOMAIN wire'[d] /\ wire'[d][i] = wire[d][i]
             /\ d = c /\ path[c] = "up" => \E i \in DOMAIN wire'[d] : wire'[d][i] = v
  <2>1. CASE wire'[d] = wire[d] /\ ~(d = c /\ path[c] = "up")
    BY <2>1
  <2>2. CASE d = c /\ path[c] = "up"
    BY <2>2, <1>2, <1>3
  <2> QED
    BY <2>1, <2>2, <1>3
<1>5. \A d \in Conns, w \in Versions : OnWire(d, w) => \E i \in DOMAIN wire'[d] : wire'[d][i] = w
  BY <1>4 DEF OnWire
<1> QED
  BY <1>3, <1>4, <1>5 DEF OnWire

LEMMA GreetStep ==
  ASSUME FeedInv, NEW c \in Conns, Greet(c)
  PROVE  FeedInv'
<1>0. TypeOK
  BY DEF FeedInv
<1>1. UNCHANGED <<version, casts, path, told, breaks, socket, status, shown, gets, answers>>
  BY DEF Greet, browser, http
<1>2. CASE endpoint[c] = "accepting"
  <2>1. /\ endpoint' = [endpoint EXCEPT ![c] = "greeting"]
        /\ registry' = registry \cup {c} /\ UNCHANGED wire
    BY <1>2 DEF Greet
  <2>2. TypeOK'
    BY <1>0, <1>1, <2>1 DEF TypeOK
  <2> QED
    BY <1>0, <1>1, <2>1, <2>2
       DEF FeedInv, TypeOK, Registered, Forgotten, NotAhead, NothingMissed, OnWire, ToBeSent
<1>3. CASE endpoint[c] = "greeting"
  <2>1. /\ endpoint' = [endpoint EXCEPT ![c] = "serving"]
        /\ Push(c, version) /\ UNCHANGED registry
    BY <1>3 DEF Greet
  <2>2. version \in Versions
    BY <1>0 DEF TypeOK
  <2>3. /\ wire' \in [Conns -> Seq(Versions)]
        /\ \A d \in Conns \ {c} : wire'[d] = wire[d]
        /\ path[c] # "up" => wire'[c] = wire[c]
        /\ \A d \in Conns : \A i \in DOMAIN wire'[d] :
             (i \in DOMAIN wire[d] /\ wire'[d][i] = wire[d][i]) \/ wire'[d][i] = version
        /\ path[c] = "up" => \E i \in DOMAIN wire'[c] : wire'[c][i] = version
    BY <1>0, <2>1, <2>2, Pushed
  <2>4. TypeOK'
    BY <1>0, <1>1, <2>1, <2>3 DEF TypeOK
  <2>5. Registered' /\ Forgotten'
    BY <1>0, <1>1, <1>3, <2>1, <2>3 DEF FeedInv, TypeOK, Registered, Forgotten
  <2>6. NotAhead'
    <3>1. /\ \A d \in Conns : told[d] <= version
          /\ \A k \in Casts : casts[k].todo # {} => k <= version
      BY DEF FeedInv, NotAhead
    <3>2. \A d \in Conns : \A i \in DOMAIN wire[d] : wire[d][i] <= version
      BY DEF FeedInv, NotAhead
    <3>3. version <= version
      BY <2>2, FeedAssumption DEF Versions
    <3>4. ASSUME NEW d \in Conns, NEW i \in DOMAIN wire'[d]
          PROVE  wire'[d][i] <= version
      <4>1. (i \in DOMAIN wire[d] /\ wire'[d][i] = wire[d][i]) \/ wire'[d][i] = version
        BY <2>3
      <4> QED
        BY <3>2, <3>3, <4>1
    <3> QED
      BY <1>1, <3>1, <3>4 DEF NotAhead
  <2>7. NothingMissed'
    BY <1>0, <1>1, <2>1, <2>3 DEF FeedInv, TypeOK, NothingMissed, OnWire, ToBeSent
  <2> QED
    BY <2>4, <2>5, <2>6, <2>7 DEF FeedInv
<1> QED
  BY <1>2, <1>3 DEF Greet

LEMMA DisconnectStep ==
  ASSUME FeedInv, NEW c \in Conns, Disconnect(c)
  PROVE  FeedInv'
<1> USE DEF Disconnect, browser, http
<1>1. TypeOK'
  BY DEF FeedInv, TypeOK
<1>2. Registered' /\ Forgotten' /\ NothingMissed'
  BY DEF FeedInv, TypeOK, Registered, Forgotten, NothingMissed, OnWire, ToBeSent
<1>3. NotAhead'
  BY DEF FeedInv, NotAhead
<1> QED
  BY <1>1, <1>2, <1>3 DEF FeedInv

\* The copy that the broadcast of a change works on holds every connection
\* that is served.
LEMMA ChangeStep ==
  ASSUME FeedInv, NEW who \in Screens \cup {Backend}, Change(who)
  PROVE  FeedInv'
<1>0. TypeOK
  BY DEF FeedInv
<1> DEFINE new == [todo |-> registry, by |-> who]
<1>1. /\ version' = version + 1 /\ version \in Nat /\ version' \in Casts /\ version' \in Versions
      /\ casts' = [casts EXCEPT ![version + 1] = new]
      /\ UNCHANGED <<registry, endpoint, path, wire, told, breaks, socket, status, shown, gets, answers>>
  BY <1>0, FeedAssumption DEF Change, TypeOK, Versions, Casts, network, browser, http
<1>2. /\ casts'[version'] = new
      /\ \A k \in Casts \ {version'} : casts'[k] = casts[k]
      /\ casts' \in [Casts -> {Idle} \cup Cast]
  BY <1>0, <1>1 DEF TypeOK, Cast
<1>3. TypeOK'
  BY <1>0, <1>1, <1>2 DEF TypeOK, Cast
<1>4. Registered' /\ Forgotten'
  BY <1>1 DEF FeedInv, Registered, Forgotten
<1>5. NotAhead'
  <2>1. \A c \in Conns : told[c] \in Nat /\ wire[c] \in Seq(Nat)
    BY <1>0, FeedAssumption DEF TypeOK, Versions
  <2>2. \A c \in Conns : told[c] <= version + 1
    BY <1>1, <2>1 DEF FeedInv, NotAhead
  <2>3. \A c \in Conns : \A i \in DOMAIN wire[c] : wire[c][i] <= version + 1
    BY <1>1, <2>1 DEF FeedInv, NotAhead
  <2>4. \A k \in Casts : casts'[k].todo # {} => k <= version + 1
    BY <1>1, <1>2, FeedAssumption DEF FeedInv, NotAhead, Casts
  <2> QED
    BY <1>1, <2>2, <2>3, <2>4 DEF NotAhead
<1>6. NothingMissed'
  BY <1>1, <1>2 DEF FeedInv, Registered, NothingMissed, ToBeSent
<1> QED
  BY <1>3, <1>4, <1>5, <1>6 DEF FeedInv

\* A send of the latest broadcast puts the present version on the wire; one of
\* an older broadcast adds something older behind what is there.
LEMMA SendStep ==
  ASSUME FeedInv, NEW k \in Casts, NEW c \in Conns, Send(k, c)
  PROVE  FeedInv'
<1>0. TypeOK
  BY DEF FeedInv
<1>1. /\ c \in casts[k].todo
      /\ casts' = [casts EXCEPT ![k].todo = @ \ {c}]
      /\ UNCHANGED <<version, endpoint, path, told, breaks, socket, status, shown, gets, answers>>
  BY DEF Send, browser, http
<1>2. k \in Versions /\ k <= version /\ k \in Nat
  BY <1>1, FeedAssumption DEF FeedInv, NotAhead, Casts, Versions
<1>3. casts[k] \in Cast
  BY <1>0, <1>1 DEF TypeOK, Idle, Cast
<1>4. /\ casts' \in [Casts -> {Idle} \cup Cast]
      /\ casts'[k].todo = casts[k].todo \ {c}
      /\ \A l \in Casts \ {k} : casts'[l] = casts[l]
  BY <1>0, <1>1, <1>3 DEF TypeOK, Cast
<1>5. CASE Push(c, k) /\ UNCHANGED registry
  <2>1. /\ wire' \in [Conns -> Seq(Versions)]
        /\ \A d \in Conns \ {c} : wire'[d] = wire[d]
        /\ path[c] # "up" => wire'[c] = wire[c]
        /\ \A d \in Conns : \A i \in DOMAIN wire'[d] :
             (i \in DOMAIN wire[d] /\ wire'[d][i] = wire[d][i]) \/ wire'[d][i] = k
        /\ \A d \in Conns, w \in Versions : OnWire(d, w) => OnWire(d, w)'
        /\ path[c] = "up" => \E i \in DOMAIN wire'[c] : wire'[c][i] = k
    BY <1>0, <1>2, <1>5, Pushed
  <2>2. TypeOK'
    BY <1>0, <1>1, <1>4, <1>5, <2>1 DEF TypeOK, Cast
  <2>3. Registered' /\ Forgotten'
    BY <1>1, <1>5, <2>1 DEF FeedInv, Registered, Forgotten
  <2>4. NotAhead'
    BY <1>1, <1>2, <1>4, <2>1 DEF FeedInv, NotAhead
  <2>5. NothingMissed'
    <3> SUFFICES ASSUME NEW d \in Conns, path[d] = "up", endpoint[d] = "serving"
                 PROVE  told[d] = version \/ OnWire(d, version)' \/ ToBeSent(d, version)'
      BY <1>1 DEF NothingMissed
    <3>1. version \in Versions
      BY <1>0 DEF TypeOK
    <3>2. told[d] = version \/ OnWire(d, version) \/ ToBeSent(d, version)
      BY DEF FeedInv, NothingMissed
    <3>3. CASE OnWire(d, version)
      BY <3>1, <3>3, <2>1, <1>1 DEF OnWire
    <3>4. CASE ToBeSent(d, version)
      <4>1. CASE d = c /\ k = version
        BY <4>1, <2>1, <1>1 DEF OnWire
      <4>2. CASE ~(d = c /\ k = version)
        BY <4>2, <3>4, <1>1, <1>4 DEF ToBeSent
      <4> QED
        BY <4>1, <4>2
    <3> QED
      BY <3>2, <3>3, <3>4
  <2> QED
    BY <2>2, <2>3, <2>4, <2>5 DEF FeedInv
<1>6. CASE /\ endpoint[c] = "none" \/ path[c] = "down"
           /\ registry' = registry \ {c} /\ UNCHANGED wire
  <2>1. TypeOK'
    BY <1>0, <1>1, <1>4, <1>6 DEF TypeOK, Cast
  <2>2. Registered' /\ Forgotten'
    BY <1>1, <1>6 DEF FeedInv, Registered, Forgotten
  <2>3. NotAhead'
    BY <1>1, <1>4, <1>6 DEF FeedInv, NotAhead
  <2>4. NothingMissed'
    BY <1>1, <1>4, <1>6 DEF FeedInv, NothingMissed, OnWire, ToBeSent
  <2> QED
    BY <2>1, <2>2, <2>3, <2>4 DEF FeedInv
<1> QED
  BY <1>5, <1>6 DEF Send

LEMMA RespondStep ==
  ASSUME FeedInv, NEW k \in Casts, Respond(k)
  PROVE  FeedInv'
<1>0. TypeOK
  BY DEF FeedInv
<1>1. /\ casts[k] # Idle /\ casts[k].todo = {}
      /\ casts' = [casts EXCEPT ![k] = Idle]
      /\ UNCHANGED <<version, registry, endpoint, path, wire, told, breaks, socket, status, shown, gets>>
  BY DEF Respond, network, browser
<1>2. casts[k].by \in Screens \cup {Backend}
  BY <1>0, <1>1 DEF TypeOK
<1>3. /\ answers' \in [Screens -> SUBSET Versions]
      /\ \A t \in Screens : Cardinality(answers'[t]) <= MaxAnswers
  <2>1. CASE casts[k].by = Backend
    BY <2>1, <1>0 DEF Respond, TypeOK
  <2>2. CASE casts[k].by # Backend
    <3>1. casts[k].by \in Screens /\ Answer(casts[k].by)
      BY <2>2, <1>2 DEF Respond
    <3> QED
      BY <3>1, <1>0, OneMoreAnswer
  <2> QED
    BY <2>1, <2>2
<1>4. TypeOK'
  BY <1>0, <1>1, <1>3 DEF TypeOK
<1>5. \A l \in Casts : casts'[l].todo = casts[l].todo
  BY <1>0, <1>1 DEF TypeOK, Idle
<1> QED
  BY <1>1, <1>4, <1>5
     DEF FeedInv, Registered, Forgotten, NotAhead, NothingMissed, OnWire, ToBeSent

-----------------------------------------------------------------------------
LEMMA BreakStep ==
  ASSUME FeedInv, NEW c \in Conns, Break(c)
  PROVE  FeedInv'
<1> USE DEF Break, server, browser, http
<1>1. TypeOK'
  <2>1. breaks' \in 0 .. MaxBreaks /\ 0 \in Versions
    BY FeedAssumption DEF FeedInv, TypeOK, Versions
  <2>2. /\ path' \in [Conns -> {"none", "up", "half", "down"}]
        /\ wire' \in [Conns -> Seq(Versions)] /\ told' \in [Conns -> Versions]
    <3>1. path' \in [Conns -> {"none", "up", "half", "down"}]
      BY DEF FeedInv, TypeOK
    <3>2. <<>> \in Seq(Versions) /\ wire' \in [Conns -> Seq(Versions)]
      BY DEF FeedInv, TypeOK
    <3>3. told' \in [Conns -> Versions]
      BY <2>1 DEF FeedInv, TypeOK
    <3> QED
      BY <3>1, <3>2, <3>3
  <2> QED
    BY <2>1, <2>2 DEF FeedInv, TypeOK
<1>2. Registered' /\ Forgotten' /\ NothingMissed'
  BY DEF FeedInv, TypeOK, Registered, Forgotten, NothingMissed, OnWire, ToBeSent
<1>3. NotAhead'
  BY FeedAssumption DEF FeedInv, TypeOK, NotAhead, Versions
<1> QED
  BY <1>1, <1>2, <1>3 DEF FeedInv

LEMMA RestartStep ==
  ASSUME FeedInv, Restart
  PROVE  FeedInv'
<1>0. TypeOK
  BY DEF FeedInv
<1>1. /\ breaks < MaxBreaks /\ breaks' = breaks + 1
      /\ registry' = {} /\ endpoint' = [c \in Conns |-> "none"]
      /\ casts' = [k \in Casts |-> Idle]
      /\ path' \in [Conns -> {"none", "half", "down"}]
      /\ wire' = [c \in Conns |-> <<>>] /\ told' = [c \in Conns |-> 0]
      /\ gets' = [s \in Screens |-> 0] /\ answers' = [s \in Screens |-> {}]
      /\ UNCHANGED <<version, socket, status, shown>>
  BY DEF Restart, browser
<1>2. TypeOK'
  <2>1. Cardinality({}) = 0
    BY FS_EmptySet
  <2> QED
    BY <1>0, <1>1, <2>1, FeedAssumption DEF TypeOK, Versions
<1>3. NotAhead'
  BY <1>0, <1>1, FeedAssumption DEF TypeOK, NotAhead, Versions, Idle
<1> QED
  BY <1>1, <1>2, <1>3 DEF FeedInv, Registered, Forgotten, NothingMissed

-----------------------------------------------------------------------------
LEMMA FeedStep ==
  ASSUME FeedInv, [Next]_vars
  PROVE  FeedInv'
<1>1. ASSUME NEW s \in Screens, Kiosk(s)
      PROVE  FeedInv'
  BY <1>1, OpenStep, OpenedStep, DeliverStep, CloseStep DEF Kiosk
<1>2. ASSUME NEW c \in Conns, EventLoop(c)
      PROVE  FeedInv'
  BY <1>2, GreetStep, DisconnectStep, SendStep DEF EventLoop
<1>3. CASE UNCHANGED vars
  BY <1>3 DEF vars, server, network, browser, http, FeedInv, TypeOK, Registered, Forgotten,
              NotAhead, NothingMissed, OnWire, ToBeSent
<1> QED
  BY <1>1, <1>2, <1>3, HttpStep, BreakStep, ChangeStep, RespondStep, RestartStep DEF Next

\* The inductive invariant holds in every reachable state: what a kiosk whose
\* feed is up and served has not been told is on its wire or still in the
\* broadcast's copy of the registry (realtime.py, add, discard and broadcast).
THEOREM FeedInvAlways == Spec => []FeedInv
<1>1. Init => FeedInv
  BY FeedInit
<1>2. FeedInv /\ [Next]_vars => FeedInv'
  BY FeedStep
<1> QED
  BY <1>1, <1>2, PTL DEF Spec

\* The types, and that no more answers, GETs and breaks are under way than the
\* bounds allow.
THEOREM FeedTypeCorrect == Spec => []TypeOK
BY FeedInvAlways, PTL DEF FeedInv

\* No change falls between the greeting of a connection and the broadcasts,
\* whatever greetings, broadcasts, requests, breaks and restarts interleave.
THEOREM NoChangeMissed == Spec => []ToldEverything
<1>1. FeedInv => ToldEverything
  <2> SUFFICES ASSUME FeedInv, NEW s \in Screens, Settled(s)
               PROVE  told[socket[s]] = version
    BY DEF ToldEverything
  <2>1. socket[s] \in Conns
    BY DEF FeedInv, TypeOK, Settled
  <2> QED
    BY <2>1 DEF FeedInv, NothingMissed, OnWire, ToBeSent, Settled
<1> QED
  BY <1>1, FeedInvAlways, PTL
=============================================================================
