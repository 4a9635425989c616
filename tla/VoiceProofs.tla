------------------------------ MODULE VoiceProofs -----------------------------
(***************************************************************************)
(* Theorems about the ways of a voice command (Voice), for any number of   *)
(* commands, breaks, requests, kiosks and turns, and whatever is said.     *)
(* Each part has an inductive invariant of its own; a behaviour of Voice   *)
(* is one of one part, and leaves the variables of the others alone.       *)
(***************************************************************************)
EXTENDS Voice, FiniteSetTheorems, SequenceTheorems, WellFoundedInduction, TLAPS

-----------------------------------------------------------------------------
(***************************************************************************)
(* The gate on the speaker device.  Commands are on their way in four      *)
(* places one after the other; what is in an earlier one is newer than all *)
(* that is in a later one, and what was dropped is in none.                *)
(***************************************************************************)
Increasing(s) == \A i, j \in DOMAIN s : i < j => s[i] < s[j]
Before(s, t) == \A m \in ToSet(s), n \in ToSet(t) : m < n
Whole == ToSet(carried) \cup ToSet(onWire) \cup ToSet(outbound) \cup ToSet(inbound)

WakeTypes ==
  /\ gateClient \in {"open", "closed"}
  /\ gateLink \in {"none", "good", "broken", "silent"}
  /\ gateBridge = "relay" <=> gateLink # "none"
  /\ commands \in Nat /\ dropped \subseteq 1 .. commands /\ owed \in BOOLEAN
  /\ inbound \in Seq(Nat) /\ outbound \in Seq(Nat)
  /\ onWire \in Seq(Nat) /\ carried \in Seq(Nat)

InTurn ==
  /\ Increasing(carried) /\ Increasing(onWire) /\ Increasing(outbound) /\ Increasing(inbound)
  /\ Before(carried, onWire) /\ Before(carried, outbound) /\ Before(carried, inbound)
  /\ Before(onWire, outbound) /\ Before(onWire, inbound) /\ Before(outbound, inbound)

NoneDropped == Whole \subseteq (1 .. commands) \ dropped

Accounted == gateClient = "open" => 1 .. commands \subseteq Whole \cup dropped

ToldOfLoss == gateClient = "open" /\ owed => gateLink \in {"broken", "silent"}

WakeInv == WakeTypes /\ InTurn /\ NoneDropped /\ Accounted /\ ToldOfLoss

\* A number joins a queue, or leaves it.
LEMMA Joining ==
  ASSUME NEW s \in Seq(Nat), NEW n \in Nat
  PROVE  /\ Append(s, n) \in Seq(Nat) /\ ToSet(Append(s, n)) = ToSet(s) \cup {n}
         /\ Increasing(s) /\ (\A m \in ToSet(s) : m < n) => Increasing(Append(s, n))
<1>1. /\ Append(s, n) \in Seq(Nat) /\ DOMAIN Append(s, n) = 1 .. (Len(s) + 1)
      /\ DOMAIN s = 1 .. Len(s) /\ Len(s) \in Nat
      /\ \A i \in 1 .. Len(s) : Append(s, n)[i] = s[i] /\ s[i] \in Nat
      /\ Append(s, n)[Len(s) + 1] = n
  OBVIOUS
<1>2. ToSet(Append(s, n)) = ToSet(s) \cup {n}
  <2>1. \A i \in DOMAIN Append(s, n) : i \in DOMAIN s \/ i = Len(s) + 1
    BY <1>1
  <2> QED
    BY <1>1, <2>1 DEF ToSet
<1>3. ASSUME Increasing(s), \A m \in ToSet(s) : m < n
      PROVE  Increasing(Append(s, n))
  <2>1. ASSUME NEW i \in DOMAIN Append(s, n), NEW j \in DOMAIN Append(s, n), i < j
        PROVE  Append(s, n)[i] < Append(s, n)[j]
    <3>1. i \in DOMAIN s /\ s[i] \in ToSet(s)
      BY <1>1, <2>1 DEF ToSet
    <3>2. CASE j \in DOMAIN s
      BY <1>1, <1>3, <2>1, <3>1, <3>2 DEF Increasing
    <3>3. CASE j = Len(s) + 1
      BY <1>1, <1>3, <3>1, <3>3
    <3> QED
      BY <1>1, <2>1, <3>2, <3>3
  <2> QED
    BY <2>1 DEF Increasing
<1> QED
  BY <1>1, <1>2, <1>3

LEMMA Leaving ==
  ASSUME NEW s \in Seq(Nat), s # <<>>
  PROVE  /\ Tail(s) \in Seq(Nat) /\ Head(s) \in Nat
         /\ ToSet(s) = {Head(s)} \cup ToSet(Tail(s))
         /\ Increasing(s) => Increasing(Tail(s)) /\ \A m \in ToSet(Tail(s)) : Head(s) < m
<1>1. /\ Tail(s) \in Seq(Nat) /\ Head(s) = s[1] /\ s[1] \in Nat
      /\ DOMAIN s = 1 .. Len(s) /\ Len(s) \in Nat \ {0}
      /\ DOMAIN Tail(s) = 1 .. (Len(s) - 1)
      /\ \A i \in 1 .. (Len(s) - 1) : Tail(s)[i] = s[i + 1]
  OBVIOUS
<1>2. \A i \in DOMAIN s : i = 1 \/ (i - 1 \in DOMAIN Tail(s) /\ s[i] = Tail(s)[i - 1])
  BY <1>1
<1>3. \A i \in DOMAIN Tail(s) : i + 1 \in DOMAIN s /\ Tail(s)[i] = s[i + 1] /\ i \in Nat \ {0}
  BY <1>1
<1>4. 1 \in DOMAIN s
  BY <1>1
<1>5. ToSet(s) = {Head(s)} \cup ToSet(Tail(s))
  <2>1. ASSUME NEW m \in ToSet(s)
        PROVE  m = Head(s) \/ m \in ToSet(Tail(s))
    <3>1. PICK i \in DOMAIN s : m = s[i]
      BY <2>1 DEF ToSet
    <3>2. CASE i = 1
      BY <1>1, <3>1, <3>2
    <3>3. CASE i # 1
      BY <1>2, <3>1, <3>3 DEF ToSet
    <3> QED
      BY <3>2, <3>3
  <2>2. ASSUME NEW m \in ToSet(Tail(s))
        PROVE  m \in ToSet(s)
    BY <1>3, <2>2 DEF ToSet
  <2>3. Head(s) \in ToSet(s)
    BY <1>1, <1>4 DEF ToSet
  <2> QED
    BY <2>1, <2>2, <2>3
<1>6. ASSUME Increasing(s)
      PROVE  Increasing(Tail(s)) /\ \A m \in ToSet(Tail(s)) : Head(s) < m
  <2>1. Increasing(Tail(s))
    BY <1>3, <1>6 DEF Increasing
  <2>2. \A i \in DOMAIN Tail(s) : s[1] < s[i + 1]
    BY <1>3, <1>4, <1>6 DEF Increasing
  <2> QED
    BY <1>1, <1>3, <2>1, <2>2 DEF ToSet
<1> QED
  BY <1>1, <1>5, <1>6

\* What is behind a queue comes after it.
LEMMA Behind ==
  ASSUME NEW S, NEW s \in Seq(S), NEW t \in Seq(S)
  PROVE  s \o t \in Seq(S) /\ ToSet(s \o t) = ToSet(s) \cup ToSet(t)
<1>1. /\ s \o t \in Seq(S)
      /\ \A i \in DOMAIN s : i \in DOMAIN (s \o t) /\ (s \o t)[i] = s[i]
      /\ \A i \in DOMAIN t : i + Len(s) \in DOMAIN (s \o t) /\ (s \o t)[i + Len(s)] = t[i]
  OBVIOUS
<1>2. \A i \in DOMAIN (s \o t) : \/ i \in DOMAIN s /\ (s \o t)[i] = s[i]
                                 \/ i - Len(s) \in DOMAIN t /\ (s \o t)[i] = t[i - Len(s)]
  OBVIOUS
<1>3. ASSUME NEW m \in ToSet(s \o t)
      PROVE  m \in ToSet(s) \/ m \in ToSet(t)
  <2>1. PICK i \in DOMAIN (s \o t) : m = (s \o t)[i]
    BY <1>3 DEF ToSet
  <2> QED
    BY <1>2, <2>1 DEF ToSet
<1>4. ASSUME NEW m \in ToSet(s)
      PROVE  m \in ToSet(s \o t)
  <2>1. PICK i \in DOMAIN s : m = s[i]
    BY <1>4 DEF ToSet
  <2> QED
    BY <1>1, <2>1 DEF ToSet
<1>5. ASSUME NEW m \in ToSet(t)
      PROVE  m \in ToSet(s \o t)
  <2>1. PICK i \in DOMAIN t : m = t[i]
    BY <1>5 DEF ToSet
  <2> QED
    BY <1>1, <2>1 DEF ToSet
<1> QED
  BY <1>1, <1>3, <1>4, <1>5

LEMMA Nothings == ToSet(<<>>) = {} /\ Increasing(<<>>) /\ <<>> \in Seq(Nat)
BY DEF ToSet, Increasing

LEMMA WakeBegins == WakeBridgeInit => WakeInv
<1> SUFFICES ASSUME WakeBridgeInit PROVE WakeInv
  OBVIOUS
<1>1. /\ inbound = <<>> /\ outbound = <<>> /\ onWire = <<>> /\ carried = <<>>
      /\ commands = 0 /\ dropped = {} /\ owed = FALSE /\ gateLink = "none"
      /\ gateBridge \in {"dial", "ended"} /\ gateClient \in {"open", "closed"}
  BY DEF WakeBridgeInit
<1>2. WakeTypes /\ ToldOfLoss
  BY <1>1, Nothings DEF WakeTypes, ToldOfLoss
<1>3. InTurn
  BY <1>1, Nothings DEF InTurn, Before
<1>4. NoneDropped /\ Accounted
  BY <1>1, Nothings DEF NoneDropped, Accounted, Whole
<1> QED
  BY <1>2, <1>3, <1>4 DEF WakeInv

LEMMA WakeSends == ASSUME WakeInv, KioskSends PROVE WakeInv'
<1>1. /\ WakeTypes /\ InTurn /\ NoneDropped /\ Accounted /\ ToldOfLoss /\ commands \in Nat
      /\ commands' = commands + 1 /\ commands + 1 \in Nat
      /\ inbound \in Seq(Nat) /\ inbound' = Append(inbound, commands + 1)
      /\ UNCHANGED <<gateClient, outbound, gateBridge, gateLink, onWire, carried, dropped, owed>>
  BY DEF WakeInv, WakeTypes, KioskSends, deviceSide
<1>2. /\ inbound' \in Seq(Nat) /\ ToSet(inbound') = ToSet(inbound) \cup {commands + 1}
      /\ Increasing(inbound) /\ (\A m \in ToSet(inbound) : m < commands + 1) => Increasing(inbound')
  BY <1>1, Joining
<1>3. \A m \in Whole : m < commands + 1 /\ m \in Nat
  BY <1>1 DEF NoneDropped
<1>4. WakeTypes' /\ ToldOfLoss'
  BY <1>1, <1>2 DEF WakeTypes, ToldOfLoss
<1>5. InTurn'
  BY <1>1, <1>2, <1>3 DEF InTurn, Before, Whole
<1>6. NoneDropped' /\ Accounted'
  BY <1>1, <1>2, <1>3 DEF NoneDropped, Accounted, Whole, WakeTypes
<1> QED
  BY <1>4, <1>5, <1>6 DEF WakeInv

LEMMA WakeQueues == ASSUME WakeInv, PumpQueues PROVE WakeInv'
<1>1. /\ WakeTypes /\ InTurn /\ NoneDropped /\ Accounted /\ ToldOfLoss
      /\ inbound \in Seq(Nat) /\ inbound # <<>> /\ outbound \in Seq(Nat)
      /\ outbound' = Append(outbound, Head(inbound)) /\ inbound' = Tail(inbound)
      /\ UNCHANGED <<gateClient, commands, gateBridge, gateLink, onWire, carried, dropped, owed>>
  BY DEF WakeInv, WakeTypes, PumpQueues, deviceSide
<1>2. /\ inbound' \in Seq(Nat) /\ Head(inbound) \in Nat
      /\ ToSet(inbound) = {Head(inbound)} \cup ToSet(inbound')
      /\ Increasing(inbound') /\ \A m \in ToSet(inbound') : Head(inbound) < m
  BY <1>1, Leaving DEF InTurn
<1>3. /\ outbound' \in Seq(Nat) /\ ToSet(outbound') = ToSet(outbound) \cup {Head(inbound)}
      /\ Increasing(outbound) /\ (\A m \in ToSet(outbound) : m < Head(inbound)) => Increasing(outbound')
  BY <1>1, <1>2, Joining
<1>4. WakeTypes' /\ ToldOfLoss'
  BY <1>1, <1>2, <1>3 DEF WakeTypes, ToldOfLoss
<1>5. InTurn'
  BY <1>1, <1>2, <1>3 DEF InTurn, Before
<1>6. Whole' = Whole
  BY <1>1, <1>2, <1>3 DEF Whole
<1>7. NoneDropped' /\ Accounted'
  BY <1>1, <1>6 DEF NoneDropped, Accounted
<1> QED
  BY <1>4, <1>5, <1>7 DEF WakeInv

LEMMA WakeWrites == ASSUME WakeInv, GateWrites PROVE WakeInv'
<1> DEFINE command == Head(outbound)
<1>1. /\ WakeTypes /\ InTurn /\ NoneDropped /\ Accounted /\ ToldOfLoss /\ gateBridge = "relay"
      /\ outbound \in Seq(Nat) /\ outbound # <<>> /\ outbound' = Tail(outbound)
      /\ UNCHANGED <<gateClient, commands, inbound, gateBridge, gateLink, carried>>
      /\ onWire \in Seq(Nat)
  BY DEF WakeInv, WakeTypes, GateWrites, GateLoses
<1>2. /\ outbound' \in Seq(Nat) /\ command \in Nat
      /\ ToSet(outbound) = {command} \cup ToSet(outbound')
      /\ Increasing(outbound') /\ \A m \in ToSet(outbound') : command < m
  BY <1>1, Leaving DEF InTurn
<1>3. CASE gateLink = "good"
  <2>1. onWire' = Append(onWire, command) /\ UNCHANGED <<dropped, owed>>
    BY <1>3 DEF GateWrites
  <2> HIDE DEF command
  <2>2. /\ onWire' \in Seq(Nat) /\ ToSet(onWire') = ToSet(onWire) \cup {command}
        /\ Increasing(onWire) /\ (\A m \in ToSet(onWire) : m < command) => Increasing(onWire')
    BY <1>1, <1>2, <2>1, Joining
  <2>3. WakeTypes' /\ ToldOfLoss'
    BY <1>1, <1>2, <2>1, <2>2 DEF WakeTypes, ToldOfLoss
  <2>4. InTurn'
    BY <1>1, <1>2, <2>2 DEF InTurn, Before
  <2>5. Whole' = Whole
    BY <1>1, <1>2, <2>2 DEF Whole
  <2>6. NoneDropped' /\ Accounted'
    BY <1>1, <2>1, <2>5 DEF NoneDropped, Accounted
  <2> QED
    BY <2>3, <2>4, <2>6 DEF WakeInv
<1>4. CASE gateLink # "good"
  <2>1. dropped' = dropped \cup {command} /\ owed' = TRUE /\ onWire' = onWire
    <3>1. dropped' = dropped \cup {command} /\ owed' = (owed \/ {command} # {}) /\ onWire' = onWire
      BY <1>4 DEF GateWrites, GateLoses
    <3> QED
      BY <3>1
  <2> HIDE DEF command
  <2>2. command \in 1 .. commands
    BY <1>1, <1>2 DEF NoneDropped, Whole
  <2>3. WakeTypes' /\ ToldOfLoss'
    BY <1>1, <1>2, <1>4, <2>1, <2>2 DEF WakeTypes, ToldOfLoss
  <2>4. InTurn'
    BY <1>1, <1>2, <2>1 DEF InTurn, Before
  <2>5. Whole = Whole' \cup {command}
    BY <1>1, <1>2, <2>1 DEF Whole
  <2>6. command \notin Whole'
    <3>1. /\ \A m \in ToSet(carried) \cup ToSet(onWire) : m < command
          /\ \A m \in ToSet(inbound) \cup ToSet(outbound') : command < m
      BY <1>1, <1>2 DEF InTurn, Before
    <3>2. ~(command < command)
      BY <1>2
    <3> QED
      BY <1>1, <2>1, <3>1, <3>2 DEF Whole
  <2>7. NoneDropped' /\ Accounted'
    BY <1>1, <2>1, <2>5, <2>6 DEF NoneDropped, Accounted
  <2> QED
    BY <2>3, <2>4, <2>7 DEF WakeInv
<1> QED
  BY <1>3, <1>4

LEMMA WakeReads == ASSUME WakeInv, DeviceReads PROVE WakeInv'
<1>1. /\ WakeTypes /\ InTurn /\ NoneDropped /\ Accounted /\ ToldOfLoss
      /\ onWire \in Seq(Nat) /\ onWire # <<>> /\ carried \in Seq(Nat)
      /\ carried' = Append(carried, Head(onWire)) /\ onWire' = Tail(onWire)
      /\ UNCHANGED <<gateClient, commands, gateBridge, gateLink, outbound, inbound, dropped, owed>>
  BY DEF WakeInv, WakeTypes, DeviceReads
<1>2. /\ onWire' \in Seq(Nat) /\ Head(onWire) \in Nat
      /\ ToSet(onWire) = {Head(onWire)} \cup ToSet(onWire')
      /\ Increasing(onWire') /\ \A m \in ToSet(onWire') : Head(onWire) < m
  BY <1>1, Leaving DEF InTurn
<1>3. /\ carried' \in Seq(Nat) /\ ToSet(carried') = ToSet(carried) \cup {Head(onWire)}
      /\ Increasing(carried) /\ (\A m \in ToSet(carried) : m < Head(onWire)) => Increasing(carried')
  BY <1>1, <1>2, Joining
<1>4. WakeTypes' /\ ToldOfLoss'
  BY <1>1, <1>2, <1>3 DEF WakeTypes, ToldOfLoss
<1>5. InTurn'
  BY <1>1, <1>2, <1>3 DEF InTurn, Before
<1>6. Whole' = Whole
  BY <1>1, <1>2, <1>3 DEF Whole
<1>7. NoneDropped' /\ Accounted'
  BY <1>1, <1>6 DEF NoneDropped, Accounted
<1> QED
  BY <1>4, <1>5, <1>7 DEF WakeInv

LEMMA WakeBreaks ==
  ASSUME WakeInv, NEW how \in {"broken", "silent"}, GateBreaks(how) PROVE WakeInv'
<1>1. /\ WakeTypes /\ InTurn /\ NoneDropped /\ Accounted /\ ToldOfLoss
      /\ onWire' = <<>> /\ gateLink = "good" /\ gateLink' = how
      /\ dropped' = dropped \cup ToSet(onWire)
      /\ UNCHANGED <<gateClient, commands, inbound, outbound, gateBridge, carried>>
      /\ owed' \in BOOLEAN
  BY DEF WakeInv, WakeTypes, GateBreaks, GateLoses
<1>2. ToSet(onWire') = {} /\ Increasing(onWire') /\ onWire' \in Seq(Nat)
  BY <1>1, Nothings
<1>3. \A m \in ToSet(onWire) : m \in 1 .. commands /\ m \notin Whole'
  <2>1. /\ \A m \in ToSet(onWire), n \in ToSet(carried) : n < m
        /\ \A m \in ToSet(onWire), n \in ToSet(inbound) \cup ToSet(outbound) : m < n
    BY <1>1 DEF InTurn, Before
  <2>2. \A m \in ToSet(onWire) : m \in 1 .. commands /\ ~(m < m)
    BY <1>1 DEF NoneDropped, Whole, WakeTypes
  <2> QED
    BY <1>1, <1>2, <2>1, <2>2 DEF Whole
<1>4. WakeTypes' /\ ToldOfLoss'
  BY <1>1, <1>2, <1>3 DEF WakeTypes, ToldOfLoss
<1>5. InTurn'
  BY <1>1, <1>2 DEF InTurn, Before
<1>6. Whole = Whole' \cup ToSet(onWire)
  BY <1>1, <1>2 DEF Whole
<1>7. NoneDropped' /\ Accounted'
  BY <1>1, <1>3, <1>6 DEF NoneDropped, Accounted
<1> QED
  BY <1>4, <1>5, <1>7 DEF WakeInv

LEMMA WakeTask ==
  ASSUME WakeInv, KioskCloses \/ PumpEnds \/ GateTask \/ DeviceStarts \/ GateFoundDead
                    \/ UNCHANGED gateVars
  PROVE  WakeInv'
<1> USE DEF deviceSide, gateVars, GateTask, GateConnects, GateRefuses,
            GateDialsAgain, LinkEnds, GateTold, KioskCloses, PumpEnds, DeviceStarts, GateFoundDead
<1>1. /\ WakeTypes /\ InTurn /\ NoneDropped /\ Accounted /\ ToldOfLoss
      /\ UNCHANGED <<commands, inbound, onWire, carried, dropped>>
  BY DEF WakeInv
<1>2. \/ UNCHANGED outbound /\ (gateClient' = "open" => gateClient = "open")
      \/ outbound' = <<>> /\ gateClient' = "closed"
  OBVIOUS
<1>3. ToSet(outbound') \subseteq ToSet(outbound) /\ Increasing(outbound') /\ outbound' \in Seq(Nat)
  BY <1>1, <1>2, Nothings DEF InTurn, WakeTypes
<1>4. WakeTypes'
  BY <1>1, <1>3 DEF WakeTypes
<1>5. ToldOfLoss'
  BY <1>1 DEF ToldOfLoss, WakeTypes
<1>6. InTurn'
  BY <1>1, <1>3 DEF InTurn, Before
<1>7. NoneDropped'
  BY <1>1, <1>3 DEF NoneDropped, Whole
<1>8. Accounted'
  BY <1>1, <1>2 DEF Accounted, Whole
<1> QED
  BY <1>4, <1>5, <1>6, <1>7, <1>8 DEF WakeInv

LEMMA WakeStep == WakeInv /\ [WakeBridgeNext]_gateVars => WakeInv'
BY WakeSends, WakeQueues, WakeWrites, WakeReads, WakeBreaks, WakeTask
DEF WakeBridgeNext, GatePump

LEMMA WakeInvMeans == WakeInv => CommandsArrive
<1> SUFFICES ASSUME WakeInv PROVE CommandsArrive
  OBVIOUS
<1>1. /\ onWire \in Seq(Nat) /\ outbound \in Seq(Nat) /\ inbound \in Seq(Nat)
      /\ InTurn /\ NoneDropped /\ Accounted /\ ToldOfLoss /\ dropped \subseteq 1 .. commands
  BY DEF WakeInv, WakeTypes
<1>2. \A i, j \in DOMAIN carried : i < j => carried[i] < carried[j]
  BY <1>1 DEF InTurn, Increasing
<1>3. ToSet(carried) \cap dropped = {}
  BY <1>1 DEF NoneDropped, Whole
<1> DEFINE way == onWire \o outbound \o inbound
<1>4. ToSet(way) = ToSet(onWire) \cup ToSet(outbound) \cup ToSet(inbound)
  <2> DEFINE front == onWire \o outbound
  <2>1. front \in Seq(Nat) /\ ToSet(front) = ToSet(onWire) \cup ToSet(outbound)
    BY <1>1, Behind
  <2>2. way = front \o inbound
    OBVIOUS
  <2> HIDE DEF front, way
  <2>3. ToSet(front \o inbound) = ToSet(front) \cup ToSet(inbound)
    BY <1>1, <2>1, Behind
  <2> QED
    BY <2>1, <2>2, <2>3
<1> HIDE DEF way
<1>5. ASSUME gateClient = "open" PROVE 1 .. commands = ToSet(carried) \cup dropped \cup ToSet(way)
  BY <1>1, <1>4, <1>5 DEF NoneDropped, Accounted, Whole
<1>6. gateClient = "open" /\ owed => gateLink \in {"broken", "silent"}
  BY <1>1 DEF ToldOfLoss
<1> QED
  BY <1>2, <1>3, <1>5, <1>6 DEF CommandsArrive, way

\* As far as the gate goes, a behaviour of Voice is one of the gate.
LEMMA WakePart == VoiceInit => WakeBridgeInit
BY DEF VoiceInit

LEMMA WakePartSteps == [VoiceNext]_voiceVars => [WakeBridgeNext]_gateVars
BY DEF VoiceNext, voiceVars, deviceLinks, Ask, vars, grantVars, speakerVars, gateVars

LEMMA WakeInvAlways == VoiceSpec => []WakeInv
<1>1. VoiceInit => WakeInv
  BY WakePart, WakeBegins
<1>2. WakeInv /\ [VoiceNext]_voiceVars => WakeInv'
  BY WakeStep, WakePartSteps
<1> QED
  BY <1>1, <1>2, PTL DEF VoiceSpec

\* While the kiosk's socket is open no command is lost but by being written
\* to a connection that is going, the device gets commands in order and once,
\* and the kiosk is told by the time such a connection is given up
\* (wake_invoke.py, _pump_client and _bridge_device), for any number of
\* commands and of breaks.
THEOREM CommandsAlwaysArrive == VoiceSpec => []CommandsArrive
BY WakeInvAlways, WakeInvMeans, PTL

-----------------------------------------------------------------------------
(***************************************************************************)
(* The network speaker.  The kiosk goes by the last frame it was sent: that *)
(* frame, or the kiosk itself when it has read all, is right about a link  *)
(* that is down, and about the sheds unless the reporter has been called.  *)
(* Without it a frame that said "up" could still be the last one on its    *)
(* way, and the next step could deliver it.                                *)
(***************************************************************************)
Frame == [link : {"up", "down"}, sheds : Nat, reconnects : Nat]

SpeakerTypes ==
  /\ speaker \in [route : {"screen", "invoke"}, socket : {"none", "retry", "opening", "open"},
                  healthy : BOOLEAN, sheds : Nat, reconnects : Nat]
  /\ stats \in Frame /\ statuses \in Seq(Frame)
  /\ connects \in Nat /\ audioBuffer \in Seq(Nat)
  /\ shedding \in [signal : BOOLEAN, resting : BOOLEAN]
  /\ forwarder # "ended" <=> speaker.socket = "open"
  /\ speaker.socket # "open" => statuses = <<>> /\ ~speaker.healthy /\ ~shedding.signal

FreshSound == stats.link = "up" => audioBuffer \in Seq({connects})

DropTold ==
  stats.link = "down" =>
    IF statuses = <<>> THEN ~speaker.healthy ELSE Last(statuses).link = "down"

ShedTold ==
  speaker.socket = "open" /\ ~shedding.signal =>
    IF statuses = <<>> THEN speaker.sheds = stats.sheds ELSE Last(statuses).sheds = stats.sheds

SpeakerInv == SpeakerTypes /\ FreshSound /\ DropTold /\ ShedTold

\* The frame just sent is the last one.
LEMMA Telling ==
  ASSUME NEW s \in Seq(Frame), NEW f \in Frame
  PROVE  Append(s, f) \in Seq(Frame) /\ Append(s, f) # <<>> /\ Last(Append(s, f)) = f
BY DEF Last

\* A frame is read: the last one stays the last, or it was the one read.
LEMMA Reading ==
  ASSUME NEW s \in Seq(Frame), s # <<>>
  PROVE  /\ Tail(s) \in Seq(Frame) /\ Head(s) \in Frame
         /\ Tail(s) = <<>> => Head(s) = Last(s)
         /\ Tail(s) # <<>> => Last(Tail(s)) = Last(s)
<1>1. /\ Tail(s) \in Seq(Frame) /\ Head(s) = s[1] /\ Head(s) \in Frame
      /\ Len(s) \in Nat \ {0} /\ Len(Tail(s)) = Len(s) - 1
      /\ \A i \in 1 .. (Len(s) - 1) : Tail(s)[i] = s[i + 1]
  OBVIOUS
<1>2. Tail(s) = <<>> => Len(s) = 1
  BY <1>1, EmptySeq
<1>3. Tail(s) # <<>> => Len(s) - 1 \in 1 .. (Len(s) - 1)
  BY <1>1, EmptySeq
<1> QED
  BY <1>1, <1>2, <1>3 DEF Last

LEMMA Fresh == NoStats \in Frame /\ <<NoStats>> \in Seq(Frame) /\ <<NoStats>> # <<>>
               /\ Last(<<NoStats>>) = NoStats
BY DEF NoStats, Frame, Last

LEMMA SpeakerBegins == SpeakerInit => SpeakerInv
BY DEF SpeakerInit, SpeakerInv, SpeakerTypes, FreshSound, DropTold, ShedTold, Frame, NoStats,
       OnScreen, StillReporter

\* What changes neither frame nor numbers: only the sound may.
LEMMA SpeakerOn ==
  ASSUME SpeakerInv, UNCHANGED <<speaker, statuses, stats, connects, shedding>>,
         forwarder' # "ended" <=> forwarder # "ended",
         audioBuffer' = audioBuffer \/ audioBuffer' = <<>>
  PROVE  SpeakerInv'
<1>1. /\ SpeakerTypes /\ FreshSound /\ DropTold /\ ShedTold
      /\ speaker' = speaker /\ statuses' = statuses /\ stats' = stats
      /\ connects' = connects /\ shedding' = shedding
  BY DEF SpeakerInv
<1>0. <<>> \in Seq(Nat) /\ <<>> \in Seq({connects})
  OBVIOUS
<1>2. SpeakerTypes'
  <2>1. audioBuffer' \in Seq(Nat)
    BY <1>0, <1>1 DEF SpeakerTypes
  <2> QED
    BY <1>1, <2>1 DEF SpeakerTypes
<1>3. FreshSound'
  BY <1>0, <1>1 DEF FreshSound
<1>4. DropTold' /\ ShedTold'
  BY <1>1 DEF DropTold, ShedTold
<1> QED
  BY <1>2, <1>3, <1>4 DEF SpeakerInv

\* A frame is sent as things are now.
LEMMA SpeakerTells ==
  ASSUME SpeakerInv, speaker.socket = "open", SendStatus, stats' \in Frame,
         UNCHANGED <<speaker, connects>>, forwarder' # "ended",
         stats'.link = "up" => stats.link = "up", UNCHANGED audioBuffer,
         shedding' \in [signal : BOOLEAN, resting : BOOLEAN]
  PROVE  SpeakerInv'
<1>1. SpeakerTypes /\ FreshSound /\ statuses \in Seq(Frame)
  BY DEF SpeakerInv, SpeakerTypes
<1>2. statuses' \in Seq(Frame) /\ statuses' # <<>> /\ Last(statuses') = stats'
  BY <1>1, Telling DEF SendStatus
<1>3. SpeakerTypes'
  BY <1>1, <1>2 DEF SpeakerTypes
<1>4. FreshSound'
  BY <1>1 DEF FreshSound
<1>5. DropTold' /\ ShedTold'
  BY <1>2 DEF DropTold, ShedTold
<1> QED
  BY <1>3, <1>4, <1>5 DEF SpeakerInv

\* The socket goes, or another route is taken.
LEMMA BridgeIsOver ==
  ASSUME SpeakerInv, BridgeEnds, speaker'.socket # "open", ~speaker'.healthy,
         speaker' \in [route : {"screen", "invoke"}, socket : {"none", "retry", "opening", "open"},
                       healthy : BOOLEAN, sheds : Nat, reconnects : Nat]
  PROVE  SpeakerInv'
<1>1. /\ statuses' = <<>> /\ stats' = NoStats /\ audioBuffer' = <<>> /\ connects' = 0
      /\ shedding' = StillReporter /\ forwarder' = "ended"
  BY DEF BridgeEnds
<1>2. SpeakerTypes'
  BY <1>1, Fresh DEF SpeakerTypes, StillReporter
<1>3. FreshSound' /\ DropTold' /\ ShedTold'
  BY <1>1 DEF FreshSound, DropTold, ShedTold, NoStats
<1> QED
  BY <1>2, <1>3 DEF SpeakerInv

LEMMA SocketStep ==
  ASSUME SpeakerInv,
         (\E selection \in {"screen", "invoke"} : RouteTo(selection)) \/ SocketOpens \/ Reconnects \/ SocketGone
  PROVE  SpeakerInv'
<1>1. SpeakerTypes /\ FreshSound /\ DropTold /\ ShedTold
  BY DEF SpeakerInv
<1>2. ASSUME NEW selection \in {"screen", "invoke"}, RouteTo(selection) PROVE SpeakerInv'
  BY <1>2, BridgeIsOver DEF RouteTo, OnScreen
<1>3. CASE SocketOpens
  <2>1. /\ statuses' = <<NoStats>> /\ stats' = NoStats /\ audioBuffer' = <<>> /\ connects' = 0
        /\ shedding' = StillReporter /\ forwarder' = "dial"
        /\ speaker' = [speaker EXCEPT !.socket = "open", !.sheds = 0, !.reconnects = 0]
    BY <1>3 DEF SocketOpens, BridgeBegins
  <2>2. SpeakerTypes'
    <3>1. /\ speaker'.socket = "open"
          /\ speaker' \in [route : {"screen", "invoke"}, socket : {"none", "retry", "opening", "open"},
                            healthy : BOOLEAN, sheds : Nat, reconnects : Nat]
      BY <1>1, <2>1 DEF SpeakerTypes
    <3>2. shedding' \in [signal : BOOLEAN, resting : BOOLEAN]
      BY <2>1 DEF StillReporter
    <3>3. audioBuffer' \in Seq(Nat) /\ connects' \in Nat
      BY <2>1
    <3> QED
      BY <2>1, <3>1, <3>2, <3>3, Fresh DEF SpeakerTypes
  <2>3. FreshSound' /\ DropTold' /\ ShedTold'
    BY <1>1, <2>1, Fresh DEF FreshSound, DropTold, ShedTold, NoStats
  <2> QED
    BY <2>2, <2>3 DEF SpeakerInv
<1>4. CASE Reconnects
  <2>1. /\ speaker' = [speaker EXCEPT !.socket = "opening"] /\ speaker.socket = "retry"
        /\ UNCHANGED <<statuses, stats, audioBuffer, shedding, forwarder, connects>>
    BY <1>4 DEF Reconnects, bridgeVars
  <2>2. SpeakerTypes'
    BY <1>1, <2>1 DEF SpeakerTypes
  <2>3. FreshSound' /\ DropTold' /\ ShedTold'
    BY <1>1, <2>1 DEF FreshSound, DropTold, ShedTold, SpeakerTypes
  <2> QED
    BY <2>2, <2>3 DEF SpeakerInv
<1>5. CASE SocketGone
  <2>1. BridgeEnds /\ speaker' = [speaker EXCEPT !.socket = "retry", !.healthy = FALSE]
    BY <1>5 DEF SocketGone
  <2> QED
    BY <1>1, <2>1, BridgeIsOver DEF SpeakerTypes
<1> QED
  BY <1>2, <1>3, <1>4, <1>5

LEMMA FrameStep == ASSUME SpeakerInv, StatusShown PROVE SpeakerInv'
<1> DEFINE frame == Head(statuses)
<1>1. /\ SpeakerTypes /\ FreshSound /\ DropTold /\ ShedTold
      /\ statuses \in Seq(Frame) /\ statuses # <<>> /\ statuses' = Tail(statuses)
      /\ speaker' = [speaker EXCEPT !.healthy = Healthy(frame), !.sheds = frame.sheds,
                                    !.reconnects = frame.reconnects]
      /\ UNCHANGED <<stats, audioBuffer, shedding, forwarder, connects>>
  BY DEF SpeakerInv, SpeakerTypes, StatusShown, bridgeVars
<1>2. /\ statuses' \in Seq(Frame) /\ frame \in Frame
      /\ statuses' = <<>> => frame = Last(statuses)
      /\ statuses' # <<>> => Last(statuses') = Last(statuses)
  BY <1>1, Reading
<1>3. frame.link = "down" => ~Healthy(frame)
  BY DEF Healthy
<1>4. Healthy(frame) \in BOOLEAN
  BY DEF Healthy
<1> HIDE DEF frame
<1>5. speaker.socket = "open" /\ speaker'.socket = "open" /\ speaker'.healthy = Healthy(frame)
      /\ speaker'.sheds = frame.sheds
  BY <1>1 DEF SpeakerTypes
<1>6. SpeakerTypes'
  BY <1>1, <1>2, <1>4, <1>5 DEF SpeakerTypes, Frame
<1>7. FreshSound'
  BY <1>1 DEF FreshSound
<1>8. DropTold'
  BY <1>1, <1>2, <1>3, <1>5 DEF DropTold
<1>9. ShedTold'
  BY <1>1, <1>2, <1>5 DEF ShedTold
<1> QED
  BY <1>6, <1>7, <1>8, <1>9 DEF SpeakerInv

LEMMA SoundStep == ASSUME SpeakerInv, Sound PROVE SpeakerInv'
<1> DEFINE all == Append(audioBuffer, connects)
           over == Len(all) > BufferMax
<1>1. /\ SpeakerTypes /\ FreshSound /\ DropTold /\ ShedTold
      /\ audioBuffer' = IF over THEN SubSeq(all, Len(all) - BufferMax \div 2 + 1, Len(all)) ELSE all
      /\ stats' = IF over THEN [stats EXCEPT !.sheds = @ + 1] ELSE stats
      /\ shedding' = [shedding EXCEPT !.signal = @ \/ over]
      /\ UNCHANGED <<speaker, statuses, forwarder, connects>> /\ forwarder # "ended"
  BY DEF SpeakerInv, Sound
<1>2. ASSUME NEW S, audioBuffer \in Seq(S), connects \in S PROVE audioBuffer' \in Seq(S)
  <2>1. all \in Seq(S) /\ Len(all) \in Nat /\ \A i \in 1 .. Len(all) : all[i] \in S
    BY <1>2
  <2>2. CASE over
    <3>1. /\ Len(all) - BufferMax \div 2 + 1 \in Int /\ 1 <= Len(all) - BufferMax \div 2 + 1
          /\ Len(all) \in Int
      BY <2>1, <2>2, SpeakerAssumption
    <3>2. \A i \in (Len(all) - BufferMax \div 2 + 1) .. Len(all) : all[i] \in S
      BY <2>1, <3>1
    <3> HIDE DEF all
    <3>3. SubSeq(all, Len(all) - BufferMax \div 2 + 1, Len(all)) \in Seq(S)
      BY <3>1, <3>2, SubSeqProperties
    <3> QED
      BY <1>1, <2>2, <3>3
  <2>3. CASE ~over
    BY <1>1, <2>1, <2>3
  <2> QED
    BY <2>2, <2>3
<1>3. over \in BOOLEAN
  OBVIOUS
<1> HIDE DEF over
<1>4. /\ stats' \in Frame /\ stats'.link = stats.link
      /\ ~over => stats'.sheds = stats.sheds
  <2>1. stats \in [link : {"up", "down"}, sheds : Nat, reconnects : Nat]
    BY <1>1 DEF SpeakerTypes, Frame
  <2>2. CASE over
    <3>1. stats' = [stats EXCEPT !.sheds = stats.sheds + 1]
      BY <1>1, <2>2
    <3> QED
      BY <2>1, <2>2, <3>1 DEF Frame
  <2>3. CASE ~over
    BY <1>1, <2>1, <2>3 DEF Frame
  <2> QED
    BY <2>2, <2>3
<1>5. /\ shedding' \in [signal : BOOLEAN, resting : BOOLEAN]
      /\ shedding'.signal = (shedding.signal \/ over)
  BY <1>1, <1>3, Zenon DEF SpeakerTypes
<1>6. SpeakerTypes'
  <2>1. audioBuffer' \in Seq(Nat)
    BY <1>1, <1>2 DEF SpeakerTypes
  <2> QED
    BY <1>1, <1>4, <1>5, <2>1 DEF SpeakerTypes
<1>7. FreshSound'
  BY <1>1, <1>2, <1>4 DEF FreshSound
<1>8. DropTold'
  BY <1>1, <1>4 DEF DropTold
<1>9. ShedTold'
  BY <1>1, <1>4, <1>5 DEF ShedTold
<1> QED
  BY <1>6, <1>7, <1>8, <1>9 DEF SpeakerInv

LEMMA ForwarderStep == ASSUME SpeakerInv, Forwarder PROVE SpeakerInv'
<1>1. SpeakerTypes /\ FreshSound /\ DropTold /\ ShedTold /\ stats \in Frame
  BY DEF SpeakerInv, SpeakerTypes
<1>2. CASE SpeakerConnects
  <2>1. /\ stats' = [stats EXCEPT !.link = "up"] /\ connects' = connects + 1
        /\ audioBuffer' = <<>> /\ forwarder = "dial" /\ forwarder' = "prime"
        /\ speaker' = speaker /\ statuses' = statuses /\ shedding' = shedding
    BY <1>2 DEF SpeakerConnects, DropsOldAudio
  <2>2. <<>> \in Seq(Nat) /\ <<>> \in Seq({connects'})
    OBVIOUS
  <2>3. stats' \in Frame /\ stats'.link = "up" /\ stats'.sheds = stats.sheds
    BY <1>1, <2>1 DEF Frame
  <2>4. SpeakerTypes'
    BY <1>1, <2>1, <2>2, <2>3 DEF SpeakerTypes
  <2>5. FreshSound' /\ DropTold'
    BY <2>1, <2>2, <2>3 DEF FreshSound, DropTold
  <2>6. ShedTold'
    BY <1>1, <2>1, <2>3 DEF ShedTold
  <2> QED
    BY <2>4, <2>5, <2>6 DEF SpeakerInv
<1>3. CASE SpeakerRefuses
  BY <1>1, <1>3, SpeakerTells DEF SpeakerRefuses, SpeakerTypes
<1>4. CASE SpeakerDialsAgain
  BY <1>4, SpeakerOn DEF SpeakerDialsAgain
<1>5. CASE Primed
  <2>1. CASE stats' = stats /\ SendStatus /\ forwarder' = "wait"
    BY <1>1, <1>5, <2>1, SpeakerTells DEF Primed, SpeakerTypes
  <2>2. CASE SendFails /\ UNCHANGED <<stats, statuses>>
    BY <1>5, <2>2, SpeakerOn DEF Primed, SendFails
  <2> QED
    BY <1>5, <2>1, <2>2 DEF Primed
<1>6. CASE Forwards
  BY <1>6, SpeakerOn DEF Forwards
<1>7. CASE Forwarded
  BY <1>7, SpeakerOn DEF Forwarded, SendFails
<1>8. CASE SpeakerDrops
  <2>1. /\ stats' = [stats EXCEPT !.link = "down", !.reconnects = @ + 1]
        /\ SendStatus /\ forwarder = "close" /\ forwarder' = "backoff"
        /\ UNCHANGED <<speaker, audioBuffer, shedding, connects>>
    BY <1>8 DEF SpeakerDrops
  <2>2. stats' \in Frame /\ stats'.link = "down"
    <3>1. stats.sheds \in Nat /\ stats.reconnects \in Nat
      BY <1>1 DEF Frame
    <3>2. stats' = [link |-> "down", sheds |-> stats.sheds, reconnects |-> stats.reconnects + 1]
      BY <1>1, <2>1 DEF Frame
    <3> QED
      BY <3>1, <3>2 DEF Frame
  <2> QED
    BY <1>1, <2>1, <2>2, SpeakerTells DEF SpeakerTypes
<1> QED
  BY <1>2, <1>3, <1>4, <1>5, <1>6, <1>7, <1>8 DEF Forwarder

LEMMA ReporterStep == ASSUME SpeakerInv, Ticks \/ ReportsShed \/ Rested PROVE SpeakerInv'
<1>1. SpeakerTypes /\ FreshSound /\ DropTold /\ ShedTold /\ stats \in Frame
  BY DEF SpeakerInv, SpeakerTypes
<1>2. CASE Ticks
  BY <1>1, <1>2, SpeakerTells DEF Ticks, SpeakerTypes
<1>3. CASE ReportsShed
  <2>1. /\ shedding' = [signal |-> FALSE, resting |-> TRUE] /\ stats' = stats /\ SendStatus
        /\ UNCHANGED <<speaker, audioBuffer, forwarder, connects>> /\ speaker.socket = "open"
    BY <1>1, <1>3 DEF ReportsShed, SpeakerTypes
  <2> QED
    BY <1>1, <2>1, SpeakerTells DEF SpeakerTypes
<1>4. CASE Rested
  <2>1. /\ shedding' = [shedding EXCEPT !.resting = FALSE]
        /\ speaker' = speaker /\ statuses' = statuses /\ stats' = stats /\ audioBuffer' = audioBuffer
        /\ forwarder' = forwarder /\ connects' = connects
    BY <1>4 DEF Rested
  <2>2. shedding' \in [signal : BOOLEAN, resting : BOOLEAN] /\ shedding'.signal = shedding.signal
    BY <1>1, <2>1 DEF SpeakerTypes
  <2>3. SpeakerTypes'
    BY <1>1, <2>1, <2>2 DEF SpeakerTypes
  <2>4. FreshSound' /\ DropTold' /\ ShedTold'
    BY <1>1, <2>1, <2>2 DEF FreshSound, DropTold, ShedTold
  <2> QED
    BY <2>3, <2>4 DEF SpeakerInv
<1> QED
  BY <1>2, <1>3, <1>4

LEMMA SpeakerStep == SpeakerInv /\ [SpeakerNext]_speakerVars => SpeakerInv'
<1>1. ASSUME SpeakerInv, UNCHANGED speakerVars PROVE SpeakerInv'
  BY <1>1, SpeakerOn DEF speakerVars
<1>2. ASSUME SpeakerInv, (\E how \in {"ended", "silent"} : DeviceGoes(how)) \/ DeviceBack \/ Probed
      PROVE  SpeakerInv'
  BY <1>2, SpeakerOn DEF DeviceGoes, DeviceBack, Probed, bridgeVars
<1> QED
  BY <1>1, <1>2, SocketStep, FrameStep, SoundStep, ForwarderStep, ReporterStep DEF SpeakerNext

LEMMA SpeakerInvMeans == SpeakerInv => SpeakerIsHeard
<1> SUFFICES ASSUME SpeakerInv PROVE SpeakerIsHeard
  OBVIOUS
<1>1. SpeakerTypes /\ FreshSound /\ DropTold /\ ShedTold
  BY DEF SpeakerInv
<1>2. stats.link = "up" => \A k \in DOMAIN audioBuffer : audioBuffer[k] = connects
  <2>1. ASSUME audioBuffer \in Seq({connects}), NEW k \in DOMAIN audioBuffer
        PROVE  audioBuffer[k] = connects
    BY <2>1
  <2> QED
    BY <1>1, <2>1 DEF FreshSound
<1>3. statuses # <<>> => Len(statuses) \in DOMAIN statuses
  BY <1>1 DEF SpeakerTypes
<1>4. Muted /\ stats.link = "down" => \E k \in DOMAIN statuses : statuses[k].link = "down"
  BY <1>1, <1>3 DEF DropTold, Muted, Last
<1>5. Muted /\ stats.sheds > speaker.sheds =>
        shedding.signal \/ \E k \in DOMAIN statuses : statuses[k].sheds = stats.sheds
  <2>1. stats.sheds \in Nat /\ speaker.sheds \in Nat
    BY <1>1 DEF SpeakerTypes, Frame
  <2>2. ~(stats.sheds > stats.sheds)
    BY <2>1
  <2> QED
    BY <1>1, <1>3, <2>2 DEF ShedTold, Muted, Last
<1> QED
  BY <1>2, <1>4, <1>5 DEF SpeakerIsHeard

LEMMA SpeakerPart == VoiceInit => SpeakerInit
BY DEF VoiceInit

LEMMA SpeakerPartSteps == [VoiceNext]_voiceVars => [SpeakerNext]_speakerVars
BY DEF VoiceNext, voiceVars, deviceLinks, Ask, vars, grantVars, speakerVars, gateVars

LEMMA SpeakerInvAlways == VoiceSpec => []SpeakerInv
<1>1. VoiceInit => SpeakerInv
  BY SpeakerPart, SpeakerBegins
<1>2. SpeakerInv /\ [VoiceNext]_voiceVars => SpeakerInv'
  BY SpeakerStep, SpeakerPartSteps
<1> QED
  BY <1>1, <1>2, PTL DEF VoiceSpec

\* What is played belongs to its connection, and the screen does not stay mute
\* over a device that the bridge knows is not heard: the link that went down,
\* or the sound that was shed, is on its way to the kiosk (speaker.py,
\* _bridge_device, _shed_reporter and _pump_client; speakerOut.ts, onmessage),
\* for a buffer of any size and any number of sheds, frames and breaks.
THEOREM SpeakerIsAlwaysHeard == VoiceSpec => []SpeakerIsHeard
BY SpeakerInvAlways, SpeakerInvMeans, PTL

-----------------------------------------------------------------------------
(***************************************************************************)
(* The local turns.  A turn that shares its recogniser with no other turn  *)
(* finds in it what it has said itself: Begin empties a recogniser and     *)
(* notes, in mixed, whoever was using it.                                  *)
(***************************************************************************)
Fields == {"at", "rec", "inbox", "chunks", "ended", "finalized", "heard", "calls", "told"}
Speaking(k) == conn[k].at \notin {"closed", "build"}
Building == {k \in Kiosks : conn[k].at = "build"}

LocalTypes ==
  /\ DOMAIN conn = Kiosks /\ \A k \in Kiosks : DOMAIN conn[k] = Fields
  /\ turns \in [Kiosks -> Nat] /\ DOMAIN buffer = Recognizers
  /\ built \in Nat /\ shared \in 0 .. built /\ (shared = 0 => built = 0)
  /\ \A k \in Kiosks : Speaking(k) => conn[k].rec \in 1 .. built
  /\ \A k \in Kiosks : ~Speaking(k) => conn[k].rec = 0 /\ conn[k].heard = {}

\* No more recognisers are built than there are kiosks.
Room == built + Cardinality(Building) <= Cardinality(Kiosks)

\* What kiosk k is sure of while its turn shares with no other.
Alone(k) ==
  /\ conn[k].heard \subseteq {Turn(k)}
  /\ Speaking(k) => /\ buffer[conn[k].rec] \subseteq {Turn(k)}
                    /\ \A j \in Kiosks \ {k} : ~(Speaking(j) /\ conn[j].rec = conn[k].rec)

LocalInv == LocalTypes /\ Room /\ \A k \in Kiosks : Turn(k) \notin mixed => Alone(k)

LEMMA ClosedFields ==
  /\ DOMAIN Closed = Fields /\ Closed.at = "closed" /\ Closed.rec = 0 /\ Closed.heard = {}
  /\ \A r : LET c == [Closed EXCEPT !.at = "receive", !.rec = r]
            IN DOMAIN c = Fields /\ c.at = "receive" /\ c.rec = r /\ c.heard = {}
  /\ LET c == [Closed EXCEPT !.at = "build"]
     IN DOMAIN c = Fields /\ c.at = "build" /\ c.rec = 0 /\ c.heard = {}
BY DEF Closed, Fields

LEMMA Counting ==
  /\ Cardinality(Kiosks) \in Nat
  /\ \A S \in SUBSET Kiosks : IsFiniteSet(S) /\ Cardinality(S) \in Nat /\ Cardinality(S) <= Cardinality(Kiosks)
  /\ \A S \in SUBSET Kiosks, k \in Kiosks :
       k \in S => Cardinality(S \ {k}) = Cardinality(S) - 1
BY LocalVoiceAssumption, FS_Subset, FS_CardinalityType, FS_RemoveElement

LEMMA LocalBegins == Init => LocalInv
<1> SUFFICES ASSUME Init PROVE LocalInv
  OBVIOUS
<1>1. /\ shared = 0 /\ built = 0 /\ buffer = [r \in Recognizers |-> {}]
      /\ conn = [k \in Kiosks |-> Closed] /\ turns = [k \in Kiosks |-> 0] /\ mixed = {}
  BY DEF Init
<1>2. \A k \in Kiosks : conn[k] = Closed /\ ~Speaking(k)
  BY <1>1, ClosedFields DEF Speaking
<1>3. LocalTypes
  BY <1>1, <1>2, ClosedFields DEF LocalTypes
<1>4. Building = {}
  BY <1>2, ClosedFields DEF Building
<1>5. Room
  BY <1>1, <1>4, Counting, FS_EmptySet DEF Room
<1>6. \A k \in Kiosks : Alone(k)
  BY <1>2, ClosedFields DEF Alone
<1> QED
  BY <1>3, <1>5, <1>6 DEF LocalInv

\* A turn goes on: its recogniser stays, and what it hears is what is in it.
LEMMA TurnGoesOn ==
  ASSUME LocalInv, NEW k \in Kiosks, Speaking(k),
         UNCHANGED <<shared, built, buffer, turns, mixed>>,
         DOMAIN conn' = Kiosks, \A j \in Kiosks \ {k} : conn'[j] = conn[j],
         DOMAIN conn'[k] = Fields, conn'[k].at \notin {"closed", "build"}, conn'[k].rec = conn[k].rec,
         conn'[k].heard = conn[k].heard \/ conn'[k].heard = buffer[conn[k].rec]
  PROVE  LocalInv'
<1>1. LocalTypes /\ Room /\ \A j \in Kiosks : Turn(j) \notin mixed => Alone(j)
  BY DEF LocalInv
<1>2. \A j \in Kiosks : /\ Speaking(j)' = Speaking(j) /\ Turn(j)' = Turn(j)
                        /\ conn'[j].rec = conn[j].rec /\ DOMAIN conn'[j] = DOMAIN conn[j]
                        /\ conn'[j].at = "build" <=> conn[j].at = "build"
  BY <1>1 DEF Speaking, Turn, LocalTypes
<1>3. LocalTypes'
  BY <1>1, <1>2 DEF LocalTypes, Recognizers
<1>4. Room'
  <2>1. Building' = Building
    BY <1>2 DEF Building
  <2> QED
    BY <1>1, <2>1 DEF Room
<1>5. ASSUME NEW j \in Kiosks, Turn(j)' \notin mixed'
      PROVE  Alone(j)'
  <2>1. Alone(j)
    BY <1>1, <1>2, <1>5
  <2>2. conn'[j].heard \subseteq {Turn(j)}
    BY <2>1 DEF Alone
  <2>3. Speaking(j) => /\ buffer[conn[j].rec] \subseteq {Turn(j)}
                       /\ \A i \in Kiosks \ {j} : ~(Speaking(i) /\ conn[i].rec = conn[j].rec)
    BY <2>1 DEF Alone
  <2> QED
    BY <1>2, <2>2, <2>3 DEF Alone
<1> QED
  BY <1>3, <1>4, <1>5 DEF LocalInv

\* A turn begins: whoever was using the recogniser is mixed from now on.
LEMMA TurnBegins ==
  ASSUME LocalInv, NEW k \in Kiosks, ~Speaking(k), NEW r \in Recognizers, NEW turn,
         Begin(k, r, turn), turn = Turn(k)', Room',
         turns' \in [Kiosks -> Nat], \A j \in Kiosks \ {k} : turns'[j] = turns[j],
         built' \in Nat, built <= built', shared' \in 1 .. built', r \in 1 .. built'
  PROVE  LocalInv'
<1> DEFINE others == {j \in Kiosks \ {k} : conn[j].rec = r /\ conn[j].at # "closed"}
<1>1. /\ LocalTypes /\ \A j \in Kiosks : Turn(j) \notin mixed => Alone(j)
      /\ buffer' = [buffer EXCEPT ![r] = {}]
      /\ conn' = [conn EXCEPT ![k] = [Closed EXCEPT !.at = "receive", !.rec = r]]
      /\ mixed' = mixed \cup (IF others = {} THEN {} ELSE {turn} \cup {Turn(j) : j \in others})
  BY DEF LocalInv, Begin, Reset
<1>2. /\ DOMAIN conn' = Kiosks /\ \A j \in Kiosks \ {k} : conn'[j] = conn[j]
      /\ DOMAIN conn'[k] = Fields /\ conn'[k].at = "receive" /\ conn'[k].rec = r /\ conn'[k].heard = {}
  BY <1>1, ClosedFields DEF LocalTypes
<1>3. /\ DOMAIN buffer' = Recognizers /\ buffer'[r] = {}
      /\ \A q \in Recognizers \ {r} : buffer'[q] = buffer[q]
  BY <1>1 DEF LocalTypes
<1>4. Speaking(k)' /\ \A j \in Kiosks \ {k} : Speaking(j)' = Speaking(j) /\ Turn(j)' = Turn(j)
  BY <1>2 DEF Speaking, Turn
<1>5. LocalTypes'
  <2>1. \A j \in Kiosks : Speaking(j)' => conn'[j].rec \in 1 .. built'
    BY <1>1, <1>2, <1>4 DEF LocalTypes
  <2>2. \A j \in Kiosks : ~Speaking(j)' => conn'[j].rec = 0 /\ conn'[j].heard = {}
    BY <1>1, <1>2, <1>4 DEF LocalTypes
  <2>3. \A j \in Kiosks : DOMAIN conn'[j] = Fields
    BY <1>1, <1>2 DEF LocalTypes
  <2>4. shared' \in 0 .. built' /\ (shared' = 0 => built' = 0)
    OBVIOUS
  <2>5. DOMAIN buffer' = Recognizers'
    BY <1>3 DEF Recognizers
  <2> QED
    BY <1>2, <2>1, <2>2, <2>3, <2>4, <2>5 DEF LocalTypes
<1>6. \A j \in Kiosks \ {k} : j \in others <=> Speaking(j) /\ conn[j].rec = r
  BY <1>1 DEF LocalTypes, Speaking
<1>7. others # {} => turn \in mixed' /\ \A j \in others : Turn(j) \in mixed'
  BY <1>1
<1>8. mixed \subseteq mixed'
  BY <1>1
<1> HIDE DEF others
<1>9. ASSUME Turn(k)' \notin mixed'
      PROVE  Alone(k)'
  <2>1. others = {}
    BY <1>7, <1>9
  <2>2. \A j \in Kiosks \ {k} : ~(Speaking(j)' /\ conn'[j].rec = r)
    BY <1>2, <1>4, <1>6, <2>1
  <2> QED
    BY <1>2, <1>3, <2>2 DEF Alone
<1>10. ASSUME NEW j \in Kiosks \ {k}, Turn(j)' \notin mixed'
       PROVE  Alone(j)'
  <2>1. Turn(j) \notin mixed' /\ Alone(j)
    BY <1>1, <1>4, <1>8, <1>10
  <2>2. j \notin others
    BY <1>7, <2>1
  <2>3. conn'[j].heard \subseteq {Turn(j)'}
    BY <1>2, <1>4, <2>1 DEF Alone
  <2>4. ASSUME Speaking(j)
        PROVE  /\ buffer'[conn[j].rec] \subseteq {Turn(j)}
               /\ \A i \in Kiosks \ {j} : ~(Speaking(i)' /\ conn'[i].rec = conn[j].rec)
    <3>1. conn[j].rec # r
      BY <1>6, <2>2, <2>4
    <3>2. conn[j].rec \in Recognizers
      BY <1>1, <2>4, Counting DEF LocalTypes, LocalInv, Room, Recognizers, Building
    <3>3. buffer'[conn[j].rec] \subseteq {Turn(j)}
      BY <1>3, <2>1, <2>4, <3>1, <3>2 DEF Alone
    <3>4. \A i \in Kiosks \ {j} : ~(Speaking(i)' /\ conn'[i].rec = conn[j].rec)
      BY <1>2, <1>4, <2>1, <2>4, <3>1 DEF Alone
    <3> QED
      BY <3>3, <3>4
  <2>5. conn'[j] = conn[j] /\ Speaking(j)' = Speaking(j) /\ Turn(j)' = Turn(j)
    BY <1>2, <1>4
  <2> QED
    BY <2>3, <2>4, <2>5 DEF Alone
<1> QED
  BY <1>5, <1>9, <1>10 DEF LocalInv

LEMMA OpenStep == ASSUME LocalInv, NEW k \in Kiosks, Open(k) PROVE LocalInv'
<1>1. /\ LocalTypes /\ Room /\ \A j \in Kiosks : Turn(j) \notin mixed => Alone(j)
      /\ conn[k].at = "closed" /\ turns' = [turns EXCEPT ![k] = @ + 1]
      /\ UNCHANGED <<shared, built>>
  BY DEF LocalInv, Open
<1>2. /\ turns' \in [Kiosks -> Nat] /\ turns'[k] = turns[k] + 1
      /\ \A j \in Kiosks \ {k} : turns'[j] = turns[j]
  BY <1>1 DEF LocalTypes
<1>3. ~Speaking(k) /\ k \notin Building
  BY <1>1 DEF Speaking, Building
<1>4. CASE shared = 0
  <2>1. /\ conn' = [conn EXCEPT ![k] = [Closed EXCEPT !.at = "build"]]
        /\ UNCHANGED <<buffer, mixed>>
    BY <1>4 DEF Open
  <2>2. /\ DOMAIN conn' = Kiosks /\ \A j \in Kiosks \ {k} : conn'[j] = conn[j]
        /\ DOMAIN conn'[k] = Fields /\ conn'[k].at = "build" /\ conn'[k].rec = 0 /\ conn'[k].heard = {}
    BY <1>1, <2>1, ClosedFields DEF LocalTypes
  <2>3. ~Speaking(k)' /\ \A j \in Kiosks \ {k} : Speaking(j)' = Speaking(j) /\ Turn(j)' = Turn(j)
    BY <1>2, <2>2 DEF Speaking, Turn
  <2>4. LocalTypes'
    <3>1. \A j \in Kiosks : DOMAIN conn'[j] = Fields
      BY <1>1, <2>2 DEF LocalTypes
    <3>2. \A j \in Kiosks : Speaking(j)' => conn'[j].rec \in 1 .. built
      BY <1>1, <2>2, <2>3 DEF LocalTypes
    <3>3. \A j \in Kiosks : ~Speaking(j)' => conn'[j].rec = 0 /\ conn'[j].heard = {}
      BY <1>1, <2>2, <2>3 DEF LocalTypes
    <3> QED
      BY <1>1, <1>2, <2>1, <2>2, <3>1, <3>2, <3>3 DEF LocalTypes, Recognizers
  <2>5. Room'
    <3>1. Building' \in SUBSET Kiosks
      BY DEF Building
    <3>2. built' = 0
      BY <1>1, <1>4 DEF LocalTypes
    <3> QED
      BY <3>1, <3>2, Counting DEF Room
  <2>6. ASSUME NEW j \in Kiosks, Turn(j)' \notin mixed'
        PROVE  Alone(j)'
    <3>1. CASE j = k
      BY <2>2, <2>3, <3>1 DEF Alone
    <3>2. CASE j # k
      <4>1. Alone(j) /\ conn'[j] = conn[j] /\ Speaking(j)' = Speaking(j) /\ Turn(j)' = Turn(j)
        BY <1>1, <2>1, <2>2, <2>3, <2>6, <3>2
      <4>2. Speaking(j) => \A i \in Kiosks \ {j} : ~(Speaking(i)' /\ conn'[i].rec = conn[j].rec)
        BY <2>2, <2>3, <4>1 DEF Alone
      <4>3. /\ conn[j].heard \subseteq {Turn(j)}
            /\ Speaking(j) => buffer'[conn[j].rec] \subseteq {Turn(j)}
        BY <2>1, <4>1 DEF Alone
      <4> QED
        BY <4>1, <4>2, <4>3 DEF Alone
    <3> QED
      BY <3>1, <3>2
  <2> QED
    BY <2>4, <2>5, <2>6 DEF LocalInv
<1>5. CASE shared # 0
  <2>1. Begin(k, shared, <<k, turns[k] + 1>>) /\ <<k, turns[k] + 1>> = Turn(k)'
    BY <1>2, <1>5 DEF Open, Turn
  <2>2. shared \in 1 .. built /\ built \in Nat
    BY <1>1, <1>5 DEF LocalTypes
  <2>3. shared \in Recognizers
    BY <1>1, <2>2, Counting DEF Room, Recognizers, Building
  <2>4. Room'
    <3>1. conn'[k].at = "receive" /\ \A j \in Kiosks \ {k} : conn'[j] = conn[j]
      BY <1>1, <2>1, ClosedFields DEF Begin, LocalTypes
    <3>2. Building' = Building
      BY <1>3, <3>1 DEF Building
    <3> QED
      BY <1>1, <3>2 DEF Room
  <2> QED
    BY <1>1, <1>2, <1>3, <2>1, <2>2, <2>3, <2>4, TurnBegins
<1> QED
  BY <1>4, <1>5

LEMMA BuiltStep == ASSUME LocalInv, NEW k \in Kiosks, Built(k) PROVE LocalInv'
<1>1. /\ LocalTypes /\ Room /\ conn[k].at = "build"
      /\ built' = built + 1 /\ shared' = built + 1 /\ turns' = turns
      /\ Begin(k, built + 1, Turn(k))
  BY DEF LocalInv, Built
<1>2. ~Speaking(k) /\ k \in Building /\ Building \in SUBSET Kiosks
  BY <1>1 DEF Speaking, Building
<1>3. built \in Nat /\ Cardinality(Building) \in Nat /\ Cardinality(Kiosks) \in Nat
      /\ Cardinality(Building \ {k}) = Cardinality(Building) - 1
      /\ Cardinality(Building \ {k}) \in Nat
  <2>1. Building \ {k} \in SUBSET Kiosks
    BY <1>2
  <2> QED
    BY <1>1, <1>2, <2>1, Counting DEF LocalTypes
<1>4. Room'
  <2>1. conn'[k].at = "receive" /\ \A j \in Kiosks \ {k} : conn'[j] = conn[j]
    BY <1>1, ClosedFields DEF Begin, LocalTypes
  <2>2. Building' = Building \ {k}
    BY <2>1 DEF Building
  <2> QED
    BY <1>1, <1>3, <2>2 DEF Room
<1>5. built + 1 \in Recognizers
  BY <1>1, <1>3 DEF Room, Recognizers
<1>6. Turn(k)' = Turn(k) /\ turns' \in [Kiosks -> Nat] /\ \A j \in Kiosks \ {k} : turns'[j] = turns[j]
  BY <1>1 DEF Turn, LocalTypes
<1>7. /\ built' \in Nat /\ built <= built' /\ shared' \in 1 .. built' /\ built + 1 \in 1 .. built'
  BY <1>1, <1>3
<1> QED
  BY <1>1, <1>2, <1>4, <1>5, <1>6, <1>7, TurnBegins

LEMMA AcceptStep == ASSUME LocalInv, NEW k \in Kiosks, Accept(k) PROVE LocalInv'
<1> DEFINE r == conn[k].rec
           held == buffer[r] \cup {Turn(k)}
<1>1. /\ LocalTypes /\ Room /\ \A j \in Kiosks : Turn(j) \notin mixed => Alone(j)
      /\ conn[k].at = "accept" /\ UNCHANGED <<shared, built, turns, mixed>>
  BY DEF LocalInv, Accept
<1>2. /\ Speaking(k) /\ \A q \in Recognizers : buffer'[q] \subseteq buffer[q] \cup {Turn(k)}
      /\ \A q \in Recognizers \ {r} : buffer'[q] = buffer[q]
      /\ DOMAIN buffer' = Recognizers
  BY <1>1 DEF Accept, Speaking, LocalTypes
<1>3. /\ DOMAIN conn' = Kiosks /\ \A j \in Kiosks \ {k} : conn'[j] = conn[j]
      /\ DOMAIN conn'[k] = Fields /\ conn'[k].at \notin {"closed", "build"} /\ conn'[k].rec = r
      /\ conn'[k].heard = conn[k].heard \/ conn'[k].heard = held
  <2>1. DOMAIN conn = Kiosks /\ DOMAIN conn[k] = Fields
    BY <1>1 DEF LocalTypes
  <2>2. \/ conn' = [conn EXCEPT ![k].at = "receive"]
        \/ conn' = [conn EXCEPT ![k].at = "think", ![k].finalized = TRUE, ![k].heard = held]
    BY DEF Accept
  <2> QED
    BY <2>1, <2>2 DEF Fields
<1>4. r \in Recognizers
  BY <1>1, <1>2, Counting DEF LocalTypes, Room, Recognizers, Building
<1>5. \A j \in Kiosks : /\ Speaking(j)' = Speaking(j) /\ Turn(j)' = Turn(j)
                        /\ conn'[j].rec = conn[j].rec /\ DOMAIN conn'[j] = Fields
                        /\ conn'[j].at = "build" <=> conn[j].at = "build"
  BY <1>1, <1>2, <1>3 DEF Speaking, Turn, LocalTypes
<1>6. LocalTypes'
  <2>1. \A j \in Kiosks : ~Speaking(j) => conn'[j].heard = {}
    BY <1>1, <1>2, <1>3 DEF LocalTypes
  <2> QED
    BY <1>1, <1>2, <1>3, <1>5, <2>1 DEF LocalTypes, Recognizers
<1>7. Room'
  <2>1. Building' = Building
    BY <1>5 DEF Building
  <2> QED
    BY <1>1, <2>1 DEF Room
<1> HIDE DEF r, held
<1>8. ASSUME NEW j \in Kiosks, Turn(j)' \notin mixed'
      PROVE  Alone(j)'
  <2>1. Alone(j)
    BY <1>1, <1>5, <1>8
  <2>2. Speaking(j) => \A i \in Kiosks \ {j} : ~(Speaking(i)' /\ conn'[i].rec = conn[j].rec)
    BY <1>5, <2>1 DEF Alone
  <2>3. CASE j = k
    <3>1. buffer[r] \subseteq {Turn(k)} /\ conn[k].heard \subseteq {Turn(k)}
      BY <1>2, <2>1, <2>3 DEF Alone, r
    <3>2. buffer'[r] \subseteq {Turn(k)} /\ conn'[k].heard \subseteq {Turn(k)}
      BY <1>2, <1>3, <1>4, <3>1 DEF held
    <3> QED
      BY <1>3, <1>5, <2>2, <2>3, <3>2 DEF Alone
  <2>4. CASE j # k
    <3>1. Speaking(j) => conn[j].rec # r
      BY <1>2, <2>1, <2>4 DEF Alone, r
    <3>2. Speaking(j) => conn[j].rec \in Recognizers
      BY <1>1, Counting DEF LocalTypes, Room, Recognizers, Building
    <3>3. Speaking(j) => buffer'[conn[j].rec] \subseteq {Turn(j)}
      BY <1>2, <2>1, <3>1, <3>2 DEF Alone
    <3>4. conn'[j].heard \subseteq {Turn(j)}
      BY <1>3, <2>1, <2>4 DEF Alone
    <3> QED
      BY <1>5, <2>2, <3>3, <3>4 DEF Alone
  <2> QED
    BY <2>3, <2>4
<1> QED
  BY <1>6, <1>7, <1>8 DEF LocalInv

LEMMA CloseStep == ASSUME LocalInv, NEW k \in Kiosks, Close(k) PROVE LocalInv'
<1>1. /\ LocalTypes /\ Room /\ \A j \in Kiosks : Turn(j) \notin mixed => Alone(j)
      /\ conn' = [conn EXCEPT ![k] = Closed] /\ UNCHANGED <<shared, built, buffer, turns, mixed>>
      /\ conn[k].at # "build"
  BY DEF LocalInv, Close
<1>2. /\ DOMAIN conn' = Kiosks /\ conn'[k] = Closed /\ \A j \in Kiosks \ {k} : conn'[j] = conn[j]
  BY <1>1 DEF LocalTypes
<1>3. /\ ~Speaking(k)' /\ \A j \in Kiosks \ {k} : Speaking(j)' = Speaking(j)
      /\ \A j \in Kiosks : Turn(j)' = Turn(j)
  BY <1>1, <1>2, ClosedFields DEF Speaking, Turn
<1>4. LocalTypes'
  <2>1. \A j \in Kiosks : DOMAIN conn'[j] = Fields
    BY <1>1, <1>2, ClosedFields DEF LocalTypes
  <2>2. \A j \in Kiosks : Speaking(j)' => conn'[j].rec \in 1 .. built
    BY <1>1, <1>2, <1>3 DEF LocalTypes
  <2>3. \A j \in Kiosks : ~Speaking(j)' => conn'[j].rec = 0 /\ conn'[j].heard = {}
    BY <1>1, <1>2, <1>3, ClosedFields DEF LocalTypes
  <2> QED
    BY <1>1, <1>2, <2>1, <2>2, <2>3 DEF LocalTypes, Recognizers
<1>5. Room'
  <2>1. Building' = Building
    BY <1>1, <1>2, ClosedFields DEF Building
  <2> QED
    BY <1>1, <2>1 DEF Room
<1>6. ASSUME NEW j \in Kiosks, Turn(j)' \notin mixed'
      PROVE  Alone(j)'
  <2>1. CASE j = k
    BY <1>2, <1>3, <2>1, ClosedFields DEF Alone
  <2>2. CASE j # k
    <3>1. Alone(j)
      BY <1>1, <1>3, <1>6
    <3>2. /\ conn'[j] = conn[j] /\ Speaking(j)' = Speaking(j) /\ Turn(j)' = Turn(j)
          /\ Speaking(j) => \A i \in Kiosks \ {j} : ~(Speaking(i)' /\ conn'[i].rec = conn[j].rec)
      BY <1>2, <1>3, <2>2, <3>1 DEF Alone
    <3>3. /\ conn[j].heard \subseteq {Turn(j)}
          /\ Speaking(j) => buffer'[conn[j].rec] \subseteq {Turn(j)}
      BY <1>1, <3>1 DEF Alone
    <3> QED
      BY <3>2, <3>3 DEF Alone
  <2> QED
    BY <2>1, <2>2
<1> QED
  BY <1>4, <1>5, <1>6 DEF LocalInv

LEMMA TurnStep ==
  ASSUME LocalInv, NEW k \in Kiosks, Send(k) \/ Receive(k) \/ Finalize(k) \/ Think(k) \/ Timeout(k)
  PROVE  LocalInv'
<1> DEFINE Goes == /\ Speaking(k) /\ UNCHANGED <<shared, built, buffer, turns, mixed>>
                   /\ DOMAIN conn' = Kiosks /\ \A j \in Kiosks \ {k} : conn'[j] = conn[j]
                   /\ DOMAIN conn'[k] = Fields /\ conn'[k].at \notin {"closed", "build"}
                   /\ conn'[k].rec = conn[k].rec
                   /\ conn'[k].heard = conn[k].heard \/ conn'[k].heard = buffer[conn[k].rec]
<1>1. DOMAIN conn = Kiosks /\ DOMAIN conn[k] = Fields
  BY DEF LocalInv, LocalTypes
<1>2. CASE Send(k)
  <2>1. /\ conn[k].at \notin {"closed", "build"} /\ UNCHANGED <<shared, built, buffer, turns, mixed>>
    BY <1>2 DEF Send, Busy
  <2>2. ASSUME conn' = [conn EXCEPT ![k].inbox = Append(@, "audio"), ![k].chunks = @ + 1]
        PROVE  Goes
    BY <1>1, <2>1, <2>2 DEF Fields, Speaking
  <2>3. ASSUME conn' = [conn EXCEPT ![k].inbox = Append(@, "end"), ![k].ended = TRUE]
        PROVE  Goes
    BY <1>1, <2>1, <2>3 DEF Fields, Speaking
  <2>4. ASSUME conn' = [conn EXCEPT ![k].inbox = Append(@, "result"), ![k].calls = @ - 1]
        PROVE  Goes
    BY <1>1, <2>1, <2>4 DEF Fields, Speaking
  <2>5. Goes
    BY <1>2, <2>2, <2>3, <2>4 DEF Send
  <2> QED
    BY <2>5, TurnGoesOn
<1>3. CASE Receive(k)
  <2>1. /\ conn[k].at \in {"receive", "done"} /\ UNCHANGED <<shared, built, buffer, turns, mixed>>
        /\ \E next \in {"accept", "finalize", conn[k].at} :
             conn' = [conn EXCEPT ![k].inbox = Tail(@), ![k].at = next,
                                  ![k].finalized = @ \/ Head(conn[k].inbox) = "end"]
    BY <1>3 DEF Receive
  <2>2. Goes
    BY <1>1, <2>1 DEF Fields, Speaking
  <2> QED
    BY <2>2, TurnGoesOn
<1>4. CASE Finalize(k)
  <2>1. /\ conn[k].at = "finalize" /\ UNCHANGED <<shared, built, buffer, turns, mixed>>
        /\ \E at \in {"done", "think"}, told \in {{"complete"}, {}} :
             conn' = [conn EXCEPT ![k].at = at, ![k].heard = buffer[conn[k].rec], ![k].told = told]
    BY <1>4 DEF Finalize
  <2>2. Goes
    BY <1>1, <2>1 DEF Fields, Speaking
  <2> QED
    BY <2>2, TurnGoesOn
<1>5. CASE Think(k)
  <2>1. /\ conn[k].at = "think" /\ UNCHANGED <<shared, built, buffer, turns, mixed>>
        /\ \E at \in {"raised", "wait", "done"}, told \in SUBSET {"calls", "reply", "complete"}, n \in {Len(a.calls) : a \in Answers} :
             conn' = [conn EXCEPT ![k].at = at, ![k].calls = n, ![k].told = told]
    BY <1>5 DEF Think
  <2>2. Goes
    BY <1>1, <2>1 DEF Fields, Speaking
  <2> QED
    BY <2>2, TurnGoesOn
<1>6. CASE Timeout(k)
  <2>1. /\ conn[k].at = "wait" /\ UNCHANGED <<shared, built, buffer, turns, mixed>>
        /\ conn' = [conn EXCEPT ![k].at = "done", ![k].told = @ \cup {"reply", "complete"}]
    BY <1>6 DEF Timeout, GivesUp
  <2>2. Goes
    BY <1>1, <2>1 DEF Fields, Speaking
  <2> QED
    BY <2>2, TurnGoesOn
<1> QED
  BY <1>2, <1>3, <1>4, <1>5, <1>6

LEMMA LocalStep == LocalInv /\ [Next]_vars => LocalInv'
<1>1. ASSUME LocalInv, UNCHANGED vars PROVE LocalInv'
  BY <1>1 DEF vars, LocalInv, LocalTypes, Room, Alone, Building, Speaking, Turn
<1> QED
  BY <1>1, OpenStep, BuiltStep, AcceptStep, CloseStep, TurnStep DEF Next, Pipeline

LEMMA LocalPart == VoiceInit => Init
BY DEF VoiceInit

LEMMA LocalPartSteps == [VoiceNext]_voiceVars => [Next]_vars
BY DEF VoiceNext, voiceVars, deviceLinks, Ask, vars, grantVars, speakerVars, gateVars

LEMMA LocalInvAlways == VoiceSpec => []LocalInv
<1>1. VoiceInit => LocalInv
  BY LocalPart, LocalBegins
<1>2. LocalInv /\ [VoiceNext]_voiceVars => LocalInv'
  BY LocalStep, LocalPartSteps
<1> QED
  BY <1>1, <1>2, PTL DEF VoiceSpec

\* A transcript is of its own turn's speech unless another kiosk was in a turn
\* with the same recogniser (local/session.py, get_recognizer and
\* run_local_pipeline), for any number of kiosks, turns and frames.
THEOREM AlwaysHeardItself == VoiceSpec => []HeardItself
<1>1. LocalInv => HeardItself
  BY DEF LocalInv, Alone, HeardItself
<1> QED
  BY <1>1, LocalInvAlways, PTL

-----------------------------------------------------------------------------
(***************************************************************************)
(* The grants.  What is served from the cache is as good as what is minted *)
(* because a token ends at its horizon: the first moment at which its      *)
(* stamp could mislead.  The rest is what a request carries with it        *)
(* through the switch of the provider and the reset of the caches.         *)
(***************************************************************************)
Zone == {None} \cup UNION {Zones[r] : r \in Requests}
Request == [at : {"idle", "lock", "snapshot", "mint"}, now : Nat, zone : Zone,
            provider : Providers, boundaries : SUBSET Times]

GrantsTypes ==
  /\ provider \in Providers /\ pending \in BOOLEAN /\ agenda \subseteq Times
  /\ snapshot = None \/ snapshot \in [day : Nat, boundaries : SUBSET Times]
  /\ request \in [Requests -> Request]
  /\ lock \in Requests \cup {Nobody}
  /\ \A r \in Requests : request[r].at \in {"snapshot", "mint"} <=> lock = r

\* A token ends by the first moment at which its stamp could mislead.
Limited(t) ==
  /\ t.minted \in Nat /\ t.until \in Nat /\ t.boundaries \subseteq Times
  /\ t.minted < t.until /\ t.until <= t.minted + MaxStale /\ t.until <= NextMidnight(t.minted)
  /\ \A b \in t.boundaries : b > t.minted => t.until <= b

Current(s) ==
  /\ s.provider = s.asked /\ s.zone = s.askedZone
  /\ s.minted <= s.now /\ s.now < s.minted + MaxStale
  /\ Dayof(s.minted) = Dayof(s.now)
  /\ \A b \in s.boundaries : ~(s.minted < b /\ b <= s.now)

\* A ticket that can still be redeemed has opened nothing.
TicketsInv == \E n \in 0 .. MaxTickets :
  /\ DOMAIN tickets = 1 .. n /\ DOMAIN opened = 1 .. n
  /\ \A t \in 1 .. n : tickets[t] \in {"live", "expired", "gone"} /\ opened[t] \in {0, 1}
  /\ \A t \in 1 .. n : tickets[t] # "gone" => opened[t] = 0

GrantsInv ==
  /\ GrantsTypes /\ TicketsInv
  /\ token # None => Limited(token)
  /\ served # None => Current(served)

LEMMA Least ==
  ASSUME NEW S \in SUBSET Nat, S # {}
  PROVE  Min(S) \in S /\ \A x \in S : Min(S) <= x
<1> DEFINE R == OpToRel(<, Nat)
<1>1. \E x \in S : \A y \in S : ~(<<y, x>> \in R)
  <2>1. IsWellFoundedOn(R, Nat)
    BY NatLessThanWellFounded
  <2> HIDE DEF R
  <2> QED
    BY <2>1, WFMin
<1>2. \E x \in S : \A y \in S : x <= y
  <2>1. PICK x \in S : \A y \in S : ~(<<y, x>> \in R)
    BY <1>1
  <2>2. \A y \in S : ~(y < x)
    BY <2>1 DEF OpToRel
  <2> QED
    BY <2>2
<1> QED
  BY <1>2 DEF Min

LEMMA Days ==
  ASSUME NEW m \in Nat
  PROVE  /\ Dayof(m) \in Nat /\ NextMidnight(m) \in Nat /\ m < NextMidnight(m)
         /\ \A n \in Nat : m <= n /\ n < NextMidnight(m) => Dayof(m) = Dayof(n)
BY GrantsAssumption DEF Dayof, NextMidnight

LEMMA Horizon ==
  ASSUME NEW now \in Nat, NEW B \in SUBSET Times
  PROVE  /\ FreshnessHorizon(now, B) \in Nat
         /\ now < FreshnessHorizon(now, B) /\ FreshnessHorizon(now, B) <= now + MaxStale
         /\ FreshnessHorizon(now, B) <= NextMidnight(now)
         /\ \A b \in B : b > now => FreshnessHorizon(now, B) <= b
<1> DEFINE S == {now + MaxStale, NextMidnight(now)} \cup {b \in B : b > now}
<1>1. B \subseteq Nat /\ now + MaxStale \in Nat /\ now < now + MaxStale
  BY GrantsAssumption
<1>2. NextMidnight(now) \in Nat /\ now < NextMidnight(now)
  BY Days
<1>3. S \subseteq Nat /\ S # {} /\ \A x \in S : now < x
  BY <1>1, <1>2
<1>4. now + MaxStale \in S /\ NextMidnight(now) \in S /\ \A b \in B : b > now => b \in S
  OBVIOUS
<1>5. FreshnessHorizon(now, B) = Min(S)
  BY DEF FreshnessHorizon
<1> HIDE DEF S
<1>6. Min(S) \in S /\ \A x \in S : Min(S) <= x
  BY <1>3, Least
<1> QED
  BY <1>3, <1>4, <1>5, <1>6

\* A fresh token, or a grant minted just now, is current for its request.
LEMMA FreshIsCurrent ==
  ASSUME NEW q \in Request, token # None, Limited(token), IsFresh(q.now, q.zone, q.provider),
         Serve(q, token, token.boundaries)
  PROVE  served' # None => Current(served')
<1>1. served' = [provider |-> token.provider, asked |-> q.provider, zone |-> token.zone,
                 askedZone |-> q.zone, minted |-> token.minted, now |-> q.now,
                 boundaries |-> token.boundaries]
  BY DEF Serve
<1>2. /\ token.minted \in Nat /\ token.until \in Nat /\ q.now \in Nat
      /\ token.provider = q.provider /\ token.zone = q.zone
      /\ token.minted <= q.now /\ q.now < token.until
      /\ token.until <= token.minted + MaxStale /\ token.until <= NextMidnight(token.minted)
      /\ token.boundaries \subseteq Nat
      /\ \A b \in token.boundaries : b > token.minted => token.until <= b
  BY GrantsAssumption DEF Limited, IsFresh, Request
<1>3. NextMidnight(token.minted) \in Nat /\ token.minted + MaxStale \in Nat
  BY <1>2, Days, GrantsAssumption
<1>4. q.now < token.minted + MaxStale /\ q.now < NextMidnight(token.minted)
  BY <1>2, <1>3
<1>5. Dayof(token.minted) = Dayof(q.now)
  BY <1>2, <1>4, Days
<1>6. \A b \in token.boundaries : ~(token.minted < b /\ b <= q.now)
  BY <1>2
<1> QED
  BY <1>1, <1>2, <1>4, <1>5, <1>6 DEF Current

LEMMA MintedIsCurrent ==
  ASSUME NEW q \in Request, NEW m, m.provider = q.provider, m.zone = q.zone, m.minted = q.now,
         Serve(q, m, q.boundaries)
  PROVE  served' # None => Current(served')
<1>1. served' = [provider |-> q.provider, asked |-> q.provider, zone |-> q.zone,
                 askedZone |-> q.zone, minted |-> q.now, now |-> q.now, boundaries |-> q.boundaries]
  BY DEF Serve
<1>2. q.now \in Nat /\ q.boundaries \subseteq Nat
  BY GrantsAssumption DEF Request
<1>3. q.now <= q.now /\ q.now < q.now + MaxStale /\ \A b \in q.boundaries : ~(q.now < b /\ b <= q.now)
  BY <1>2, GrantsAssumption
<1> QED
  BY <1>1, <1>3 DEF Current

LEMMA IdleRequest == Idle \in Request /\ Idle.at = "idle"
BY DEF Idle, Request, Zone, Providers

LEMMA GrantsBegin == GrantsInit => GrantsInv
<1> SUFFICES ASSUME GrantsInit PROVE GrantsInv
  OBVIOUS
<1>1. /\ provider \in Providers /\ pending = FALSE /\ agenda \in Agendas
      /\ snapshot = None /\ token = None /\ lock = Nobody
      /\ request = [r \in Requests |-> Idle] /\ tickets = <<>> /\ opened = <<>> /\ served = None
  BY DEF GrantsInit
<1>2. GrantsTypes
  BY <1>1, IdleRequest, GrantsAssumption DEF GrantsTypes
<1>3. TicketsInv
  <2>1. DOMAIN tickets = 1 .. 0 /\ DOMAIN opened = 1 .. 0 /\ 0 \in 0 .. MaxTickets
    BY <1>1, GrantsAssumption
  <2> QED
    BY <2>1 DEF TicketsInv
<1> QED
  BY <1>1, <1>2, <1>3 DEF GrantsInv

\* A request moves on, and with it the lock.
LEMMA RequestMoves ==
  ASSUME GrantsTypes, NEW r \in Requests, NEW q \in Request,
         request' = [request EXCEPT ![r] = q],
         lock' \in Requests \cup {Nobody},
         q.at \in {"snapshot", "mint"} <=> lock' = r,
         \A s \in Requests \ {r} : lock' = s <=> lock = s,
         UNCHANGED <<provider, pending, agenda>>,
         snapshot' = None \/ snapshot' \in [day : Nat, boundaries : SUBSET Times]
  PROVE  GrantsTypes'
<1>1. request' \in [Requests -> Request]
  BY DEF GrantsTypes
<1>2. \A s \in Requests : request'[s] = IF s = r THEN q ELSE request[s]
  BY DEF GrantsTypes
<1>3. \A s \in Requests : request'[s].at \in {"snapshot", "mint"} <=> lock' = s
  BY <1>2 DEF GrantsTypes
<1> QED
  BY <1>1, <1>3 DEF GrantsTypes

LEMMA GetStep == ASSUME GrantsInv, NEW r \in Requests, Get(r) PROVE GrantsInv'
<1>1. /\ GrantsTypes /\ TicketsInv /\ (token # None => Limited(token))
      /\ UNCHANGED <<provider, pending, agenda, snapshot, token, lock, tickets, opened>>
      /\ request[r].at = "idle" /\ provider \in Providers
  BY DEF GrantsInv, GrantsTypes, Get
<1>2. TicketsInv' /\ (token' # None => Limited(token'))
  BY <1>1 DEF TicketsInv
<1>3. PICK now \in Times, zone \in Zones[r] :
        LET q == [Idle EXCEPT !.now = now, !.zone = zone, !.provider = provider]
        IN IF Reusable(provider) /\ IsFresh(now, zone, provider)
           THEN Serve(q, token, token.boundaries) /\ UNCHANGED request
           ELSE request' = [request EXCEPT ![r] = [q EXCEPT !.at = "lock"]] /\ served' = None
  BY DEF Get
<1> DEFINE q == [Idle EXCEPT !.now = now, !.zone = zone, !.provider = provider]
<1>4. /\ q \in Request /\ q.now = now /\ q.zone = zone /\ q.provider = provider
      /\ [q EXCEPT !.at = "lock"] \in Request /\ [q EXCEPT !.at = "lock"].at = "lock"
  <2>1. now \in Nat /\ zone \in Zone
    BY GrantsAssumption DEF Zone
  <2> QED
    BY <1>1, <2>1 DEF Idle, Request
<1>5. CASE Reusable(provider) /\ IsFresh(now, zone, provider)
  <2>1. Serve(q, token, token.boundaries) /\ request' = request
    BY <1>3, <1>5
  <2> HIDE DEF q
  <2>2. token # None /\ IsFresh(q.now, q.zone, q.provider)
    BY <1>4, <1>5 DEF IsFresh
  <2>3. served' # None => Current(served')
    BY <1>1, <1>4, <2>1, <2>2, FreshIsCurrent
  <2>4. GrantsTypes'
    BY <1>1, <2>1 DEF GrantsTypes
  <2> QED
    BY <1>2, <2>3, <2>4 DEF GrantsInv
<1>6. CASE ~(Reusable(provider) /\ IsFresh(now, zone, provider))
  <2>1. request' = [request EXCEPT ![r] = [q EXCEPT !.at = "lock"]] /\ served' = None
    BY <1>3, <1>6
  <2> HIDE DEF q
  <2>2. GrantsTypes'
    <3>1. lock \in Requests \cup {Nobody} /\ lock # r
      BY <1>1 DEF GrantsTypes
    <3>2. snapshot = None \/ snapshot \in [day : Nat, boundaries : SUBSET Times]
      BY <1>1 DEF GrantsTypes
    <3> QED
      BY <1>1, <1>4, <2>1, <3>1, <3>2, RequestMoves
  <2> QED
    BY <1>2, <2>1, <2>2 DEF GrantsInv
<1> QED
  BY <1>5, <1>6

LEMMA AcquireStep == ASSUME GrantsInv, NEW r \in Requests, Acquire(r) PROVE GrantsInv'
<1> DEFINE q == request[r]
<1>1. /\ GrantsTypes /\ TicketsInv /\ (token # None => Limited(token))
      /\ UNCHANGED <<provider, pending, agenda, snapshot, token, tickets, opened>>
      /\ q.at = "lock" /\ lock = Nobody /\ q \in Request
      /\ snapshot = None \/ snapshot \in [day : Nat, boundaries : SUBSET Times]
  BY DEF GrantsInv, GrantsTypes, Acquire
<1>2. TicketsInv' /\ (token' # None => Limited(token'))
  BY <1>1 DEF TicketsInv
<1>3. CASE /\ Reusable(q.provider) /\ IsFresh(q.now, q.zone, q.provider)
           /\ Serve(q, token, token.boundaries)
           /\ request' = [request EXCEPT ![r] = Idle] /\ UNCHANGED lock
  <2>1. token # None
    BY <1>3 DEF IsFresh
  <2> HIDE DEF q
  <2>2. served' # None => Current(served')
    BY <1>1, <1>3, <2>1, FreshIsCurrent
  <2>3. GrantsTypes'
    BY <1>1, <1>3, IdleRequest, RequestMoves, GrantsAssumption
  <2> QED
    BY <1>2, <2>2, <2>3 DEF GrantsInv
<1>4. CASE /\ snapshot # None
           /\ request' = [request EXCEPT ![r].at = "mint", ![r].boundaries = snapshot.boundaries]
           /\ lock' = r /\ served' = None
  <2> DEFINE next == [q EXCEPT !.at = "mint", !.boundaries = snapshot.boundaries]
  <2>1. next \in Request /\ next.at = "mint"
    BY <1>1, <1>4 DEF Request
  <2>2. request' = [request EXCEPT ![r] = next]
    BY <1>4
  <2> HIDE DEF next, q
  <2>3. GrantsTypes'
    BY <1>1, <1>4, <2>1, <2>2, RequestMoves, GrantsAssumption
  <2> QED
    BY <1>2, <1>4, <2>3 DEF GrantsInv
<1>5. CASE request' = [request EXCEPT ![r].at = "snapshot"] /\ lock' = r /\ served' = None
  <2> DEFINE next == [q EXCEPT !.at = "snapshot"]
  <2>1. next \in Request /\ next.at = "snapshot"
    BY <1>1 DEF Request
  <2>2. request' = [request EXCEPT ![r] = next]
    BY <1>5
  <2> HIDE DEF next, q
  <2>3. GrantsTypes'
    BY <1>1, <1>5, <2>1, <2>2, RequestMoves, GrantsAssumption
  <2> QED
    BY <1>2, <1>5, <2>3 DEF GrantsInv
<1> QED
  BY <1>3, <1>4, <1>5 DEF Acquire

LEMMA FetchedStep == ASSUME GrantsInv, NEW r \in Requests, Fetched(r) PROVE GrantsInv'
<1> DEFINE q == request[r]
           next == [q EXCEPT !.at = "mint", !.boundaries = agenda]
<1>1. /\ GrantsTypes /\ TicketsInv /\ (token # None => Limited(token))
      /\ UNCHANGED <<provider, pending, agenda, token, lock, tickets, opened>>
      /\ q.at = "snapshot" /\ q \in Request /\ served' = None /\ agenda \subseteq Times
      /\ lock \in Requests \cup {Nobody} /\ lock = r
      /\ request' = [request EXCEPT ![r].at = "mint", ![r].boundaries = agenda]
      /\ snapshot' = [day |-> Dayof(q.now), boundaries |-> agenda]
  BY DEF GrantsInv, GrantsTypes, Fetched
<1>2. TicketsInv' /\ (token' # None => Limited(token'))
  BY <1>1 DEF TicketsInv
<1>3. next \in Request /\ next.at = "mint" /\ q.now \in Nat
  BY <1>1 DEF Request
<1>4. request' = [request EXCEPT ![r] = next]
  BY <1>1
<1>5. snapshot' \in [day : Nat, boundaries : SUBSET Times]
  BY <1>1, <1>3, Days
<1> HIDE DEF next, q
<1>6. GrantsTypes'
  BY <1>1, <1>3, <1>4, <1>5, RequestMoves
<1> QED
  BY <1>1, <1>2, <1>6 DEF GrantsInv

LEMMA MintedStep == ASSUME GrantsInv, NEW r \in Requests, Minted(r) PROVE GrantsInv'
<1> DEFINE q == request[r]
           minted == [provider |-> q.provider, zone |-> q.zone, minted |-> q.now,
                      until |-> FreshnessHorizon(q.now, q.boundaries), boundaries |-> q.boundaries]
           n == Cardinality(DOMAIN tickets) + 1
<1>1. /\ GrantsTypes /\ TicketsInv /\ (token # None => Limited(token))
      /\ UNCHANGED <<provider, pending, agenda, snapshot>>
      /\ q.at = "mint" /\ q \in Request /\ Serve(q, minted, q.boundaries)
      /\ request' = [request EXCEPT ![r] = Idle] /\ lock' = Nobody /\ lock = r
      /\ snapshot = None \/ snapshot \in [day : Nat, boundaries : SUBSET Times]
  BY DEF GrantsInv, GrantsTypes, Minted
<1>2. IF Reusable(q.provider)
      THEN token' = minted /\ UNCHANGED <<tickets, opened>>
      ELSE /\ n <= MaxTickets
           /\ tickets' = [t \in 1 .. n |-> IF t = n THEN "live" ELSE Pruned[t]]
           /\ opened' = [t \in 1 .. n |-> IF t = n THEN 0 ELSE opened[t]]
           /\ UNCHANGED token
  BY DEF Minted
<1>3. /\ minted.provider = q.provider /\ minted.zone = q.zone /\ minted.minted = q.now
      /\ minted.until = FreshnessHorizon(q.now, q.boundaries) /\ minted.boundaries = q.boundaries
  OBVIOUS
<1>4. q.now \in Nat /\ q.boundaries \in SUBSET Times
  BY <1>1 DEF Request
<1> HIDE DEF q, minted
<1>5. Limited(minted)
  BY <1>3, <1>4, Horizon DEF Limited
<1>6. served' # None => Current(served')
  BY <1>1, <1>3, MintedIsCurrent
<1>7. GrantsTypes'
  BY <1>1, IdleRequest, RequestMoves, GrantsAssumption
<1>8. token' # None => Limited(token')
  BY <1>1, <1>2, <1>5
<1>9. TicketsInv'
  <2>1. CASE UNCHANGED <<tickets, opened>>
    BY <1>1, <2>1 DEF TicketsInv
  <2>2. CASE ~Reusable(q.provider)
    <3>1. PICK m \in 0 .. MaxTickets :
            /\ DOMAIN tickets = 1 .. m /\ DOMAIN opened = 1 .. m
            /\ \A t \in 1 .. m : tickets[t] \in {"live", "expired", "gone"} /\ opened[t] \in {0, 1}
            /\ \A t \in 1 .. m : tickets[t] # "gone" => opened[t] = 0
      BY <1>1 DEF TicketsInv
    <3>2. n = m + 1 /\ m \in Nat
      <4>1. m \in Nat /\ Cardinality(1 .. m) = m
        BY <3>1, FS_Interval, GrantsAssumption
      <4> QED
        BY <3>1, <4>1
    <3>3. \A t \in 1 .. m : Pruned[t] \in {"live", "gone"} /\ (Pruned[t] = "live" => tickets[t] = "live")
      BY <3>1 DEF Pruned
    <3>4. /\ tickets' = [t \in 1 .. n |-> IF t = n THEN "live" ELSE Pruned[t]]
          /\ opened' = [t \in 1 .. n |-> IF t = n THEN 0 ELSE opened[t]]
          /\ n \in 0 .. MaxTickets
      BY <1>2, <2>2, <3>2, GrantsAssumption
    <3> HIDE DEF n
    <3>5. \A t \in 1 .. n : /\ tickets'[t] \in {"live", "expired", "gone"} /\ opened'[t] \in {0, 1}
                            /\ tickets'[t] # "gone" => opened'[t] = 0
      BY <3>1, <3>2, <3>3, <3>4
    <3> QED
      BY <3>4, <3>5 DEF TicketsInv
  <2> QED
    BY <1>2, <2>1, <2>2
<1> QED
  BY <1>6, <1>7, <1>8, <1>9 DEF GrantsInv

LEMMA FailsStep == ASSUME GrantsInv, NEW r \in Requests, Fails(r) PROVE GrantsInv'
<1>1. /\ GrantsTypes /\ TicketsInv /\ (token # None => Limited(token))
      /\ UNCHANGED <<provider, pending, agenda, snapshot, token, tickets, opened>>
      /\ request' = [request EXCEPT ![r] = Idle] /\ lock' = Nobody /\ lock = r /\ served' = None
      /\ snapshot = None \/ snapshot \in [day : Nat, boundaries : SUBSET Times]
  BY DEF GrantsInv, GrantsTypes, Fails
<1>2. GrantsTypes'
  BY <1>1, IdleRequest, RequestMoves, GrantsAssumption
<1> QED
  BY <1>1, <1>2 DEF GrantsInv, TicketsInv

LEMMA TicketStep == ASSUME GrantsInv, NEW t \in DOMAIN tickets, Redeem(t) \/ Expire(t) PROVE GrantsInv'
<1>1. /\ GrantsTypes /\ TicketsInv /\ (token # None => Limited(token))
      /\ UNCHANGED <<provider, pending, agenda, snapshot, token, lock, request>> /\ served' = None
  BY DEF GrantsInv, Redeem, Expire
<1>2. PICK n \in 0 .. MaxTickets :
        /\ DOMAIN tickets = 1 .. n /\ DOMAIN opened = 1 .. n
        /\ \A s \in 1 .. n : tickets[s] \in {"live", "expired", "gone"} /\ opened[s] \in {0, 1}
        /\ \A s \in 1 .. n : tickets[s] # "gone" => opened[s] = 0
  BY <1>1 DEF TicketsInv
<1>3. TicketsInv'
  <2>1. CASE Redeem(t)
    <3>1. tickets' = [s \in 1 .. n |-> IF s = t \/ tickets[s] = "expired" THEN "gone" ELSE tickets[s]]
      BY <1>2, <2>1 DEF Redeem, Taken, Pruned
    <3>2. Pruned[t] = "live" => tickets[t] = "live"
      BY <1>2 DEF Pruned
    <3>3. Min({1, 2}) = 1 /\ Min({0 + 1, 2}) = 1
      <4>1. Min({1, 2}) \in {1, 2} /\ Min({1, 2}) <= 1
        <5>1. {1, 2} \in SUBSET Nat /\ {1, 2} # {}
          OBVIOUS
        <5> QED
          BY <5>1, Least
      <4>2. 0 + 1 = 1
        OBVIOUS
      <4> QED
        BY <4>1, <4>2
    <3>4. opened' = [opened EXCEPT ![t] = IF Pruned[t] = "live" THEN Min({opened[t] + 1, 2}) ELSE opened[t]]
      BY <2>1 DEF Redeem
    <3>5. opened'[t] \in {0, 1}
      <4>1. CASE Pruned[t] = "live"
        <5>1. opened[t] = 0
          BY <1>2, <3>2, <4>1
        <5>2. opened'[t] = Min({opened[t] + 1, 2})
          BY <1>2, <3>4, <4>1
        <5> QED
          BY <3>3, <5>1, <5>2
      <4>2. CASE Pruned[t] # "live"
        BY <1>2, <3>4, <4>2
      <4> QED
        BY <4>1, <4>2
    <3>6. DOMAIN opened' = 1 .. n /\ \A s \in 1 .. n : s # t => opened'[s] = opened[s]
      BY <1>2, <3>4
    <3>7. DOMAIN tickets' = 1 .. n
      BY <3>1
    <3>8. \A s \in 1 .. n : /\ tickets'[s] \in {"live", "expired", "gone"} /\ opened'[s] \in {0, 1}
                            /\ tickets'[s] # "gone" => opened'[s] = 0
      BY <1>2, <3>1, <3>5, <3>6
    <3> QED
      BY <3>6, <3>7, <3>8 DEF TicketsInv
  <2>2. CASE Expire(t)
    <3>1. tickets' = [tickets EXCEPT ![t] = "expired"] /\ tickets[t] = "live" /\ opened' = opened
      BY <2>2 DEF Expire
    <3>2. DOMAIN tickets' = 1 .. n /\ DOMAIN opened' = 1 .. n
      BY <1>2, <3>1
    <3>3. \A s \in 1 .. n : /\ tickets'[s] \in {"live", "expired", "gone"} /\ opened'[s] \in {0, 1}
                            /\ tickets'[s] # "gone" => opened'[s] = 0
      BY <1>2, <3>1
    <3> QED
      BY <3>2, <3>3 DEF TicketsInv
  <2> QED
    BY <2>1, <2>2
<1>4. GrantsTypes'
  BY <1>1 DEF GrantsTypes
<1> QED
  BY <1>1, <1>3, <1>4 DEF GrantsInv

LEMMA ProviderStep ==
  ASSUME GrantsInv, (\E p \in Providers : SetProvider(p)) \/ ResetCaches \/ UNCHANGED grantVars
  PROVE  GrantsInv'
<1>1. /\ GrantsTypes /\ TicketsInv /\ (token # None => Limited(token)) /\ (served # None => Current(served))
  BY DEF GrantsInv
<1>2. /\ UNCHANGED <<agenda, lock, request, tickets, opened>>
      /\ provider' \in Providers /\ pending' \in BOOLEAN
      /\ snapshot' = snapshot \/ snapshot' = None
      /\ token' = token \/ token' = None
      /\ served' = served \/ served' = None
  BY <1>1 DEF SetProvider, ResetCaches, grantVars, GrantsTypes
<1>3. GrantsTypes'
  BY <1>1, <1>2 DEF GrantsTypes
<1>4. TicketsInv'
  BY <1>1, <1>2 DEF TicketsInv
<1> QED
  BY <1>1, <1>2, <1>3, <1>4 DEF GrantsInv

LEMMA GrantsStep == GrantsInv /\ [GrantsNext]_grantVars => GrantsInv'
BY GetStep, AcquireStep, FetchedStep, MintedStep, FailsStep, TicketStep, ProviderStep DEF GrantsNext

LEMMA GrantsInvMeans == GrantsInv => GrantIsCurrent
<1> SUFFICES ASSUME GrantsInv PROVE GrantIsCurrent
  OBVIOUS
<1>1. \A t \in DOMAIN opened : opened[t] <= 1
  BY DEF GrantsInv, TicketsInv
<1> QED
  BY <1>1 DEF GrantsInv, Current, GrantIsCurrent

LEMMA GrantsPart == VoiceInit => GrantsInit
BY DEF VoiceInit

LEMMA GrantsPartSteps == [VoiceNext]_voiceVars => [GrantsNext]_grantVars
BY DEF VoiceNext, voiceVars, deviceLinks, Ask, vars, grantVars, speakerVars, gateVars

LEMMA GrantsInvAlways == VoiceSpec => []GrantsInv
<1>1. VoiceInit => GrantsInv
  BY GrantsPart, GrantsBegin
<1>2. GrantsInv /\ [VoiceNext]_voiceVars => GrantsInv'
  BY GrantsStep, GrantsPartSteps
<1> QED
  BY <1>1, <1>2, PTL DEF VoiceSpec

\* Whatever is minted, switched or reset meanwhile, a request is answered with
\* a grant of the provider and for the timezone it asked for, whose stamp
\* cannot mislead, and a ticket opens one session (cache.py, get and
\* freshness_horizon; relay.py and local/session.py, redeem_ticket), for any
\* number of requests, any agenda and any length of day or cap.
THEOREM GrantIsAlwaysCurrent == VoiceSpec => []GrantIsCurrent
BY GrantsInvAlways, GrantsInvMeans, PTL

-----------------------------------------------------------------------------
(***************************************************************************)
(* What is understood.  The interpreter is a function of what is said, so  *)
(* all that is inductive is that what was made of it is what interpret()   *)
(* makes of it; the rest is about the candidates of the catalogue, the     *)
(* margins of the matches, and the plans one by one.                       *)
(***************************************************************************)
\* Scores, confidences and weights are in thousandths.
LEMMA Thousandths == \A x : x \in Score <=> x \in Nat /\ x <= 1000
BY DEF Score

\* Of numbers up to a bound there is a greatest, and of those that are as
\* great the first.
LEMMA Leading ==
  ASSUME NEW S \in SUBSET Nat, S # {}, NEW f, \A i \in S : f[i] \in Score
  PROVE  \E i \in S : \A j \in S : f[i] > f[j] \/ (f[i] = f[j] /\ i <= j)
<1> DEFINE gap == [i \in S |-> 1000 - f[i]]
           Short == {gap[i] : i \in S}
           Best == {i \in S : gap[i] = Min(Short)}
           first == Min(Best)
<1>1. \A i \in S : f[i] \in Nat /\ f[i] <= 1000
  BY Thousandths
<1>2. \A i \in S : gap[i] \in Nat /\ gap[i] + f[i] = 1000
  BY <1>1
<1> HIDE DEF gap
<1>3. Short \in SUBSET Nat /\ Short # {}
  <2>1. \A x \in Short : x \in Nat
    BY <1>2
  <2>2. \A i \in S : gap[i] \in Short
    OBVIOUS
  <2> QED
    BY <2>1, <2>2
<1>4. Min(Short) \in Short /\ \A x \in Short : Min(Short) <= x
  BY <1>3, Least
<1>5. Best \in SUBSET Nat /\ Best # {}
  BY <1>4
<1>6. first \in Best /\ \A i \in Best : first <= i
  BY <1>5, Least
<1>7. /\ first \in S /\ \A j \in S : gap[first] <= gap[j]
      /\ \A j \in S : gap[j] = gap[first] => first <= j
  BY <1>4, <1>6
<1> HIDE DEF Short, Best, first
<1>8. ASSUME NEW j \in S
      PROVE  f[first] > f[j] \/ (f[first] = f[j] /\ first <= j)
  BY <1>1, <1>2, <1>7
<1> QED
  BY <1>7, <1>8

\* Of scores there is a greatest.
LEMMA Greatest ==
  ASSUME NEW S \in SUBSET Score, S # {}
  PROVE  Max(S) \in S /\ \A x \in S : Max(S) >= x
<1> DEFINE f == [i \in S |-> i]
<1>1. \A i \in S : f[i] = i /\ f[i] \in Score /\ i \in Nat
  BY Thousandths
<1> HIDE DEF f
<1>2. \E i \in S : \A j \in S : f[i] > f[j] \/ (f[i] = f[j] /\ i <= j)
  BY <1>1, Leading
<1>3. \E i \in S : \A j \in S : i >= j
  BY <1>1, <1>2
<1> QED
  BY <1>3 DEF Max

\* The catalogue: a trigger of an intent, one of at most nine, weighs up to 1000.
Weighted(intent) ==
  /\ DOMAIN intent.weights \subseteq 1 .. 9
  /\ \A i \in DOMAIN intent.weights : intent.weights[i] \in Score

\* A part of the catalogue is a sequence of what the whole is made of.
LEMMA Listed ==
  ASSUME NEW S, NEW T \in SUBSET S, NEW n \in Nat, NEW s \in [1 .. n -> T]
  PROVE  s \in Seq(S)
OBVIOUS

\* Every intent of the catalogue has such triggers.
LEMMA CatalogueWeighted == DOMAIN INTENTS \subseteq Nat /\ \A i \in DOMAIN INTENTS : Weighted(INTENTS[i])
<1> DEFINE S == {CalendarWrites[i] : i \in 1 .. 3} \cup {ListIntents[i] : i \in 1 .. 5}
                \cup {DisplayIntents[i] : i \in 1 .. 2} \cup {TimerIntents[i] : i \in 1 .. 7}
                \cup {CalendarReads[i] : i \in 1 .. 7}
<1>1. /\ Weighted(CalendarWrites[1]) /\ Weighted(CalendarWrites[2])
      /\ Weighted(CalendarWrites[3])
  BY DEF CalendarWrites, Intent, Weighted, Score
<1>2. /\ Weighted(ListIntents[1]) /\ Weighted(ListIntents[2]) /\ Weighted(ListIntents[3])
      /\ Weighted(ListIntents[4]) /\ Weighted(ListIntents[5])
  BY DEF ListIntents, Intent, Weighted, Score
<1>3. /\ Weighted(DisplayIntents[1]) /\ Weighted(DisplayIntents[2])
  BY DEF DisplayIntents, Intent, Weighted, Score
<1>4. /\ Weighted(TimerIntents[1]) /\ Weighted(TimerIntents[2]) /\ Weighted(TimerIntents[3])
      /\ Weighted(TimerIntents[4]) /\ Weighted(TimerIntents[5]) /\ Weighted(TimerIntents[6])
      /\ Weighted(TimerIntents[7])
  BY DEF TimerIntents, Intent, Weighted, Score
<1>5. /\ Weighted(CalendarReads[1]) /\ Weighted(CalendarReads[2]) /\ Weighted(CalendarReads[3])
      /\ Weighted(CalendarReads[4]) /\ Weighted(CalendarReads[5]) /\ Weighted(CalendarReads[6])
      /\ Weighted(CalendarReads[7])
  BY DEF CalendarReads, Intent, Weighted, Score
<1>6. CalendarWrites \in Seq(S)
  <2>1. CalendarWrites \in [1 .. 3 -> {CalendarWrites[i] : i \in 1 .. 3}]
    BY DEF CalendarWrites
  <2> QED
    BY <2>1, Listed
<1>7. ListIntents \in Seq(S)
  <2>1. ListIntents \in [1 .. 5 -> {ListIntents[i] : i \in 1 .. 5}]
    BY DEF ListIntents
  <2> QED
    BY <2>1, Listed
<1>8. DisplayIntents \in Seq(S)
  <2>1. DisplayIntents \in [1 .. 2 -> {DisplayIntents[i] : i \in 1 .. 2}]
    BY DEF DisplayIntents
  <2> QED
    BY <2>1, Listed
<1>9. TimerIntents \in Seq(S)
  <2>1. TimerIntents \in [1 .. 7 -> {TimerIntents[i] : i \in 1 .. 7}]
    BY DEF TimerIntents
  <2> QED
    BY <2>1, Listed
<1>10. CalendarReads \in Seq(S)
  <2>1. CalendarReads \in [1 .. 7 -> {CalendarReads[i] : i \in 1 .. 7}]
    BY DEF CalendarReads
  <2> QED
    BY <2>1, Listed
<1> HIDE DEF S
<1>11. INTENTS \in Seq(S)
  BY <1>6, <1>7, <1>8, <1>9, <1>10 DEF INTENTS
<1>12. \A x \in S : Weighted(x)
  BY <1>1, <1>2, <1>3, <1>4, <1>5 DEF S
<1> QED
  BY <1>11, <1>12

\* match_intents: the confidence in an intent that is hit is a number up to 990.
LEMMA ConfidenceTyped ==
  ASSUME NEW intent, Weighted(intent), NEW hits \in SUBSET DOMAIN intent.weights, hits # {}
  PROVE  Confidence(intent, hits) \in Score
<1> DEFINE W == {intent.weights[i] : i \in hits}
           n == Cardinality(hits)
           bonus == Min({120, 50 * (n - 1)})
<1>1. W \in SUBSET Score /\ W # {}
  BY DEF Weighted
<1>2. Max(W) \in Score
  <2> HIDE DEF W
  <2> QED
    BY <1>1, Greatest
<1>3. n \in Nat /\ n >= 1
  <2>1. IsFiniteSet(1 .. 9) /\ hits \subseteq 1 .. 9
    <3>1. 1 \in Int /\ 9 \in Int
      OBVIOUS
    <3> QED
      BY <3>1, FS_Interval DEF Weighted
  <2>3. IsFiniteSet(hits)
    BY <2>1, FS_Subset
  <2> QED
    BY <2>3, FS_CardinalityType, FS_EmptySet
<1>4. bonus \in Nat
  <2>1. {120, 50 * (n - 1)} \in SUBSET Nat /\ {120, 50 * (n - 1)} # {}
    BY <1>3
  <2> QED
    BY <2>1, Least
<1>5. Min({990, Max(W) + bonus}) \in Score
  <2> DEFINE C == {990, Max(W) + bonus}
  <2> HIDE DEF W, bonus
  <2>1. Max(W) + bonus \in Nat
    BY <1>2, <1>4, Thousandths
  <2>2. C \in SUBSET Nat /\ C # {} /\ 990 \in C
    BY <2>1
  <2> HIDE DEF C
  <2>3. Min(C) \in C /\ \A x \in C : Min(C) <= x
    BY <2>2, Least
  <2>4. Min(C) \in Nat /\ Min(C) <= 990
    BY <2>2, <2>3
  <2>5. Min(C) <= 1000
    BY <2>4
  <2> QED
    BY <2>4, <2>5, Thousandths DEF C
<1> QED
  BY <1>5 DEF Confidence

\* There is a first candidate, and it is one of the catalogue that was hit.
LEMMA TopIsCandidate ==
  ASSUME NEW u, WellFormed(u), Candidates(u) # {}
  PROVE  /\ TopIntent(u) \in DOMAIN INTENTS
         /\ Weighted(INTENTS[TopIntent(u)])
         /\ Confident(u, TopIntent(u)) \in Score
<1> DEFINE f == [i \in Candidates(u) |-> Confident(u, i)]
<1>1. /\ Candidates(u) \subseteq DOMAIN INTENTS /\ DOMAIN INTENTS \subseteq Nat
      /\ \A i \in DOMAIN INTENTS : Weighted(INTENTS[i])
  BY CatalogueWeighted DEF Candidates
<1>2. \A i \in Candidates(u) : Confident(u, i) \in Score
  <2> SUFFICES ASSUME NEW i \in Candidates(u) PROVE Confident(u, i) \in Score
    OBVIOUS
  <2>1. /\ u.hits[INTENTS[i].name] \in SUBSET DOMAIN INTENTS[i].weights
        /\ u.hits[INTENTS[i].name] # {}
    BY <1>1 DEF Candidates, WellFormed
  <2> QED
    BY <1>1, <2>1, ConfidenceTyped DEF Confident
<1>3. \E i \in Candidates(u) : \A j \in Candidates(u) :
        f[i] > f[j] \/ (f[i] = f[j] /\ i <= j)
  <2>1. Candidates(u) \in SUBSET Nat /\ \A i \in Candidates(u) : f[i] \in Score
    BY <1>1, <1>2
  <2> HIDE DEF f
  <2> QED
    BY <2>1, Leading
<1>4. TopIntent(u) \in Candidates(u)
  BY <1>3 DEF TopIntent
<1> QED
  BY <1>1, <1>2, <1>4

\* The intents about lists and those about timers, by name.
LEMMA NamesKnown ==
  /\ Names(ListIntents) \subseteq {"list.add", "list.remove", "list.check", "list.clear", "list.show"}
  /\ Names(TimerIntents) \subseteq {"timer.pause", "timer.restart", "timer.resume", "timer.start",
                                    "timer.cancel", "timer.extend", "timer.query"}
<1>1. Names(ListIntents) \subseteq {"list.add", "list.remove", "list.check", "list.clear", "list.show"}
  BY DEF Names, ListIntents, Intent
<1>2. Names(TimerIntents) \subseteq {"timer.pause", "timer.restart", "timer.resume", "timer.start",
                                     "timer.cancel", "timer.extend", "timer.query"}
  BY DEF Names, TimerIntents, Intent
<1> QED
  BY <1>1, <1>2

\* The less sure of the two plans decides whether a plan is carried out; a surer
\* one is the same plan.
LEMMA ListSurer ==
  ASSUME NEW u, NEW intent \in Names(ListIntents), NEW c \in Nat, NEW d \in Nat, c <= d,
         PlanList(u, intent, c).disposition = "handled_locally"
  PROVE  PlanList(u, intent, d) = PlanList(u, intent, c)
<1>1. intent \in {"list.add", "list.remove", "list.check", "list.clear", "list.show"}
  BY NamesKnown
<1>2. Clarify.disposition # "handled_locally"
  BY DEF Clarify, Answer
<1>3. CASE (c < 1000 * MutationThreshold) = (d < 1000 * MutationThreshold)
  BY <1>3 DEF PlanList
<1>4. CASE c < 1000 * MutationThreshold /\ ~(d < 1000 * MutationThreshold)
  <2>1. Resolved(ResolveList(u.list))
    BY <1>2 DEF PlanList
  <2>2. CASE intent \in {"list.add", "list.check", "list.show"}
    BY <2>1, <2>2 DEF PlanList
  <2>3. CASE intent = "list.clear"
    BY <1>2, <1>4, <2>1, <2>3 DEF PlanList
  <2>4. CASE intent = "list.remove"
    BY <1>2, <1>4, <2>1, <2>4 DEF PlanList
  <2> QED
    BY <1>1, <2>2, <2>3, <2>4
<1> QED
  BY <1>3, <1>4 DEF MutationThreshold

\* The same of the timer plans: surer, a plan that was carried out stays.
LEMMA TimerSurer ==
  ASSUME NEW u, NEW intent, NEW ctx, NEW c \in Nat, NEW d \in Nat, c <= d,
         PlanTimerControl(u, intent, ctx, c).disposition = "handled_locally"
  PROVE  PlanTimerControl(u, intent, ctx, d) = PlanTimerControl(u, intent, ctx, c)
<1> DEFINE needed == IF intent = "timer.cancel" THEN 750000 ELSE 850000
           Asks(x) == intent \in {"timer.cancel", "timer.pause"} /\ ~ctx.timer /\ x < needed
<1>1. Clarify.disposition # "handled_locally"
  BY DEF Clarify, Answer
<1>2. ~Asks(c)
  BY <1>1 DEF PlanTimerControl
<1>3. ~Asks(d)
  BY <1>2
<1> QED
  BY <1>2, <1>3 DEF PlanTimerControl

\* And of any plan of interpret().
LEMMA PlanSurer ==
  ASSUME NEW u, NEW intent, NEW ctx, NEW scope, NEW c \in Nat, NEW d \in Nat, c <= d,
         Plan(u, intent, ctx, c, scope).disposition = "handled_locally"
  PROVE  Plan(u, intent, ctx, d, scope) = Plan(u, intent, ctx, c, scope)
<1> DEFINE name == intent.name
<1>1. CASE intent.supported /\ name # "calendar.plan" /\ name \in Names(ListIntents)
  <2>1. \A x : Plan(u, intent, ctx, x, scope) = PlanList(u, name, x)
    BY <1>1, NamesKnown DEF Plan
  <2> QED
    BY <1>1, <2>1, ListSurer
<1>2. CASE /\ intent.supported /\ name # "calendar.plan" /\ name \notin Names(ListIntents)
           /\ name \in Names(TimerIntents) \ {"timer.start"}
  <2>1. \A x : Plan(u, intent, ctx, x, scope) = PlanTimerControl(u, name, ctx, x)
    BY <1>2, NamesKnown DEF Plan
  <2> QED
    BY <2>1, TimerSurer
<1>3. CASE \/ ~intent.supported \/ name = "calendar.plan"
           \/ name \notin Names(ListIntents) /\ name \notin Names(TimerIntents) \ {"timer.start"}
  BY <1>3 DEF Plan
<1> QED
  BY <1>1, <1>2, <1>3

\* What the recogniser takes off is a factor.
LEMMA PenaltyTyped == \A stt \in Score \cup {-1} : Penalty(stt) \in Nat
BY Thousandths DEF Penalty

\* The surer the recogniser, the less is taken off.
LEMMA PenaltyGrows ==
  ASSUME NEW stt \in Score, NEW more \in Score \cup {-1}, more = -1 \/ more > stt
  PROVE  Penalty(stt) <= Penalty(more)
<1>1. stt \in Nat /\ more \in Int
  BY Thousandths
<1>2. stt < 600 => (250 * stt) \div 600 <= 250
  BY <1>1
<1>3. more \in Nat /\ more > stt => (250 * stt) \div 600 <= (250 * more) \div 600
  BY <1>1
<1> QED
  BY <1>1, <1>2, <1>3, Thousandths DEF Penalty

\* interpret(): what was carried out is what a surer recogniser has carried out.
LEMMA DecideSurer ==
  ASSUME NEW u, WellFormed(u), NEW ctx, NEW scope,
         NEW stt \in Score, NEW more \in Score \cup {-1}, more = -1 \/ more > stt,
         Decide(u, stt, ctx, scope).disposition = "handled_locally"
  PROVE  Decide(u, more, ctx, scope) = Decide(u, stt, ctx, scope)
<1> DEFINE top == INTENTS[TopIntent(u)]
           k == Confidence(top, u.hits[top.name])
           c == k * Penalty(stt)
           d == k * Penalty(more)
<1>1. CASE u.empty \/ scope.kind = "raises" \/ Candidates(u) = {}
  BY <1>1 DEF Decide
<1>2. CASE ~u.empty /\ scope.kind # "raises" /\ Candidates(u) # {}
  <2>1. k \in Nat
    BY <1>2, TopIsCandidate, Thousandths DEF Confident
  <2>2. c \in Nat /\ d \in Nat /\ c <= d
    <3>1. Penalty(stt) \in Nat /\ Penalty(more) \in Nat /\ Penalty(stt) <= Penalty(more)
      BY PenaltyTyped, PenaltyGrows
    <3> HIDE DEF k
    <3>2. \A x, y, z \in Nat : y <= z => x * y \in Nat /\ x * y <= x * z
      OBVIOUS
    <3> QED
      BY <2>1, <3>1, <3>2
  <2>3. Escalate(ctx).disposition # "handled_locally"
    BY DEF Escalate, Clarify, Answer
  <2>4. ~(c < 1000 * IntentThreshold)
    BY <1>2, <2>3 DEF Decide
  <2>5. ~(d < 1000 * IntentThreshold)
    BY <2>2, <2>4 DEF IntentThreshold
  <2>6. /\ Decide(u, stt, ctx, scope) = [Plan(u, top, ctx, c, scope) EXCEPT !.intent = top.name]
        /\ Decide(u, more, ctx, scope) = [Plan(u, top, ctx, d, scope) EXCEPT !.intent = top.name]
    BY <1>2, <2>4, <2>5 DEF Decide
  <2>7. Plan(u, top, ctx, c, scope).disposition = "handled_locally"
    BY <2>6
  <2> QED
    BY <2>2, <2>6, <2>7, PlanSurer
<1> QED
  BY <1>1, <1>2

\* What was made of it is what interpret() makes of it.
WordsInv ==
  /\ made = Made(asked, DateOf(asked.u, asked.ctx))
  /\ asked = Unasked \/ \E i \in DOMAIN Askings : asked \in Askings[i]

\* Ask() alone changes either.
LEMMA WordsInvAlways == VoiceSpec => []WordsInv
<1>1. VoiceInit => WordsInv
  BY DEF VoiceInit, WordsInv
<1>2. WordsInv /\ [VoiceNext]_voiceVars => WordsInv'
  <2> SUFFICES ASSUME WordsInv, [VoiceNext]_voiceVars
               PROVE  WordsInv'
    OBVIOUS
  <2>1. CASE Ask
    BY <2>1 DEF Ask, WordsInv
  <2>2. CASE UNCHANGED <<asked, made>>
    BY <2>2 DEF WordsInv
  <2> QED
    BY <2>1, <2>2 DEF VoiceNext, voiceVars
<1> QED
  BY <1>1, <1>2, PTL DEF VoiceSpec

\* Before anything is asked there is nothing but a question.
LEMMA NothingSaid ==
  ASSUME NEW stt, NEW ctx, NEW scope
  PROVE  Decide(Unasked.u, stt, ctx, scope) = Clarify
<1>1. Unasked.u.empty
  BY DEF Unasked, Silence
<1> QED
  BY <1>1 DEF Decide

\* A recogniser that is surer of the same words changes nothing that was done
\* (interpret(), _plan_list and the timer plans), whatever was said.
THEOREM HearingBetterIsSafe == VoiceSpec => []HearingBetterNeverHurts
<1>1. WordsInv => HearingBetterNeverHurts
  <2> DEFINE u == asked.u
             ctx == asked.ctx
             scope == DateOf(u, ctx)
  <2> SUFFICES ASSUME WordsInv, made.answer.disposition = "handled_locally", asked.stt # -1,
                      NEW stt \in {-1} \cup {s \in {0, 300, 600} : s > asked.stt}
               PROVE  Decide(u, stt, ctx, made.scope) = made.answer
    BY DEF HearingBetterNeverHurts
  <2>1. made.scope = scope /\ made.answer = Decide(u, asked.stt, ctx, scope)
    BY DEF WordsInv, Made
  <2>2. asked # Unasked
    <3>1. Clarify.disposition # "handled_locally"
      BY DEF Clarify, Answer
    <3> QED
      BY <2>1, <3>1, NothingSaid
  <2>3. WellFormed(u) /\ asked.stt \in Score
    BY <2>2, VoiceAssumption DEF WordsInv
  <2>4. stt \in Score \cup {-1} /\ (stt = -1 \/ stt > asked.stt)
    BY Thousandths
  <2>5. Decide(u, asked.stt, ctx, scope).disposition = "handled_locally"
    BY <2>1
  <2> HIDE DEF u, ctx, scope
  <2>6. Decide(u, stt, ctx, scope) = Decide(u, asked.stt, ctx, scope)
    BY <2>3, <2>4, <2>5, DecideSurer
  <2> QED
    BY <2>1, <2>6
<1> QED
  BY <1>1, WordsInvAlways, PTL

-----------------------------------------------------------------------------
(***************************************************************************)
(* Every plan ends in one of the ways interpret() has.                     *)
(***************************************************************************)
Outcomes == {"handled_locally", "needs_clarification", "rejected", "escalate_to_cloud", "raises"}
Ends(answer) == answer.disposition \in Outcomes

\* The answers plans are made of.
LEMMA AnswersEnd ==
  /\ Ends(Clarify) /\ Ends(Reject) /\ Ends(Raises)
  /\ \A calls : Ends(Handle(calls))
  /\ \A ctx : Ends(Escalate(ctx))
BY DEF Ends, Outcomes, Clarify, Reject, Raises, Handle, Escalate, Answer

\* A timer that is started.
LEMMA TimerStartEnds == ASSUME NEW u, NEW ctx, NEW scope PROVE Ends(PlanTimerStart(u, ctx, scope))
BY AnswersEnd DEF PlanTimerStart

\* Every plan.
LEMMA PlanEnds ==
  ASSUME NEW u, NEW intent, NEW ctx, NEW c, NEW scope
  PROVE  Ends(Plan(u, intent, ctx, c, scope))
<1> DEFINE name == intent.name
<1>1. name \in Names(ListIntents) => Ends(PlanList(u, name, c))
  BY AnswersEnd, NamesKnown DEF PlanList
<1>2. Ends(PlanTimerControl(u, name, ctx, c))
  BY AnswersEnd DEF PlanTimerControl
<1>3. Ends(PlanShowView(u, scope))
  BY AnswersEnd DEF PlanShowView
<1>4. Ends(PlanPersonFilter(u))
  BY AnswersEnd DEF PlanPersonFilter
<1>5. Ends(PlanOpenEvent(u, scope))
  BY AnswersEnd DEF PlanOpenEvent
<1>6. \A day : Ends(PlanConflicts(day))
  BY AnswersEnd DEF PlanConflicts
<1>7. \A s : Ends(PlanQuery(u, name, ctx, s))
  BY AnswersEnd DEF PlanQuery
<1> QED
  BY <1>1, <1>2, <1>3, <1>4, <1>5, <1>6, <1>7, AnswersEnd, TimerStartEnds DEF Plan

\* interpret() itself.
LEMMA DecideEnds ==
  ASSUME NEW u, NEW stt, NEW ctx, NEW scope
  PROVE  Ends(Decide(u, stt, ctx, scope))
BY AnswersEnd, PlanEnds DEF Decide, Ends

\* The chosen one is clearly more like what was said than any other.
Ahead(score, chosen, S) == \A i \in S \ {chosen} : score[i] + 120 <= score[chosen]

\* The leader is one of them, and none has a higher score.
LEMMA LeaderLeads ==
  ASSUME NEW S \in SUBSET Nat, S # {}, NEW score, \A i \in S : score[i] \in Score
  PROVE  Leader(S, score) \in S /\ \A j \in S : score[Leader(S, score)] >= score[j]
<1>1. \E i \in S : \A j \in S : score[i] > score[j] \/ (score[i] = score[j] /\ i <= j)
  BY Leading
<1>2. /\ Leader(S, score) \in S
      /\ \A j \in S : \/ score[Leader(S, score)] > score[j]
                      \/ score[Leader(S, score)] = score[j] /\ Leader(S, score) <= j
  BY <1>1 DEF Leader
<1>3. \A i \in S : score[i] \in Nat
  BY Thousandths
<1> DEFINE first == Leader(S, score)
<1> HIDE DEF first
<1>4. first \in S /\ \A j \in S : score[first] > score[j] \/ score[first] = score[j]
  BY <1>2 DEF first
<1>5. \A j \in S : score[first] >= score[j]
  BY <1>3, <1>4
<1> QED
  BY <1>4, <1>5 DEF first

\* What resolves and is not ambiguous is clearly ahead; nothing else has a value.
LEMMA MatchIsClear ==
  ASSUME NEW S \in SUBSET Nat, NEW score, \A i \in S : score[i] \in Score,
         NEW counts \in Int, counts <= 430
  PROVE  LET m == Match(S, score, counts)
         IN /\ m.value # 0 => Resolved(m)
            /\ Resolved(m) /\ ~Ambiguous(m) => /\ m.value \in S /\ Ahead(score, m.value, S)
                                              /\ score[m.value] >= 550
<1> DEFINE m == Match(S, score, counts)
           first == Leader(S, score)
           rest == S \ {first}
           second == score[Leader(rest, score)]
<1>1. CASE S = {}
  <2>1. m = NoMatch
    BY <1>1 DEF Match
  <2> QED
    BY <2>1 DEF NoMatch, Resolved
<1>2. CASE S # {}
  <2>1. m = [value |-> IF score[first] >= 550 THEN first ELSE 0, score |-> score[first],
             rival |-> IF rest # {} /\ second > counts THEN second ELSE -1]
    BY <1>2 DEF Match
  <2>2. first \in S /\ score[first] \in Nat
    BY <1>2, LeaderLeads, Thousandths
  <2>3. m.value # 0 => Resolved(m) /\ m.value = first
    BY <2>1 DEF Resolved
  <2>4. ASSUME Resolved(m), ~Ambiguous(m)
        PROVE  m.value = first /\ score[first] >= 550 /\ \A i \in rest : score[i] + 120 <= score[first]
    <3>1. m.value = first /\ score[first] >= 550 /\ m.score = score[first]
      BY <2>1, <2>4 DEF Resolved
    <3>2. ASSUME NEW i \in rest
          PROVE  score[i] + 120 <= score[first]
      <4>1. rest \in SUBSET Nat /\ rest # {} /\ \A j \in rest : score[j] \in Score
        BY <3>2
      <4> HIDE DEF rest
      <4>2. Leader(rest, score) \in rest /\ \A j \in rest : score[Leader(rest, score)] >= score[j]
        BY <4>1, LeaderLeads
      <4>3. second \in Nat /\ score[i] \in Nat /\ second >= score[i]
        <5>1. second \in Score /\ score[i] \in Score /\ second >= score[i]
          BY <3>2, <4>1, <4>2
        <5> HIDE DEF second
        <5> QED
          BY <5>1, Thousandths
      <4>4. CASE second > counts
        <5>1. m.rival = second
          BY <2>1, <4>1, <4>4
        <5>2. m.rival >= 0
          BY <4>3, <5>1
        <5>3. ~(m.score - m.rival < 120)
          BY <2>4, <5>2 DEF Ambiguous
        <5> HIDE DEF second, first, m
        <5> QED
          BY <2>2, <3>1, <4>3, <5>1, <5>3
      <4>5. CASE ~(second > counts)
        <5> HIDE DEF second, first, m
        <5> QED
          BY <2>2, <3>1, <4>3, <4>5
      <4> QED
        BY <4>4, <4>5
    <3> QED
      BY <3>1, <3>2
  <2> QED
    BY <2>2, <2>3, <2>4 DEF Ahead
<1> QED
  BY <1>1, <1>2

\* resolve_person: the bonus of an alias leaves the order and the margins.
LEMMA PersonIsClear ==
  ASSUME NEW ref, Scored(ref.scores)
  PROVE  LET m == ResolvePerson(ref)
         IN /\ m.value # 0 => Resolved(m)
            /\ Resolved(m) /\ ~Ambiguous(m) => Ahead(ref.scores, m.value, DOMAIN ref.scores)
<1> DEFINE S == DOMAIN ref.scores
           score == [i \in S |-> IF ref.alias THEN Min({1000, ref.scores[i] + 150}) ELSE ref.scores[i]]
           m == ResolvePerson(ref)
<1>1. S \in SUBSET Nat /\ \A i \in S : ref.scores[i] \in Score /\ ref.scores[i] \in Nat
  BY Thousandths DEF Scored
<1>2. ASSUME NEW i \in S
      PROVE  LET b == Min({1000, ref.scores[i] + 150})
             IN b \in Nat /\ b <= 1000 /\ b <= ref.scores[i] + 150 /\ (b = 1000 \/ b = ref.scores[i] + 150)
  <2> DEFINE x == ref.scores[i] + 150
             C == {1000, x}
  <2>1. x \in Nat
    BY <1>1, <1>2
  <2> HIDE DEF x
  <2>2. C \in SUBSET Nat /\ C # {} /\ 1000 \in C /\ x \in C
    BY <2>1
  <2>3. \A b \in C : b = 1000 \/ b = x
    OBVIOUS
  <2> HIDE DEF C
  <2>4. Min(C) \in C /\ \A b \in C : Min(C) <= b
    BY <2>2, Least
  <2>5. Min(C) \in Nat
    BY <2>2, <2>4
  <2>6. Min(C) <= 1000 /\ Min(C) <= x
    BY <2>2, <2>4
  <2>7. Min(C) = 1000 \/ Min(C) = x
    BY <2>3, <2>4
  <2> QED
    BY <2>5, <2>6, <2>7 DEF C, x
<1>3. \A i \in S : score[i] = IF ref.alias THEN Min({1000, ref.scores[i] + 150}) ELSE ref.scores[i]
  OBVIOUS
<1>4. m = Match(S, score, 300)
  BY DEF ResolvePerson
<1>5. \A i \in S : score[i] \in Score
  BY <1>1, <1>2, <1>3, Thousandths
<1> HIDE DEF S, score, m
<1>6. /\ m.value # 0 => Resolved(m)
      /\ Resolved(m) /\ ~Ambiguous(m) => m.value \in S /\ Ahead(score, m.value, S)
  <2> DEFINE counts == 300
  <2>1. counts \in Int /\ counts <= 430 /\ m = Match(S, score, counts)
    BY <1>4
  <2> HIDE DEF counts
  <2> QED
    BY <1>1, <1>5, <2>1, MatchIsClear
<1>7. ASSUME NEW v \in S, Ahead(score, v, S)
      PROVE  Ahead(ref.scores, v, S)
  <2>1. CASE ~ref.alias
    BY <1>3, <1>7, <2>1 DEF Ahead
  <2>2. CASE ref.alias
    <3>1. ASSUME NEW i \in S \ {v}
          PROVE  ref.scores[i] + 120 <= ref.scores[v]
      <4>1. score[i] + 120 <= score[v]
        BY <1>7, <3>1 DEF Ahead
      <4>2. /\ score[i] \in Nat /\ (score[i] = 1000 \/ score[i] = ref.scores[i] + 150)
            /\ score[v] \in Nat /\ score[v] <= 1000 /\ score[v] <= ref.scores[v] + 150
        <5>1. /\ i \in S /\ score[i] = Min({1000, ref.scores[i] + 150})
              /\ score[v] = Min({1000, ref.scores[v] + 150})
          BY <1>3, <2>2, <3>1
        <5> QED
          BY <1>2, <5>1
      <4>3. ref.scores[i] \in Nat /\ ref.scores[v] \in Nat
        BY <1>1, <3>1
      <4> QED
        BY <4>1, <4>2, <4>3
    <3> QED
      BY <3>1 DEF Ahead
  <2> QED
    BY <2>1, <2>2
<1> QED
  BY <1>6, <1>7 DEF S, m

\* resolve_event: the score of an event is a score.
LEMMA EventScored ==
  ASSUME NEW like, like.title \in Score, like.category \in Score, like.place \in Score
  PROVE  EventScore(like) \in Score
<1> DEFINE C == {like.title, (7 * like.category) \div 10, (6 * like.place) \div 10}
<1>1. (7 * like.category) \div 10 \in Score /\ (6 * like.place) \div 10 \in Score
  BY Thousandths
<1>2. C \in SUBSET Score /\ C # {}
  BY <1>1
<1> HIDE DEF C
<1>3. Max(C) \in Score
  BY <1>2, Greatest
<1> QED
  BY <1>3 DEF EventScore, C

\* An event that scores too low to be compared is far behind.
Likes(ref) == [i \in DOMAIN Events |-> EventScore(ref.likes[i])]
InSight(scope, calendar) ==
  {i \in DOMAIN Events : /\ InScope(Events[i], scope)
                         /\ calendar \in {0, Events[i].calendar}}

\* So the event that is not ambiguous is ahead of all that are in sight.
LEMMA EventIsClear ==
  ASSUME NEW ref, NEW scope, NEW calendar,
         \A i \in DOMAIN Events : EventScore(ref.likes[i]) \in Score
  PROVE  LET m == ResolveEvent(ref, Events, scope, calendar)
         IN Resolved(m) /\ ~Ambiguous(m) => Ahead(Likes(ref), m.value, InSight(scope, calendar))
<1> DEFINE m == ResolveEvent(ref, Events, scope, calendar)
           likes == Likes(ref)
           inSight == InSight(scope, calendar)
           S == {i \in DOMAIN Events : /\ calendar \in {0, Events[i].calendar}
                                       /\ InScope(Events[i], scope) /\ likes[i] > 200}
<1>1. m = Match(S, likes, -1)
  BY DEF ResolveEvent, Likes
<1>2. S \in SUBSET Nat /\ \A i \in DOMAIN Events : likes[i] \in Score /\ likes[i] \in Nat
  BY InterpreterAssumption, Thousandths DEF Likes
<1>3. inSight \subseteq DOMAIN Events /\ S \subseteq inSight /\ \A i \in inSight \ S : ~(likes[i] > 200)
  BY DEF InSight
<1> HIDE DEF m, likes, inSight, S
<1>4. SUFFICES ASSUME Resolved(m), ~Ambiguous(m)
               PROVE  Ahead(likes, m.value, inSight)
  BY DEF m, likes, inSight
<1>5. m.value \in S /\ Ahead(likes, m.value, S) /\ likes[m.value] >= 550
  <2>1. -1 \in Int /\ -1 <= 430 /\ \A i \in S : likes[i] \in Score
    BY <1>2, <1>3
  <2> QED
    BY <1>1, <1>2, <1>4, <2>1, MatchIsClear
<1>6. ASSUME NEW i \in inSight \ {m.value}
      PROVE  likes[i] + 120 <= likes[m.value]
  <2>1. CASE i \in S
    BY <1>5, <1>6, <2>1 DEF Ahead
  <2>2. CASE i \notin S
    <3>1. likes[i] \in Nat /\ ~(likes[i] > 200) /\ likes[m.value] \in Nat
      BY <1>2, <1>3, <1>5, <1>6, <2>2
    <3> QED
      BY <1>5, <3>1
  <2> QED
    BY <2>1, <2>2
<1> QED
  BY <1>6 DEF Ahead

\* A plan that neither opens an event nor filters people.
Harmless(answer) == \A k \in DOMAIN answer.calls :
  answer.calls[k].name \notin {"highlight_event", "set_people_filter"}

\* What does nothing.
LEMMA NoCalls ==
  /\ Harmless(Clarify) /\ Harmless(Reject) /\ Harmless(Raises)
  /\ \A ctx : Harmless(Escalate(ctx))
BY DEF Harmless, Clarify, Reject, Raises, Escalate, Answer

\* One harmless call.
LEMMA OneCall ==
  ASSUME NEW call, call.name \notin {"highlight_event", "set_people_filter"}
  PROVE  Harmless(Handle(<<call>>))
BY DEF Harmless, Handle, Answer

\* Two of them.
LEMMA TwoCalls ==
  ASSUME NEW call, call.name \notin {"highlight_event", "set_people_filter"},
         NEW next, next.name \notin {"highlight_event", "set_people_filter"}
  PROVE  Harmless(Handle(<<call, next>>))
BY DEF Harmless, Handle, Answer

\* A call is about nobody until somebody is put in.
LEMMA CallNames ==
  ASSUME NEW name, NEW view, NEW day
  PROVE  /\ Call(name).name = name /\ Call(name).who = {}
         /\ ShowView(view, day).name = "show_view" /\ ShowView(view, day).who = {}
BY DEF Call, ShowView

\* The plans that neither open an event nor filter people.
LEMMA OthersHarmless ==
  ASSUME NEW u, NEW intent, NEW ctx, NEW c, NEW scope
  PROVE  /\ intent \in Names(ListIntents) => Harmless(PlanList(u, intent, c))
         /\ intent \in Names(TimerIntents) => Harmless(PlanTimerControl(u, intent, ctx, c))
         /\ Harmless(PlanTimerStart(u, ctx, scope))
         /\ Harmless(PlanShowView(u, scope))
         /\ Harmless(PlanConflicts(scope.start))
         /\ Harmless(PlanQuery(u, intent, ctx, scope))
<1>1. intent \in Names(ListIntents) => Harmless(PlanList(u, intent, c))
  BY NoCalls, OneCall, TwoCalls, CallNames, NamesKnown DEF PlanList
<1>2. intent \in Names(TimerIntents) => Harmless(PlanTimerControl(u, intent, ctx, c))
  BY NoCalls, OneCall, TwoCalls, CallNames, NamesKnown DEF PlanTimerControl
<1>3. Harmless(PlanTimerStart(u, ctx, scope))
  <2>1. \A at : Harmless(Handle(<<[Call("start_timer") EXCEPT !.at = at], ShowView("timer", 0)>>))
    BY TwoCalls, CallNames DEF Call
  <2> QED
    BY <2>1, NoCalls DEF PlanTimerStart
<1>4. Harmless(PlanShowView(u, scope))
  BY NoCalls, OneCall, CallNames DEF PlanShowView
<1>5. Harmless(PlanConflicts(scope.start))
  BY TwoCalls, CallNames DEF PlanConflicts, Call
<1>6. Harmless(PlanQuery(u, intent, ctx, scope))
  BY NoCalls, TwoCalls, CallNames DEF PlanQuery, Call
<1> QED
  BY <1>1, <1>2, <1>3, <1>4, <1>5, <1>6

\* The calendar of the person that was named, or 0.
Owner(u) == IF u.person = <<>> THEN 0 ELSE ResolvePerson(u.person[1]).value

\* _plan_open_event: the event that is opened is clearly ahead.
LEMMA OpenedIsClear ==
  ASSUME NEW u, WellFormed(u), NEW scope,
         NEW k \in DOMAIN PlanOpenEvent(u, scope).calls,
         NEW i \in PlanOpenEvent(u, scope).calls[k].who
  PROVE  Ahead(Likes(u.event[1]), i, InSight(scope, Owner(u)))
<1> DEFINE person == IF u.person = <<>> THEN NoMatch ELSE ResolvePerson(u.person[1])
           calendar == IF Resolved(person) THEN person.value ELSE 0
           event == ResolveEvent(u.event[1], Events, scope, calendar)
<1>1. calendar = Owner(u)
  <2>1. CASE u.person = <<>>
    BY <2>1 DEF NoMatch, Resolved, Owner
  <2>2. CASE u.person # <<>>
    <3>1. person.value # 0 => Resolved(person)
      BY <2>2, PersonIsClear DEF WellFormed
    <3> QED
      BY <2>2, <3>1 DEF Owner
  <2> QED
    BY <2>1, <2>2
<1>2. u.event # <<>> /\ Resolved(event) /\ ~Ambiguous(event)
  BY DEF PlanOpenEvent, Clarify, Answer
<1>3. i = event.value
  BY <1>2 DEF PlanOpenEvent, Handle, Answer, Call
<1>4. \A j \in DOMAIN Events : EventScore(u.event[1].likes[j]) \in Score
  BY <1>2, EventScored DEF WellFormed
<1> HIDE DEF calendar
<1> QED
  BY <1>1, <1>2, <1>3, <1>4, EventIsClear

\* _plan_query: whose agenda is read is clearly ahead.
LEMMA QueriedIsClear ==
  ASSUME NEW u, WellFormed(u), NEW ctx, NEW scope,
         NEW k \in DOMAIN PlanQuery(u, "calendar.query_person", ctx, scope).calls,
         NEW i \in PlanQuery(u, "calendar.query_person", ctx, scope).calls[k].who
  PROVE  Ahead(u.person[1].scores, i, DOMAIN u.person[1].scores)
<1> DEFINE person == IF u.person # <<>> THEN ResolvePerson(u.person[1]) ELSE NoMatch
<1>1. Resolved(person) /\ ~Ambiguous(person)
  BY DEF PlanQuery, Clarify, Answer
<1>2. u.person # <<>>
  BY <1>1 DEF NoMatch, Resolved
<1>3. i = person.value
  <2> DEFINE view == QueryView(scope, ctx)
             data == IF IsRange(scope) THEN "get_events" ELSE "get_agenda"
             first == [Call(data) EXCEPT !.day = scope.start, !.end = scope.end,
                                         !.who = {person.value} \ {0}]
             second == ShowView(view, IF view = "home" THEN 0 ELSE scope.start)
  <2>1. PlanQuery(u, "calendar.query_person", ctx, scope) = Handle(<<first, second>>)
    BY <1>1 DEF PlanQuery
  <2>2. first.who = {person.value} \ {0}
    BY DEF Call
  <2>3. second.who = {}
    BY CallNames
  <2> HIDE DEF first, second
  <2>4. i \in first.who \/ i \in second.who
    BY <2>1 DEF Handle, Answer
  <2> QED
    BY <2>2, <2>3, <2>4
<1> QED
  BY <1>1, <1>2, <1>3, PersonIsClear DEF WellFormed

\* _plan_person_filter: everybody filtered for is clearly ahead in one of the names.
LEMMA FilteredIsClear ==
  ASSUME NEW u, WellFormed(u),
         NEW k \in DOMAIN PlanPersonFilter(u).calls,
         NEW i \in PlanPersonFilter(u).calls[k].who
  PROVE  \E r \in DOMAIN Spoken(u) : Ahead(Spoken(u)[r].scores, i, DOMAIN Spoken(u)[r].scores)
<1> DEFINE spoken == Spoken(u)
           matches == [r \in DOMAIN spoken |-> ResolvePerson(spoken[r])]
           resolved == {matches[r] : r \in {j \in DOMAIN matches : Resolved(matches[j])}}
           who == {m.value : m \in resolved}
<1>1. ~u.everyone
  BY DEF PlanPersonFilter, Handle, Answer, Call
<1>2. ~(resolved = {} \/ \E m \in resolved : Ambiguous(m))
  <2> SUFFICES ASSUME resolved = {} \/ \E m \in resolved : Ambiguous(m)
               PROVE  FALSE
    OBVIOUS
  <2>1. PlanPersonFilter(u) = Clarify
    BY <1>1 DEF PlanPersonFilter
  <2> HIDE DEF resolved
  <2> QED
    BY <2>1 DEF Clarify, Answer
<1>3. PlanPersonFilter(u) = Handle(<<[Call("set_people_filter") EXCEPT !.who = who]>>)
  BY <1>1, <1>2 DEF PlanPersonFilter
<1>4. i \in who
  <2> HIDE DEF who
  <2> QED
    BY <1>3 DEF Handle, Answer, Call
<1>5. PICK r \in DOMAIN spoken : i = matches[r].value /\ Resolved(matches[r])
  BY <1>4
<1>6. matches[r] = ResolvePerson(spoken[r]) /\ ~Ambiguous(matches[r])
  BY <1>2, <1>5
<1>7. Scored(spoken[r].scores)
  BY <1>5 DEF WellFormed
<1> HIDE DEF matches
<1> QED
  BY <1>5, <1>6, <1>7, PersonIsClear

\* What a plan that is carried out touches.
Sure(u, scope, name, answer) == \A k \in DOMAIN answer.calls :
  /\ answer.calls[k].name = "highlight_event" =>
       \A i \in answer.calls[k].who : Ahead(Likes(u.event[1]), i, InSight(scope, Owner(u)))
  /\ name = "calendar.query_person" =>
       \A i \in answer.calls[k].who : Ahead(u.person[1].scores, i, DOMAIN u.person[1].scores)
  /\ answer.calls[k].name = "set_people_filter" =>
       \A i \in answer.calls[k].who :
         \E r \in DOMAIN Spoken(u) : Ahead(Spoken(u)[r].scores, i, DOMAIN Spoken(u)[r].scores)

\* A plan that does neither is sure of what it touches.
LEMMA HarmlessIsSure ==
  ASSUME NEW u, NEW scope, NEW name, name # "calendar.query_person", NEW answer, Harmless(answer)
  PROVE  Sure(u, scope, name, answer)
BY DEF Harmless, Sure

\* So is every plan.
LEMMA PlanIsSure ==
  ASSUME NEW u, WellFormed(u), NEW intent, NEW ctx, NEW c, NEW scope
  PROVE  Sure(u, scope, intent.name, Plan(u, intent, ctx, c, scope))
<1> DEFINE name == intent.name
           plan == Plan(u, intent, ctx, c, scope)
           day == OrToday(scope, ctx)
<1>1. CASE name = "calendar.open_event"
  <2>1. plan = Reject \/ plan = PlanOpenEvent(u, scope)
    BY <1>1, NamesKnown DEF Plan
  <2>2. \A k \in DOMAIN PlanOpenEvent(u, scope).calls :
          PlanOpenEvent(u, scope).calls[k].name = "highlight_event"
    BY DEF PlanOpenEvent, Clarify, Handle, Answer, Call
  <2>3. Sure(u, scope, name, PlanOpenEvent(u, scope))
    BY <1>1, <2>2, OpenedIsClear DEF Sure
  <2> QED
    BY <1>1, <2>1, <2>3, NoCalls, HarmlessIsSure
<1>2. CASE name = "calendar.query_person"
  <2>1. plan = Reject \/ plan = PlanQuery(u, "calendar.query_person", ctx, day)
    BY <1>2, NamesKnown DEF Plan
  <2>2. Sure(u, scope, name, Reject)
    BY DEF Sure, Reject, Answer
  <2>3. Sure(u, scope, name, PlanQuery(u, "calendar.query_person", ctx, day))
    <3>1. Harmless(PlanQuery(u, "calendar.query_person", ctx, day))
      BY OthersHarmless
    <3> QED
      BY <3>1, QueriedIsClear DEF Sure, Harmless
  <2> QED
    BY <2>1, <2>2, <2>3
<1>3. CASE name = "calendar.person_filter"
  <2>1. plan = Reject \/ plan = PlanPersonFilter(u)
    BY <1>3, NamesKnown DEF Plan
  <2>2. \A k \in DOMAIN PlanPersonFilter(u).calls :
          PlanPersonFilter(u).calls[k].name = "set_people_filter"
    <3>1. \/ PlanPersonFilter(u) = Clarify
          \/ \E call : call.name = "set_people_filter" /\ PlanPersonFilter(u) = Handle(<<call>>)
      <4> DEFINE F(who) == [Call("set_people_filter") EXCEPT !.who = who]
      <4>1. \A who : F(who).name = "set_people_filter"
        BY DEF Call
      <4>2. Call("set_people_filter").name = "set_people_filter"
        BY CallNames
      <4>3. \/ PlanPersonFilter(u) = Clarify \/ PlanPersonFilter(u) = Handle(<<Call("set_people_filter")>>)
            \/ \E who : PlanPersonFilter(u) = Handle(<<F(who)>>)
        BY DEF PlanPersonFilter
      <4> HIDE DEF F
      <4> QED
        BY <4>1, <4>2, <4>3
    <3> QED
      BY <3>1 DEF Clarify, Handle, Answer
  <2>3. Sure(u, scope, name, PlanPersonFilter(u))
    BY <1>3, <2>2, FilteredIsClear DEF Sure
  <2> QED
    BY <1>3, <2>1, <2>3, NoCalls, HarmlessIsSure
<1>4. CASE name \notin {"calendar.open_event", "calendar.query_person", "calendar.person_filter"}
  <2>1. Harmless(plan)
    <3>1. \/ plan = Reject \/ plan = Escalate(ctx)
          \/ name \in Names(ListIntents) /\ plan = PlanList(u, name, c)
          \/ name \in Names(TimerIntents) /\ plan = PlanTimerControl(u, name, ctx, c)
          \/ plan = PlanTimerStart(u, ctx, scope) \/ plan = PlanShowView(u, scope)
          \/ plan = PlanConflicts(day.start) \/ plan = PlanQuery(u, name, ctx, day)
      <4>1. CASE name \in Names(ListIntents)
        <5>1. plan = Reject \/ plan = PlanList(u, name, c)
          BY <4>1, NamesKnown DEF Plan
        <5> QED
          BY <4>1, <5>1
      <4>2. CASE name = "timer.start"
        <5>1. plan = Reject \/ plan = PlanTimerStart(u, ctx, scope)
          BY <4>2, NamesKnown DEF Plan
        <5> QED
          BY <5>1
      <4>3. CASE name \in Names(TimerIntents) \ {"timer.start"}
        <5>1. plan = Reject \/ plan = PlanTimerControl(u, name, ctx, c)
          BY <4>3, NamesKnown DEF Plan
        <5> QED
          BY <4>3, <5>1
      <4>4. CASE name \notin Names(ListIntents) \cup Names(TimerIntents) \cup {"timer.start"}
        <5>1. CASE name \in {"calendar.plan", "calendar.show_view", "calendar.conflicts"}
          <6>1. name = "calendar.plan" => plan = Reject \/ plan = Escalate(ctx)
            BY <4>4, <5>1 DEF Plan
          <6>2. name = "calendar.show_view" => plan = Reject \/ plan = PlanShowView(u, scope)
            BY <4>4, <5>1 DEF Plan
          <6>3. name = "calendar.conflicts" => plan = Reject \/ plan = PlanConflicts(day.start)
            BY <4>4, <5>1 DEF Plan
          <6> QED
            BY <5>1, <6>1, <6>2, <6>3
        <5>2. CASE name = "calendar.query_day"
          <6>1. plan = Reject \/ plan = PlanQuery(u, name, ctx, day)
            BY <4>4, <5>2 DEF Plan
          <6> QED
            BY <6>1
        <5>3. CASE name \notin {"calendar.plan", "calendar.show_view", "calendar.conflicts",
                               "calendar.query_day"}
          <6>1. plan = Reject \/ plan = Escalate(ctx)
            BY <1>4, <4>4, <5>3 DEF Plan
          <6> QED
            BY <6>1
        <5> QED
          BY <5>1, <5>2, <5>3
      <4> QED
        BY <4>1, <4>2, <4>3, <4>4
    <3> HIDE DEF plan
    <3> QED
      BY <3>1, NoCalls, OthersHarmless
  <2> QED
    BY <1>4, <2>1, HarmlessIsSure
<1> QED
  BY <1>1, <1>2, <1>3, <1>4

\* A person or an event is acted on only when it is clearly the one that was
\* named (entities.py and the plans), whatever was said, and of whomever.
THEOREM NothingIsGuessed == VoiceSpec => []NeverAGuess
<1>1. WordsInv => NeverAGuess
  <2> DEFINE u == asked.u
             answer == made.answer
             scope == made.scope
             top == INTENTS[TopIntent(u)]
  <2> SUFFICES ASSUME WordsInv, answer.disposition = "handled_locally"
               PROVE  Sure(u, scope, answer.intent, answer)
    BY DEF NeverAGuess, Sure, Ahead, Likes, InSight, Owner
  <2>1. answer = Decide(u, asked.stt, asked.ctx, scope)
    BY DEF WordsInv, Made
  <2>2. asked # Unasked
    <3>1. Clarify.disposition # "handled_locally"
      BY DEF Clarify, Answer
    <3> QED
      BY <2>1, <3>1, NothingSaid
  <2>3. WellFormed(u)
    BY <2>2, VoiceAssumption DEF WordsInv
  <2>4. PICK c : answer = [Plan(u, top, asked.ctx, c, scope) EXCEPT !.intent = top.name]
    <3>1. Escalate(asked.ctx).disposition # "handled_locally"
      BY DEF Escalate, Clarify, Answer
    <3>2. Clarify.disposition # "handled_locally" /\ Raises.disposition # "handled_locally"
      BY DEF Clarify, Raises, Answer
    <3> QED
      BY <2>1, <3>1, <3>2 DEF Decide
  <2>5. answer.calls = Plan(u, top, asked.ctx, c, scope).calls
    BY <2>4
  <2>6. answer.intent = top.name
    BY <2>4
  <2> HIDE DEF u, answer, scope, top
  <2> QED
    BY <2>3, <2>5, <2>6, PlanIsSure DEF Sure
<1> QED
  BY <1>1, WordsInvAlways, PTL

-----------------------------------------------------------------------------
(***************************************************************************)
(* The types of all parts.  Each needs, beside its invariant, a few bounds *)
(* that nothing above depends on; a turn also that no answer has more than *)
(* two calls.                                                              *)
(***************************************************************************)
\* An answer of at most two calls.
Short(calls) == Len(calls) \in {0, 1, 2}
Brief(answer) == Short(answer.calls)

\* No calls, one, or two.
LEMMA AFewCalls == Short(<<>>) /\ \A a, b : Short(<<a>>) /\ Short(<<a, b>>)
BY DEF Short

\* The answers plans are made of have no more.
LEMMA AnswersBrief ==
  /\ Brief(Clarify) /\ Brief(Reject) /\ Brief(Raises)
  /\ \A a : Brief(Handle(<<a>>))
  /\ \A a, b : Brief(Handle(<<a, b>>))
  /\ \A ctx : Brief(Escalate(ctx))
<1>1. \A d, s : Answer(d, s).calls = s
  BY DEF Answer
<1>2. \A s : Handle(s).calls = s
  BY <1>1 DEF Handle
<1>4. Clarify.calls = <<>> /\ Reject.calls = <<>> /\ Raises.calls = <<>>
  BY <1>1 DEF Clarify, Reject, Raises
<1>5. \A ctx : Escalate(ctx).calls = <<>>
  BY <1>1, <1>4 DEF Escalate
<1> QED
  BY <1>2, <1>4, <1>5, AFewCalls DEF Brief

\* A timer that is started.
LEMMA TimerStartBrief == ASSUME NEW u, NEW ctx, NEW scope PROVE Brief(PlanTimerStart(u, ctx, scope))
<1>1. \A at : Brief(Handle(<<[Call("start_timer") EXCEPT !.at = at], ShowView("timer", 0)>>))
  BY AnswersBrief
<1> QED
  BY <1>1, AnswersBrief DEF PlanTimerStart

\* Every plan.
LEMMA PlanBrief ==
  ASSUME NEW u, NEW intent, NEW ctx, NEW c, NEW scope
  PROVE  Brief(Plan(u, intent, ctx, c, scope))
<1> DEFINE name == intent.name
<1>1. name \in Names(ListIntents) => Brief(PlanList(u, name, c))
  <2> SUFFICES ASSUME name \in Names(ListIntents) PROVE Brief(PlanList(u, name, c))
    OBVIOUS
  <2>1. \A a, b : Brief(Handle(<<Call(a), ShowView(b, 0)>>))
    BY AnswersBrief
  <2>2. name \in {"list.add", "list.remove", "list.check", "list.clear", "list.show"}
    BY NamesKnown
  <2> QED
    BY <2>1, <2>2, AnswersBrief DEF PlanList
<1>2. Brief(PlanTimerControl(u, name, ctx, c))
  BY AnswersBrief DEF PlanTimerControl
<1>3. Brief(PlanShowView(u, scope))
  BY AnswersBrief DEF PlanShowView
<1>4. Brief(PlanPersonFilter(u))
  BY AnswersBrief DEF PlanPersonFilter
<1>5. Brief(PlanOpenEvent(u, scope))
  BY AnswersBrief DEF PlanOpenEvent
<1>6. \A day : Brief(PlanConflicts(day))
  BY AnswersBrief DEF PlanConflicts
<1>7. \A s : Brief(PlanQuery(u, name, ctx, s))
  BY AnswersBrief DEF PlanQuery
<1> QED
  BY <1>1, <1>2, <1>3, <1>4, <1>5, <1>6, <1>7, AnswersBrief, TimerStartBrief DEF Plan

\* interpret() itself.
LEMMA DecideBrief ==
  ASSUME NEW u, NEW stt, NEW ctx, NEW scope
  PROVE  Brief(Decide(u, stt, ctx, scope))
BY AnswersBrief, PlanBrief DEF Decide, Brief

\* The gate, within its commands.
WakeBounds ==
  /\ gateBridge \in {"dial", "relay", "backoff", "ended"}
  /\ commands \in 0 .. MaxCommands

\* A step of the gate keeps them.
LEMMA WakeBoundsStep == WakeInv /\ WakeBounds /\ [WakeBridgeNext]_gateVars => WakeBounds'
<1> SUFFICES ASSUME WakeInv, WakeBounds, [WakeBridgeNext]_gateVars PROVE WakeBounds'
  OBVIOUS
<1>1. commands \in Nat /\ commands <= MaxCommands /\ MaxCommands \in Nat
  BY WakeBridgeAssumption DEF WakeBounds, WakeInv, WakeTypes
<1>2. CASE KioskSends
  BY <1>1, <1>2 DEF KioskSends, WakeBounds
<1>3. CASE UNCHANGED commands /\ gateBridge' \in {gateBridge, "ended", "relay", "backoff", "dial"}
  BY <1>3 DEF WakeBounds
<1>4. KioskSends \/ UNCHANGED commands
  BY DEF WakeBridgeNext, GatePump, GateTask, KioskCloses, PumpQueues, PumpEnds, GateConnects, GateRefuses,
         GateDialsAgain, LinkEnds, GateWrites, GateBreaks, DeviceReads, DeviceStarts, GateFoundDead, gateVars
<1>5. gateBridge' \in {gateBridge, "ended", "relay", "backoff", "dial"}
  BY DEF WakeBridgeNext, GatePump, GateTask, KioskSends, KioskCloses, PumpQueues, PumpEnds, GateConnects, GateRefuses,
         GateDialsAgain, LinkEnds, GateWrites, GateBreaks, DeviceReads, DeviceStarts, GateFoundDead, gateVars
<1> QED
  BY <1>2, <1>3, <1>4, <1>5

\* The gate.
LEMMA WakeTyped == VoiceSpec => []WakeBridgeTypeOK
<1>1. VoiceInit => WakeBounds
  BY WakeBridgeAssumption DEF VoiceInit, WakeBridgeInit, WakeBounds
<1>2. WakeInv /\ WakeBounds /\ [VoiceNext]_voiceVars => WakeBounds'
  BY WakeBoundsStep, WakePartSteps
<1>3. WakeInv /\ WakeBounds => WakeBridgeTypeOK
  BY DEF WakeInv, WakeTypes, WakeBounds, WakeBridgeTypeOK
<1> QED
  BY <1>1, <1>2, <1>3, WakeInvAlways, PTL DEF VoiceSpec

\* The grants: the invariant says it all but the number of the tickets.
LEMMA GrantsTyped == VoiceSpec => []GrantsTypeOK
<1>1. GrantsInv => GrantsTypeOK
  <2> SUFFICES ASSUME GrantsInv PROVE GrantsTypeOK
    OBVIOUS
  <2>1. GrantsTypes /\ TicketsInv /\ (token # None => Limited(token))
    BY DEF GrantsInv
  <2>2. Cardinality(DOMAIN tickets) <= MaxTickets
    <3>1. PICK n \in 0 .. MaxTickets : DOMAIN tickets = 1 .. n
      BY <2>1 DEF TicketsInv
    <3>2. n \in Int /\ n >= 0 /\ n <= MaxTickets /\ 1 \in Int
      BY <3>1, GrantsAssumption
    <3>3. Cardinality(1 .. n) = n
      BY <3>2, FS_Interval
    <3> QED
      BY <3>1, <3>2, <3>3
  <2>3. \A r \in Requests : request[r].at \in {"idle", "lock", "snapshot", "mint"}
    BY <2>1 DEF GrantsTypes, Request
  <2> QED
    BY <2>1, <2>2, <2>3 DEF GrantsTypes, GrantsTypeOK, Limited
<1> QED
  BY <1>1, GrantsInvAlways, PTL

\* What is said of the speaker beside SpeakerTypes.
SpeakerLinks ==
  /\ speaker.socket # "none" <=> speaker.route = "invoke"
  /\ forwarder \in {"ended", "dial", "prime", "wait", "drain", "close", "backoff"}
  /\ stream \in {"none", "good", "ended", "silent"}
  /\ stats.link = "up" <=> stream # "none"
  /\ Len(audioBuffer) <= BufferMax

\* No sound fits in any buffer.
LEMMA NoSound == Len(<<>>) = 0 /\ 0 <= BufferMax /\ NoStats.link = "down"
BY SpeakerAssumption DEF NoStats

\* _pump_client: half the buffer is left when there is too much.
LEMMA SoundFits == ASSUME SpeakerInv, SpeakerLinks, Sound PROVE SpeakerLinks'
<1> DEFINE all == Append(audioBuffer, connects)
           over == Len(all) > BufferMax
           from == Len(all) - BufferMax \div 2 + 1
<1>1. /\ audioBuffer' = IF over THEN SubSeq(all, from, Len(all)) ELSE all
      /\ stats' = IF over THEN [stats EXCEPT !.sheds = @ + 1] ELSE stats
      /\ UNCHANGED <<speaker, forwarder, stream>>
  BY DEF Sound
<1>2. stats \in Frame /\ audioBuffer \in Seq(Nat) /\ connects \in Nat
  BY DEF SpeakerInv, SpeakerTypes
<1>3. stats'.link = stats.link
  BY <1>1, <1>2 DEF Frame
<1>4. Len(audioBuffer') <= BufferMax
  <2>1. all \in Seq(Nat) /\ Len(all) \in Nat
    BY <1>2
  <2>2. CASE over
    <3>1. from \in Int /\ 1 <= from /\ from <= Len(all) + 1 /\ Len(all) - from + 1 <= BufferMax
      BY <2>1, <2>2, SpeakerAssumption
    <3> HIDE DEF all, from
    <3>2. Len(SubSeq(all, from, Len(all))) = IF from <= Len(all) THEN Len(all) - from + 1 ELSE 0
      BY <2>1, <3>1
    <3> QED
      BY <1>1, <2>1, <2>2, <3>1, <3>2, SpeakerAssumption
  <2>3. CASE ~over
    BY <1>1, <2>1, <2>3, SpeakerAssumption
  <2> QED
    BY <2>2, <2>3
<1> QED
  BY <1>1, <1>3, <1>4 DEF SpeakerLinks

\* The kiosk's socket and the forwarder begin and end together.
LEMMA SocketLinks ==
  ASSUME SpeakerInv, SpeakerLinks,
         (\E selection \in {"screen", "invoke"} : RouteTo(selection))
           \/ SocketOpens \/ Reconnects \/ SocketGone \/ StatusShown
  PROVE  SpeakerLinks'
<1>1. /\ speaker \in [route : {"screen", "invoke"}, socket : {"none", "retry", "opening", "open"},
                      healthy : BOOLEAN, sheds : Nat, reconnects : Nat]
  BY DEF SpeakerInv, SpeakerTypes
<1>2. CASE \E selection \in {"screen", "invoke"} : RouteTo(selection)
  <2>1. PICK selection \in {"screen", "invoke"} : RouteTo(selection)
    BY <1>2
  <2>2. speaker'.route = selection /\ speaker'.socket = IF selection = "invoke" THEN "opening" ELSE "none"
    BY <2>1 DEF RouteTo, OnScreen
  <2> QED
    BY <2>1, <2>2, NoSound DEF RouteTo, BridgeEnds, SpeakerLinks
<1>3. CASE SocketOpens
  <2>1. speaker'.route = speaker.route /\ speaker'.socket = "open"
    BY <1>1, <1>3 DEF SocketOpens
  <2> QED
    BY <1>3, <2>1, NoSound DEF SocketOpens, BridgeBegins, SpeakerLinks
<1>4. CASE Reconnects
  <2>1. speaker'.route = speaker.route /\ speaker'.socket = "opening" /\ speaker.socket = "retry"
    BY <1>1, <1>4 DEF Reconnects
  <2> QED
    BY <1>4, <2>1 DEF Reconnects, bridgeVars, SpeakerLinks
<1>5. CASE SocketGone
  <2>1. speaker'.route = speaker.route /\ speaker'.socket = "retry" /\ speaker.socket # "none"
    BY <1>1, <1>5 DEF SocketGone
  <2> QED
    BY <1>5, <2>1, NoSound DEF SocketGone, BridgeEnds, SpeakerLinks
<1>6. CASE StatusShown
  <2>1. speaker'.route = speaker.route /\ speaker'.socket = speaker.socket
    BY <1>1, <1>6 DEF StatusShown
  <2> QED
    BY <1>6, <2>1 DEF StatusShown, bridgeVars, SpeakerLinks
<1> QED
  BY <1>2, <1>3, <1>4, <1>5, <1>6

\* The link is up while there is a connection.
LEMMA BridgeLinks ==
  ASSUME SpeakerInv, SpeakerLinks,
         Forwarder \/ Ticks \/ ReportsShed \/ Rested
           \/ (\E how \in {"ended", "silent"} : DeviceGoes(how)) \/ DeviceBack \/ Probed
           \/ UNCHANGED speakerVars
  PROVE  SpeakerLinks'
<1>1. stats \in Frame
  BY DEF SpeakerInv, SpeakerTypes
<1>2. CASE SpeakerConnects
  <2>1. stats'.link = "up"
    BY <1>1, <1>2 DEF SpeakerConnects, Frame
  <2> QED
    BY <1>2, <2>1, NoSound DEF SpeakerConnects, DropsOldAudio, SpeakerLinks
<1>3. CASE SpeakerDrops
  <2>1. stats'.link = "down"
    BY <1>1, <1>3 DEF SpeakerDrops, Frame
  <2> QED
    BY <1>3, <2>1 DEF SpeakerDrops, SpeakerLinks
<1>4. CASE SpeakerRefuses \/ SpeakerDialsAgain \/ Primed \/ Forwarded
  BY <1>4 DEF SpeakerRefuses, SpeakerDialsAgain, Primed, Forwarded, SendFails, SpeakerLinks
<1>5. CASE Forwards
  BY <1>5, NoSound DEF Forwards, SpeakerLinks
<1>6. CASE Ticks \/ ReportsShed \/ Rested
  BY <1>6 DEF Ticks, ReportsShed, Rested, SpeakerLinks
<1>7. CASE (\E how \in {"ended", "silent"} : DeviceGoes(how)) \/ DeviceBack \/ Probed \/ UNCHANGED speakerVars
  BY <1>7 DEF DeviceGoes, DeviceBack, Probed, bridgeVars, speakerVars, SpeakerLinks
<1> QED
  BY <1>2, <1>3, <1>4, <1>5, <1>6, <1>7 DEF Forwarder

\* The speaker.
LEMMA SpeakerTyped == VoiceSpec => []SpeakerTypeOK
<1>1. VoiceInit => SpeakerLinks
  BY NoSound DEF VoiceInit, SpeakerInit, OnScreen, SpeakerLinks
<1>2. SpeakerInv /\ SpeakerLinks /\ [SpeakerNext]_speakerVars => SpeakerLinks'
  BY SoundFits, SocketLinks, BridgeLinks DEF SpeakerNext
<1>3. SpeakerInv /\ SpeakerLinks /\ [VoiceNext]_voiceVars => SpeakerLinks'
  BY <1>2, SpeakerPartSteps
<1>4. SpeakerInv /\ SpeakerLinks => SpeakerTypeOK
  BY DEF SpeakerInv, SpeakerTypes, SpeakerLinks, SpeakerTypeOK
<1> QED
  BY <1>1, <1>3, <1>4, SpeakerInvAlways, PTL DEF VoiceSpec

\* A connection, within its bounds.
Places == {"closed", "build", "receive", "accept", "finalize", "think", "wait", "done", "raised"}
Inboxes == Seq({"audio", "end", "result"})
Bounded(c) ==
  /\ c.at \in Places /\ c.told \in SUBSET {"calls", "reply", "complete"}
  /\ c.inbox \in Inboxes /\ c.chunks \in Nat /\ c.chunks <= Chunks /\ c.calls \in {0, 1, 2}

LocalBounds ==
  /\ streaming \in BOOLEAN /\ \A k \in Kiosks : turns[k] <= Turns[k]
  /\ \A k \in Kiosks : Bounded(conn[k])

\* How a connection starts.
LEMMA ClosedBounded ==
  /\ Bounded(Closed) /\ Bounded([Closed EXCEPT !.at = "build"])
  /\ \A r : Bounded([Closed EXCEPT !.at = "receive", !.rec = r])
<1>1. <<>> \in Inboxes /\ 0 <= Chunks
  BY LocalVoiceAssumption DEF Inboxes
<1> QED
  BY <1>1 DEF Closed, Bounded, Places

\* A frame comes, or is read.
LEMMA InboxMoves ==
  ASSUME NEW s \in Inboxes
  PROVE  /\ \A f \in {"audio", "end", "result"} : Append(s, f) \in Inboxes
         /\ s # <<>> => Tail(s) \in Inboxes
BY DEF Inboxes

\* What a turn is answered.
LEMMA AnswersOfTurns == \A a \in Answers : Len(a.calls) \in {0, 1, 2}
BY DecideBrief DEF Answers, Interpret, Brief, Short

\* One connection changes, within its bounds.
LEMMA OneBounded ==
  ASSUME LocalInv, LocalBounds, NEW k \in Kiosks, NEW c, Bounded(c), conn' = [conn EXCEPT ![k] = c],
         UNCHANGED <<streaming, turns>>
  PROVE  LocalBounds'
<1>1. DOMAIN conn = Kiosks
  BY DEF LocalInv, LocalTypes
<1>2. \A j \in Kiosks : conn'[j] = IF j = k THEN c ELSE conn[j]
  BY <1>1
<1>3. \A j \in Kiosks : Bounded(conn'[j])
  BY <1>2 DEF LocalBounds
<1> QED
  BY <1>3 DEF LocalBounds, Bounded

\* A turn that goes on.
LEMMA TurnBounded ==
  ASSUME LocalInv, LocalBounds, NEW k \in Kiosks, Pipeline(k) \/ Send(k) \/ Close(k)
  PROVE  LocalBounds'
<1> DEFINE c == conn[k]
<1>1. DOMAIN conn = Kiosks /\ DOMAIN c = Fields
  BY DEF LocalInv, LocalTypes
<1>2. Bounded(c)
  BY DEF LocalBounds
<1>3. /\ \A f \in {"audio", "end", "result"} : Append(c.inbox, f) \in Inboxes
      /\ c.inbox # <<>> => Tail(c.inbox) \in Inboxes
  BY <1>2, InboxMoves DEF Bounded
<1>4. SUFFICES ASSUME TRUE PROVE /\ UNCHANGED <<streaming, turns>>
                                 /\ \E d : Bounded(d) /\ conn' = [conn EXCEPT ![k] = d]
  BY OneBounded
<1>5. CASE Built(k)
  BY <1>5, ClosedBounded DEF Built, Begin
<1>6. CASE Close(k)
  BY <1>6, ClosedBounded DEF Close
<1>7. CASE Send(k)
  <2>1. CASE c.chunks < Chunks /\ conn' = [conn EXCEPT ![k].inbox = Append(@, "audio"), ![k].chunks = @ + 1]
    <3> DEFINE d == [c EXCEPT !.inbox = Append(c.inbox, "audio"), !.chunks = c.chunks + 1]
    <3>1. conn' = [conn EXCEPT ![k] = d]
      BY <1>1, <2>1 DEF Fields
    <3>2. Bounded(d)
      BY <1>1, <1>2, <1>3, <2>1, LocalVoiceAssumption DEF Fields, Bounded
    <3> QED
      BY <1>7, <3>1, <3>2 DEF Send
  <2>2. CASE conn' = [conn EXCEPT ![k].inbox = Append(@, "end"), ![k].ended = TRUE]
    <3> DEFINE d == [c EXCEPT !.inbox = Append(c.inbox, "end"), !.ended = TRUE]
    <3>1. conn' = [conn EXCEPT ![k] = d]
      BY <1>1, <2>2 DEF Fields
    <3>2. Bounded(d)
      BY <1>1, <1>2, <1>3 DEF Fields, Bounded
    <3> QED
      BY <1>7, <3>1, <3>2 DEF Send
  <2>3. CASE c.calls > 0 /\ conn' = [conn EXCEPT ![k].inbox = Append(@, "result"), ![k].calls = @ - 1]
    <3> DEFINE d == [c EXCEPT !.inbox = Append(c.inbox, "result"), !.calls = c.calls - 1]
    <3>1. conn' = [conn EXCEPT ![k] = d]
      BY <1>1, <2>3 DEF Fields
    <3>2. Bounded(d)
      BY <1>1, <1>2, <1>3, <2>3 DEF Fields, Bounded
    <3> QED
      BY <1>7, <3>1, <3>2 DEF Send
  <2> QED
    BY <1>7, <2>1, <2>2, <2>3 DEF Send
<1>8. CASE Receive(k)
  <2>1. c.at \in {"receive", "done"} /\ c.inbox # <<>> /\ UNCHANGED <<streaming, turns>>
    BY <1>8 DEF Receive
  <2>2. PICK at \in {"accept", "finalize", c.at} :
          conn' = [conn EXCEPT ![k].inbox = Tail(@), ![k].at = at,
                               ![k].finalized = @ \/ Head(c.inbox) = "end"]
    BY <1>8 DEF Receive
  <2> DEFINE d == [c EXCEPT !.inbox = Tail(c.inbox), !.at = at,
                            !.finalized = c.finalized \/ Head(c.inbox) = "end"]
  <2>3. conn' = [conn EXCEPT ![k] = d]
    BY <1>1, <2>2 DEF Fields
  <2>4. Bounded(d)
    BY <1>1, <1>2, <1>3, <2>1, <2>2 DEF Fields, Bounded, Places
  <2> QED
    BY <2>1, <2>3, <2>4
<1>9. CASE Accept(k)
  <2>1. UNCHANGED <<streaming, turns>>
    BY <1>9 DEF Accept
  <2>2. \/ conn' = [conn EXCEPT ![k].at = "receive"]
        \/ \E held : conn' = [conn EXCEPT ![k].at = "think", ![k].finalized = TRUE, ![k].heard = held]
    BY <1>9 DEF Accept
  <2>3. CASE conn' = [conn EXCEPT ![k].at = "receive"]
    <3>1. conn' = [conn EXCEPT ![k] = [c EXCEPT !.at = "receive"]]
      BY <1>1, <2>3 DEF Fields
    <3>2. Bounded([c EXCEPT !.at = "receive"])
      BY <1>1, <1>2 DEF Fields, Bounded, Places
    <3> QED
      BY <2>1, <3>1, <3>2
  <2>4. ASSUME NEW held, conn' = [conn EXCEPT ![k].at = "think", ![k].finalized = TRUE, ![k].heard = held]
        PROVE  \E d : Bounded(d) /\ conn' = [conn EXCEPT ![k] = d]
    <3> DEFINE d == [c EXCEPT !.at = "think", !.finalized = TRUE, !.heard = held]
    <3>1. conn' = [conn EXCEPT ![k] = d]
      BY <1>1, <2>4 DEF Fields
    <3>2. Bounded(d)
      BY <1>1, <1>2 DEF Fields, Bounded, Places
    <3> QED
      BY <3>1, <3>2
  <2> QED
    BY <2>1, <2>2, <2>3, <2>4
<1>10. CASE Finalize(k)
  <2>1. UNCHANGED <<streaming, turns>>
    BY <1>10 DEF Finalize
  <2>2. PICK at \in {"done", "think"}, told \in {{"complete"}, {}}, heard \in {buffer[c.rec]} :
          conn' = [conn EXCEPT ![k].at = at, ![k].heard = heard, ![k].told = told]
    BY <1>10 DEF Finalize
  <2> DEFINE d == [c EXCEPT !.at = at, !.heard = heard, !.told = told]
  <2>3. conn' = [conn EXCEPT ![k] = d]
    BY <1>1, <2>2 DEF Fields
  <2>4. Bounded(d)
    BY <1>1, <1>2, <2>2 DEF Fields, Bounded, Places
  <2> QED
    BY <2>1, <2>3, <2>4
<1>11. CASE Think(k)
  <2>1. UNCHANGED <<streaming, turns>>
    BY <1>11 DEF Think
  <2>2. PICK at \in {"raised", "wait", "done"}, told \in SUBSET {"calls", "reply", "complete"}, answer \in Answers :
          conn' = [conn EXCEPT ![k].at = at, ![k].calls = Len(answer.calls), ![k].told = told]
    BY <1>11 DEF Think
  <2> DEFINE d == [c EXCEPT !.at = at, !.calls = Len(answer.calls), !.told = told]
  <2>3. conn' = [conn EXCEPT ![k] = d]
    BY <1>1, <2>2 DEF Fields
  <2>4. Bounded(d)
    BY <1>1, <1>2, <2>2, AnswersOfTurns DEF Fields, Bounded, Places
  <2> QED
    BY <2>1, <2>3, <2>4
<1>12. CASE Timeout(k)
  <2>1. UNCHANGED <<streaming, turns>>
    BY <1>12 DEF Timeout
  <2> DEFINE d == [c EXCEPT !.at = "done", !.told = c.told \cup {"reply", "complete"}]
  <2>2. conn' = [conn EXCEPT ![k] = d]
    BY <1>1, <1>12 DEF Timeout, Fields
  <2>3. Bounded(d)
    BY <1>1, <1>2 DEF Fields, Bounded, Places
  <2> QED
    BY <2>1, <2>2, <2>3
<1> QED
  BY <1>5, <1>6, <1>7, <1>8, <1>9, <1>10, <1>11, <1>12 DEF Pipeline

\* A turn that begins.
LEMMA OpenBounded ==
  ASSUME LocalInv, LocalBounds, NEW k \in Kiosks, Open(k)
  PROVE  LocalBounds'
<1>1. /\ DOMAIN conn = Kiosks /\ turns \in [Kiosks -> Nat] /\ turns[k] < Turns[k] /\ Turns[k] \in Nat
      /\ turns' = [turns EXCEPT ![k] = @ + 1] /\ UNCHANGED streaming
  BY LocalVoiceAssumption DEF LocalInv, LocalTypes, Open
<1>2. \A j \in Kiosks : turns'[j] <= Turns[j]
  BY <1>1 DEF LocalBounds
<1>3. PICK d : Bounded(d) /\ conn' = [conn EXCEPT ![k] = d]
  <2>1. CASE shared = 0
    BY <2>1, ClosedBounded DEF Open
  <2>2. CASE shared # 0
    BY <2>2, ClosedBounded DEF Open, Begin
  <2> QED
    BY <2>1, <2>2
<1>4. \A j \in Kiosks : conn'[j] = IF j = k THEN d ELSE conn[j]
  BY <1>1, <1>3
<1>5. \A j \in Kiosks : Bounded(conn'[j])
  BY <1>3, <1>4 DEF LocalBounds
<1> QED
  BY <1>1, <1>2, <1>5 DEF LocalBounds, Bounded

\* The turns.
LEMMA LocalTyped == VoiceSpec => []LocalTypeOK
<1>1. VoiceInit => LocalBounds
  <2> SUFFICES ASSUME VoiceInit PROVE LocalBounds
    OBVIOUS
  <2>1. streaming \in BOOLEAN /\ conn = [k \in Kiosks |-> Closed] /\ turns = [k \in Kiosks |-> 0]
    BY DEF VoiceInit, Init
  <2>2. \A k \in Kiosks : conn[k] = Closed /\ turns[k] = 0 /\ Turns[k] \in Nat
    BY <2>1, LocalVoiceAssumption
  <2>3. \A k \in Kiosks : turns[k] <= Turns[k]
    BY <2>2
  <2>4. \A k \in Kiosks : Bounded(conn[k])
    BY <2>2, ClosedBounded
  <2> QED
    BY <2>1, <2>3, <2>4 DEF LocalBounds
<1>2. LocalInv /\ LocalBounds /\ [Next]_vars => LocalBounds'
  <2>1. ASSUME LocalBounds, UNCHANGED vars PROVE LocalBounds'
    BY <2>1 DEF LocalBounds, Bounded, vars
  <2> QED
    BY <2>1, TurnBounded, OpenBounded DEF Next
<1>3. LocalInv /\ LocalBounds /\ [VoiceNext]_voiceVars => LocalBounds'
  BY <1>2, LocalPartSteps
<1>4. LocalInv /\ LocalBounds => LocalTypeOK
  <2> SUFFICES ASSUME LocalInv, LocalBounds PROVE LocalTypeOK
    OBVIOUS
  <2>1. LocalTypes /\ Room
    BY DEF LocalInv
  <2>2. built \in 0 .. Cardinality(Kiosks)
    <3>1. Cardinality(Building) \in Nat /\ Cardinality(Kiosks) \in Nat
      BY Counting DEF Building
    <3> QED
      BY <2>1, <3>1 DEF Room, LocalTypes
  <2>3. \A k \in Kiosks : turns[k] \in 0 .. Turns[k]
    BY <2>1, LocalVoiceAssumption DEF LocalTypes, LocalBounds
  <2>4. ASSUME NEW k \in Kiosks
        PROVE  conn[k].chunks \in 0 .. Chunks /\ conn[k].calls \in 0 .. 2 /\ conn[k].rec \in 0 .. built
    <3>1. conn[k].chunks \in 0 .. Chunks /\ conn[k].calls \in 0 .. 2
      BY LocalVoiceAssumption DEF LocalBounds, Bounded
    <3>2. conn[k].rec \in 0 .. built
      BY <2>1 DEF LocalTypes
    <3> QED
      BY <3>1, <3>2
  <2>5. \A k \in Kiosks : conn[k].at \in Places /\ conn[k].told \subseteq {"calls", "reply", "complete"}
                          /\ conn[k].inbox \in Inboxes
    BY DEF LocalBounds, Bounded
  <2> QED
    BY <2>1, <2>2, <2>3, <2>4, <2>5 DEF LocalBounds, LocalTypes, LocalTypeOK, Places, Inboxes
<1> QED
  BY <1>1, <1>3, <1>4, LocalInvAlways, PTL DEF VoiceSpec

\* Every part keeps its types, and whatever is said is answered in one of the
\* ways interpret() has.
THEOREM VoiceTyped == VoiceSpec => []VoiceTypesOK
<1>1. WordsInv => made.answer.disposition \in Outcomes
  BY DecideEnds DEF WordsInv, Made, Ends
<1>2. /\ LocalTypeOK /\ GrantsTypeOK /\ WakeBridgeTypeOK /\ SpeakerTypeOK
      /\ made.answer.disposition \in Outcomes
      => VoiceTypesOK
  BY DEF VoiceTypesOK, Outcomes
<1> QED
  BY <1>1, <1>2, WordsInvAlways, LocalTyped, GrantsTyped, WakeTyped, SpeakerTyped, PTL

-----------------------------------------------------------------------------
(***************************************************************************)
(* Days and times.  First the calendar: years and months follow each other *)
(* without a gap, so that Year(), MonthOf() and DayOfMonth() give back the *)
(* parts of a day; then what each rule of resolve_date_expression names;   *)
(* then the clock; then which days a view is of.                           *)
(***************************************************************************)
\* The years and the days that are reckoned with, and the year and the month a
\* day is in.
Years == Nat \ {0}
Calendar == {day \in Nat : day >= 1 /\ day <= LastDay + 400}
InYear(y, day) == NewYear(y) <= day /\ day < NewYear(y + 1)
InMonth(y, m, day) == FirstOf(y, m) <= day /\ day < FirstOf(y, m) + DaysIn(y, m)

\* Days are numbered from 1.
LEMMA Ordinals == \A day \in Calendar : day \in Nat /\ day >= 1
BY DEF Calendar

\* A year has 365 days or 366, and the next one begins where it ends.
LEMMA YearStep ==
  ASSUME NEW y \in Years
  PROVE  /\ NewYear(y) \in Nat /\ NewYear(y) >= 1
         /\ NewYear(y + 1) = NewYear(y) + 365 + (IF Leap(y) THEN 1 ELSE 0)
<1>1. PICK n \in Nat : y = n + 1
  BY DEF Years
<1> QED
  BY <1>1 DEF NewYear, Leap

\* Later years begin later.
LEMMA YearMono ==
  ASSUME NEW y \in Years, NEW z \in Years, y < z
  PROVE  NewYear(y) < NewYear(z)
<1>1. y \in Nat /\ z \in Nat /\ y >= 1
  BY DEF Years
<1> QED
  BY <1>1, SMTT(30) DEF NewYear

\* A year begins no more than two years off where years of a length would.
LEMMA YearBounds ==
  ASSUME NEW y \in Years, NEW day \in Calendar, InYear(y, day)
  PROVE  y \in (day \div 366 + 1) .. (day \div 366 + 1 + 24)
<1>1. day \in Nat /\ y \in Nat /\ y >= 1
  BY Ordinals DEF Years
<1>2. NewYear(y) <= day /\ day < NewYear(y + 1)
  BY DEF InYear
<1>3. day \div 366 + 1 <= y
  BY <1>1, <1>2, SMTT(30) DEF NewYear
<1>4. y <= day \div 366 + 25
  BY <1>1, <1>2, SMTT(30) DEF NewYear, Calendar, LastDay
<1> QED
  BY <1>1, <1>3, <1>4

\* A day has one year, and Year() finds it.
LEMMA YearIs ==
  ASSUME NEW y \in Years, NEW day \in Calendar, InYear(y, day)
  PROVE  Year(day) = y
<1> DEFINE window == (day \div 366 + 1) .. (day \div 366 + 1 + 24)
<1>1. Year(day) = CHOOSE z \in window : InYear(z, day)
  BY DEF Year, InYear
<1>2. y \in window
  BY YearBounds
<1>3. \A z \in window : z \in Years
  BY Ordinals DEF Years
<1> HIDE DEF window
<1>4. Year(day) \in window /\ InYear(Year(day), day)
  BY <1>1, <1>2
<1>5. ASSUME NEW z \in Years, InYear(z, day), z # y
      PROVE  FALSE
  <2>1. z + 1 \in Years /\ y + 1 \in Years /\ z \in Nat /\ y \in Nat
    BY DEF Years
  <2>2. NewYear(z) \in Nat /\ NewYear(y) \in Nat /\ NewYear(z + 1) \in Nat /\ NewYear(y + 1) \in Nat
    BY <2>1, YearStep
  <2>3. CASE z < y
    <3>1. NewYear(z + 1) <= NewYear(y)
      <4>1. z + 1 = y \/ z + 1 < y
        BY <2>1, <2>3
      <4> QED
        BY <4>1, <2>1, <2>2, YearMono
    <3> QED
      BY <2>2, <3>1, <1>5, Ordinals DEF InYear
  <2>4. CASE y < z
    <3>1. NewYear(y + 1) <= NewYear(z)
      <4>1. y + 1 = z \/ y + 1 < z
        BY <2>1, <2>4
      <4> QED
        BY <4>1, <2>1, <2>2, YearMono
    <3> QED
      BY <2>2, <3>1, <1>5, Ordinals DEF InYear
  <2> QED
    BY <2>1, <2>3, <2>4, <1>5
<1> QED
  BY <1>3, <1>4, <1>5

\* Year() finds the year of every day of the calendar.
LEMMA YearFound ==
  ASSUME NEW day \in Calendar
  PROVE  Year(day) \in Years /\ InYear(Year(day), day)
<1> DEFINE Later == {y \in Years : day < NewYear(y + 1)}
           y == Min(Later)
<1>1. Later \in SUBSET Nat /\ Later # {}
  <2>1. day \in Years /\ day \in Nat
    BY Ordinals DEF Years
  <2>2. day < NewYear(day + 1)
    BY <2>1 DEF NewYear
  <2> QED
    BY <2>1, <2>2 DEF Years
<1>2. y \in Later /\ \A z \in Later : y <= z
  BY <1>1, Least
<1> HIDE DEF y
<1>3. y \in Years /\ day < NewYear(y + 1)
  BY <1>2
<1>4. NewYear(y) <= day
  <2>1. CASE y = 1
    BY <2>1, Ordinals DEF NewYear
  <2>2. CASE y # 1
    <3>1. y - 1 \in Years /\ y - 1 < y /\ (y - 1) + 1 = y
      BY <1>3, <2>2 DEF Years
    <3>2. y - 1 \notin Later
      BY <1>2, <3>1, <1>3 DEF Years
    <3>3. ~(day < NewYear(y))
      BY <3>1, <3>2
    <3> QED
      BY <3>3, <1>3, YearStep, Ordinals
  <2> QED
    BY <2>1, <2>2
<1>5. InYear(y, day)
  BY <1>3, <1>4 DEF InYear
<1> QED
  BY <1>3, <1>5, YearIs

-----------------------------------------------------------------------------
\* A month has 28 to 31 days, and the next one begins where it ends.
LEMMA MonthLong == ASSUME NEW y, NEW m PROVE DaysIn(y, m) \in 28 .. 31
BY DEF DaysIn

\* The first of a month is a day of the calendar.
LEMMA FirstTyped ==
  ASSUME NEW y \in Years, NEW m \in 1 .. 12
  PROVE  FirstOf(y, m) \in Nat /\ FirstOf(y, m) >= NewYear(y)
<1>1. NewYear(y) \in Nat
  BY YearStep
<1>2. DaysBefore[m] \in Nat
  BY DEF DaysBefore
<1> HIDE DEF DaysBefore
<1> QED
  BY <1>1, <1>2 DEF FirstOf

\* A month begins where the one before it ends.
LEMMA MonthStep ==
  ASSUME NEW y \in Years
  PROVE  /\ FirstOf(y, 1) = NewYear(y)
         /\ \A m \in 1 .. 11 : FirstOf(y, m + 1) = FirstOf(y, m) + DaysIn(y, m)
         /\ FirstOf(y, 12) + DaysIn(y, 12) = NewYear(y + 1)
<1>1. NewYear(y) \in Nat /\ NewYear(y + 1) = NewYear(y) + 365 + (IF Leap(y) THEN 1 ELSE 0)
  BY YearStep
<1>2. FirstOf(y, 1) = NewYear(y) /\ FirstOf(y, 12) + DaysIn(y, 12) = NewYear(y + 1)
  BY <1>1 DEF FirstOf, DaysIn, DaysBefore
<1>3. ASSUME NEW m \in 1 .. 11
      PROVE  FirstOf(y, m + 1) = FirstOf(y, m) + DaysIn(y, m)
  <2>1. /\ m = 1 => DaysBefore[m] = 0 /\ DaysBefore[m + 1] = 31
        /\ m = 2 => DaysBefore[m] = 31 /\ DaysBefore[m + 1] = 59
        /\ m = 3 => DaysBefore[m] = 59 /\ DaysBefore[m + 1] = 90
        /\ m = 4 => DaysBefore[m] = 90 /\ DaysBefore[m + 1] = 120
        /\ m = 5 => DaysBefore[m] = 120 /\ DaysBefore[m + 1] = 151
        /\ m = 6 => DaysBefore[m] = 151 /\ DaysBefore[m + 1] = 181
        /\ m = 7 => DaysBefore[m] = 181 /\ DaysBefore[m + 1] = 212
        /\ m = 8 => DaysBefore[m] = 212 /\ DaysBefore[m + 1] = 243
        /\ m = 9 => DaysBefore[m] = 243 /\ DaysBefore[m + 1] = 273
        /\ m = 10 => DaysBefore[m] = 273 /\ DaysBefore[m + 1] = 304
        /\ m = 11 => DaysBefore[m] = 304 /\ DaysBefore[m + 1] = 334
    BY DEF DaysBefore
  <2>2. m \in Int /\ (\/ m = 1 \/ m = 2 \/ m = 3 \/ m = 4 \/ m = 5 \/ m = 6
                      \/ m = 7 \/ m = 8 \/ m = 9 \/ m = 10 \/ m = 11)
    OBVIOUS
  <2> HIDE DEF DaysBefore
  <2>3. DaysBefore[m + 1] = DaysBefore[m] + (IF m = 2 THEN 28 ELSE IF m \in {4, 6, 9, 11} THEN 30 ELSE 31)
        /\ DaysBefore[m] \in Nat
    BY <2>1, <2>2
  <2>4. CASE m = 1
    BY <2>3, <2>4, <1>1 DEF FirstOf, DaysIn
  <2>5. CASE m = 2
    BY <2>3, <2>5, <1>1 DEF FirstOf, DaysIn
  <2>6. CASE m > 2
    BY <2>2, <2>3, <2>6, <1>1 DEF FirstOf, DaysIn
  <2> QED
    BY <2>2, <2>4, <2>5, <2>6
<1> QED
  BY <1>2, <1>3

\* A later month begins after the end of an earlier one.
LEMMA MonthMono ==
  ASSUME NEW y \in Years, NEW m \in 1 .. 12, NEW n \in 1 .. 12, m < n
  PROVE  FirstOf(y, m) + DaysIn(y, m) <= FirstOf(y, n)
<1> DEFINE f(i) == FirstOf(y, i)
<1>1. \A i \in 1 .. 11 : f(i) + 28 <= f(i + 1) /\ f(i + 1) = f(i) + DaysIn(y, i)
  BY MonthStep, MonthLong, FirstTyped
<1>2. \A i \in 1 .. 12 : f(i) \in Nat /\ DaysIn(y, i) \in Nat
  BY FirstTyped, MonthLong
<1> HIDE DEF f
<1>3. f(2) <= f(3) /\ f(3) <= f(4) /\ f(4) <= f(5) /\ f(5) <= f(6) /\ f(6) <= f(7) /\ f(7) <= f(8)
      /\ f(8) <= f(9) /\ f(9) <= f(10) /\ f(10) <= f(11) /\ f(11) <= f(12)
  <2>1. \A i \in 1 .. 11 : f(i) <= f(i + 1)
    BY <1>1, <1>2
  <2>2. f(2) <= f(2 + 1) /\ f(3) <= f(3 + 1) /\ f(4) <= f(4 + 1) /\ f(5) <= f(5 + 1) /\ f(6) <= f(6 + 1)
        /\ f(7) <= f(7 + 1) /\ f(8) <= f(8 + 1) /\ f(9) <= f(9 + 1) /\ f(10) <= f(10 + 1) /\ f(11) <= f(11 + 1)
    BY <2>1
  <2> QED
    BY <2>2
<1>4. \A i \in 2 .. 12 : \A j \in 2 .. 12 : i <= j => f(i) <= f(j)
  BY <1>2, <1>3
<1>5. m + 1 \in 2 .. 12 /\ m + 1 <= n /\ m \in 1 .. 11 /\ n \in 2 .. 12
  OBVIOUS
<1>6. f(m + 1) <= f(n)
  BY <1>4, <1>5
<1>7. f(m) + DaysIn(y, m) = f(m + 1)
  BY <1>1, <1>5
<1> QED
  BY <1>6, <1>7 DEF f

\* A day of a year has one month, and MonthOf() finds it.
LEMMA MonthIs ==
  ASSUME NEW y \in Years, NEW m \in 1 .. 12, NEW day \in Nat, InMonth(y, m, day)
  PROVE  MonthOf(y, day) = m
<1>1. MonthOf(y, day) = CHOOSE n \in 1 .. 12 : InMonth(y, n, day)
  BY DEF MonthOf, InMonth
<1>2. MonthOf(y, day) \in 1 .. 12 /\ InMonth(y, MonthOf(y, day), day)
  BY <1>1
<1>3. ASSUME NEW n \in 1 .. 12, InMonth(y, n, day), n # m
      PROVE  FALSE
  <2>1. n < m \/ m < n
    BY <1>3
  <2>2. FirstOf(y, m) \in Nat /\ FirstOf(y, n) \in Nat /\ DaysIn(y, m) \in Nat /\ DaysIn(y, n) \in Nat
    BY FirstTyped, MonthLong
  <2>3. CASE n < m
    BY <2>2, <2>3, MonthMono, <1>3 DEF InMonth
  <2>4. CASE m < n
    BY <2>2, <2>4, MonthMono, <1>3 DEF InMonth
  <2> QED
    BY <2>1, <2>3, <2>4
<1> QED
  BY <1>2, <1>3

\* MonthOf() finds the month of every day of a year.
LEMMA MonthFound ==
  ASSUME NEW y \in Years, NEW day \in Nat, InYear(y, day)
  PROVE  MonthOf(y, day) \in 1 .. 12 /\ InMonth(y, MonthOf(y, day), day)
<1> DEFINE Later == {m \in 1 .. 12 : day < FirstOf(y, m) + DaysIn(y, m)}
           m == Min(Later)
<1>1. Later \in SUBSET Nat /\ Later # {}
  <2>1. 12 \in Later
    BY MonthStep DEF InYear
  <2> QED
    BY <2>1
<1>2. m \in Later /\ \A n \in Later : m <= n
  BY <1>1, Least
<1> HIDE DEF m
<1>3. m \in 1 .. 12 /\ day < FirstOf(y, m) + DaysIn(y, m)
  BY <1>2
<1>4. FirstOf(y, m) <= day
  <2>1. CASE m = 1
    BY <2>1, MonthStep DEF InYear
  <2>2. CASE m # 1
    <3>1. m - 1 \in 1 .. 11 /\ m - 1 \in 1 .. 12 /\ m - 1 < m /\ (m - 1) + 1 = m
      BY <1>3, <2>2
    <3>2. m - 1 \notin Later
      BY <1>2, <3>1
    <3>3. FirstOf(y, m) = FirstOf(y, m - 1) + DaysIn(y, m - 1)
      BY <3>1, MonthStep
    <3>4. ~(day < FirstOf(y, m))
      BY <3>1, <3>2, <3>3
    <3> QED
      BY <3>4, <1>3, FirstTyped
  <2> QED
    BY <2>1, <2>2
<1>5. InMonth(y, m, day)
  BY <1>3, <1>4 DEF InMonth
<1> QED
  BY <1>3, <1>5, MonthIs

-----------------------------------------------------------------------------
\* A month is of one year.
LEMMA YearOfMonth ==
  ASSUME NEW y \in Years, NEW m \in 1 .. 12, NEW day \in Nat, InMonth(y, m, day)
  PROVE  InYear(y, day)
<1>1. FirstOf(y, m) \in Nat /\ FirstOf(y, m) >= NewYear(y) /\ NewYear(y) \in Nat
  BY FirstTyped, YearStep
<1>2. FirstOf(y, m) + DaysIn(y, m) <= FirstOf(y, 12) + DaysIn(y, 12)
  <2>1. FirstOf(y, 12) \in Nat /\ DaysIn(y, 12) \in Nat /\ DaysIn(y, m) \in Nat
    BY FirstTyped, MonthLong
  <2>2. CASE m = 12
    BY <2>1, <2>2, <1>1
  <2>3. CASE m < 12
    BY <2>1, <2>3, <1>1, MonthMono
  <2> QED
    BY <2>2, <2>3
<1>3. NewYear(y + 1) = FirstOf(y, 12) + DaysIn(y, 12) /\ DaysIn(y, m) \in Nat /\ NewYear(y + 1) \in Int
  <2>1. y + 1 \in Years
    BY DEF Years
  <2> QED
    BY <2>1, MonthStep, MonthLong, YearStep
<1> QED
  BY <1>1, <1>2, <1>3 DEF InYear, InMonth

\* The parts of a day, from a month it is in; and the month every day is in.
LEMMA PartsOf ==
  ASSUME NEW y \in Years, NEW m \in 1 .. 12, NEW day \in Calendar, InMonth(y, m, day)
  PROVE  /\ Year(day) = y /\ MonthOf(y, day) = m /\ Month(day) = m
         /\ DayOfMonth(day) = day - FirstOf(y, m) + 1
<1>1. day \in Nat
  BY Ordinals
<1>2. Year(day) = y
  BY <1>1, YearOfMonth, YearIs
<1>3. MonthOf(y, day) = m
  BY <1>1, MonthIs
<1> QED
  BY <1>2, <1>3 DEF Month, DayOfMonth

\* Every day has a year, a month of it and a place in the month.
LEMMA Parts ==
  ASSUME NEW day \in Calendar
  PROVE  /\ Year(day) \in Years /\ MonthOf(Year(day), day) \in 1 .. 12
         /\ InMonth(Year(day), MonthOf(Year(day), day), day)
BY Ordinals, YearFound, MonthFound

\* The next month begins where this one ends, over the end of a year too.
LEMMA NextBegins ==
  ASSUME NEW y \in Years, NEW m \in 1 .. 12
  PROVE  /\ NextMonth(y, m)[1] \in Years /\ NextMonth(y, m)[2] \in 1 .. 12
         /\ FirstOf(NextMonth(y, m)[1], NextMonth(y, m)[2]) = FirstOf(y, m) + DaysIn(y, m)
<1>1. y + 1 \in Years
  BY DEF Years
<1>2. CASE m = 12
  BY <1>1, <1>2, MonthStep DEF NextMonth
<1>3. CASE m # 12
  <2>1. m \in 1 .. 11 /\ m + 1 \in 1 .. 12
    BY <1>3
  <2> QED
    BY <1>3, <2>1, MonthStep DEF NextMonth
<1> QED
  BY <1>2, <1>3

\* A year ahead or behind is a year of the calendar, too.
LEMMA LaterYear ==
  ASSUME NEW y \in Years, NEW m \in 1 .. 12
  PROVE  FirstOf(y + 1, m) <= FirstOf(y, m) + 366
<1>1. /\ NewYear(y) \in Nat /\ NewYear(y + 1) = NewYear(y) + 365 + (IF Leap(y) THEN 1 ELSE 0)
      /\ Leap(y) => ~Leap(y + 1)
  BY YearStep DEF Leap, Years
<1>2. DaysBefore[m] \in Nat
  BY DEF DaysBefore
<1> HIDE DEF DaysBefore
<1> QED
  BY <1>1, <1>2 DEF FirstOf

\* What was said is resolved on a day with two years before and after it.
Ordinary(today) == today \in Nat /\ today >= 800 /\ today <= LastDay - 800

\* Days close to an ordinary one are days of the calendar.
LEMMA Near ==
  ASSUME NEW today, Ordinary(today), NEW day \in Int, day >= today - 400, day <= today + 800
  PROVE  day \in Calendar
<1>1. LastDay \in Int
  BY SMT DEF LastDay
<1> QED
  BY <1>1 DEF Ordinary, Calendar

\* A day of the month, of no month that was named, is the first to come.
LEMMA FirstToCome ==
  ASSUME NEW today, Ordinary(today), NEW y \in Years, NEW m \in 1 .. 12, InMonth(y, m, today),
         NEW p, Phrased(p), p.month = 0, NEW e, e = ExplicitDay(p, today, y, m), e \notin {0, -1}
  PROVE  /\ e \in Nat /\ e >= today /\ e <= today + 62
         /\ \A day \in today .. (e - 1) : DayOfMonth(day) # DayOfMonth(e)
<1> DEFINE d == DayNumber(p)
           z == NextMonth(y, m)[1]
           n == NextMonth(y, m)[2]
<1>1. d \in Nat /\ d = p.nth
  BY DEF Phrased, DayNumber
<1>2. /\ FirstOf(y, m) \in Nat /\ DaysIn(y, m) \in 28 .. 31 /\ today \in Nat
      /\ FirstOf(y, m) <= today /\ today < FirstOf(y, m) + DaysIn(y, m) /\ FirstOf(y, m) >= 1
  <2>1. FirstOf(y, m) >= NewYear(y) /\ NewYear(y) >= 1 /\ NewYear(y) \in Nat
    BY FirstTyped, YearStep
  <2> QED
    BY <2>1, FirstTyped, MonthLong DEF InMonth, Ordinary
<1>3. z \in Years /\ n \in 1 .. 12 /\ FirstOf(z, n) = FirstOf(y, m) + DaysIn(y, m) /\ DaysIn(z, n) \in 28 .. 31
  BY NextBegins, MonthLong
<1>4. /\ d \in 1 .. DaysIn(y, m)
      /\ \/ e = Day(y, m, d) /\ e >= today
         \/ Day(y, m, d) < today /\ e = Day(z, n, d) /\ d \in 1 .. DaysIn(z, n)
  <2>1. <<y, m>>[1] = y /\ <<y, m>>[2] = m
    OBVIOUS
  <2>2. d \in 1 .. DaysIn(y, m)
    BY <2>1 DEF ExplicitDay
  <2>3. Day(y, m, d) \in Nat /\ Day(y, m, d) # 0
    BY <1>1, <1>2, <2>2 DEF Day
  <2>4. CASE Day(y, m, d) < today
    BY <2>1, <2>2, <2>3, <2>4 DEF ExplicitDay
  <2>5. CASE ~(Day(y, m, d) < today)
    BY <2>1, <2>2, <2>3, <2>5, <1>2 DEF ExplicitDay
  <2> QED
    BY <2>2, <2>4, <2>5
<1>5. Day(y, m, d) = FirstOf(y, m) + d - 1 /\ Day(z, n, d) = FirstOf(z, n) + d - 1
  BY DEF Day
<1> HIDE DEF d, z, n
<1>6. ASSUME NEW day \in Nat, today <= day, day <= today + 62, InMonth(y, m, day)
      PROVE  DayOfMonth(day) = day - FirstOf(y, m) + 1
  BY <1>2, <1>6, Near, PartsOf
<1>7. ASSUME NEW day \in Nat, today <= day, day <= today + 62, InMonth(z, n, day)
      PROVE  DayOfMonth(day) = day - FirstOf(z, n) + 1
  BY <1>2, <1>3, <1>7, Near, PartsOf
<1>8. CASE e = Day(y, m, d) /\ e >= today
  <2>1. e \in Nat /\ e <= today + 31 /\ InMonth(y, m, e)
    BY <1>1, <1>2, <1>4, <1>5, <1>8 DEF InMonth
  <2>2. DayOfMonth(e) = d
    BY <2>1, <1>8, <1>6, <1>5, <1>2, <1>1
  <2>3. ASSUME NEW day \in today .. (e - 1)
        PROVE  DayOfMonth(day) # DayOfMonth(e)
    <3>1. day \in Nat /\ today <= day /\ day <= today + 62 /\ InMonth(y, m, day)
      BY <2>1, <1>2 DEF InMonth
    <3> QED
      BY <3>1, <1>6, <2>2, <1>8, <1>5, <1>2, <1>1, <2>1
  <2> QED
    BY <2>1, <2>3, <1>8, <1>2
<1>9. CASE Day(y, m, d) < today /\ e = Day(z, n, d) /\ d \in 1 .. DaysIn(z, n)
  <2>1. e \in Nat /\ e <= today + 62 /\ InMonth(z, n, e) /\ e >= today
    BY <1>1, <1>2, <1>3, <1>5, <1>9 DEF InMonth
  <2>2. DayOfMonth(e) = d
    BY <2>1, <1>9, <1>7, <1>5, <1>2, <1>3, <1>1
  <2>3. ASSUME NEW day \in today .. (e - 1)
        PROVE  DayOfMonth(day) # DayOfMonth(e)
    <3>1. day \in Nat /\ today <= day /\ day <= today + 62 /\ day < e
      BY <2>1, <1>2
    <3>2. CASE day < FirstOf(z, n)
      <4>1. InMonth(y, m, day)
        BY <3>1, <3>2, <1>2, <1>3 DEF InMonth
      <4> QED
        BY <3>1, <4>1, <1>6, <2>2, <1>9, <1>5, <1>2, <1>1
    <3>3. CASE day >= FirstOf(z, n)
      <4>1. InMonth(z, n, day)
        BY <3>1, <3>3, <2>1, <1>2, <1>3 DEF InMonth
      <4> QED
        BY <3>1, <4>1, <1>7, <2>2, <1>9, <1>5, <1>2, <1>3, <1>1
    <3> QED
      BY <3>1, <3>2, <3>3, <1>2, <1>3
  <2> QED
    BY <2>1, <2>3
<1> QED
  BY <1>4, <1>8, <1>9

\* A day of a named month is of that month, and no further behind than half a
\* year.
LEMMA OfTheMonth ==
  ASSUME NEW today, Ordinary(today), NEW y \in Years, NEW m \in 1 .. 12, InMonth(y, m, today),
         NEW p, Phrased(p), p.month > 0, NEW e, e = ExplicitDay(p, today, y, m), e \notin {0, -1}
  PROVE  e \in Nat /\ Month(e) = p.month /\ e >= today - 180 /\ e <= today + 366
<1> DEFINE d == DayNumber(p)
           n == p.month
           E(z) == e = Day(z, n, d) /\ d \in 1 .. DaysIn(z, n)
<1>1. d \in Nat /\ n \in 1 .. 12
  BY DEF Phrased, DayNumber
<1>2. y + 1 \in Years
  BY DEF Years
<1>3. \/ E(y) /\ e >= today - 180
      \/ E(y + 1) /\ Day(y, n, d) < today - 180
  <2>1. <<y, n>>[1] = y /\ <<y, n>>[2] = n /\ <<y + 1, n>>[1] = y + 1 /\ <<y + 1, n>>[2] = n
    OBVIOUS
  <2>2. d \in 1 .. DaysIn(y, n)
    BY <2>1 DEF ExplicitDay
  <2>3. Day(y, n, d) \in Nat /\ Day(y, n, d) # 0 /\ today \in Nat
    <3>1. FirstOf(y, n) \in Nat /\ DaysIn(y, n) \in 28 .. 31 /\ FirstOf(y, n) >= NewYear(y) /\ NewYear(y) >= 1
           /\ NewYear(y) \in Nat
      BY <1>1, FirstTyped, MonthLong, YearStep
    <3> QED
      BY <1>1, <2>2, <3>1 DEF Day, Ordinary
  <2>4. CASE Day(y, n, d) < today - 180
    BY <2>1, <2>2, <2>3, <2>4 DEF ExplicitDay
  <2>5. CASE ~(Day(y, n, d) < today - 180)
    <3>1. e = Day(y, n, d)
      BY <2>1, <2>2, <2>3, <2>5 DEF ExplicitDay
    <3> QED
      BY <3>1, <2>2, <2>3, <2>5
  <2> QED
    BY <2>4, <2>5
<1> HIDE DEF d, n
<1>4. ASSUME NEW z \in Years, E(z)
      PROVE  e \in Nat /\ InMonth(z, n, e) /\ InYear(z, e)
  <2>1. FirstOf(z, n) \in Nat /\ DaysIn(z, n) \in 28 .. 31
    BY <1>1, FirstTyped, MonthLong
  <2>2. e \in Nat /\ InMonth(z, n, e)
    BY <1>1, <2>1, <1>4 DEF Day, InMonth
  <2> QED
    BY <2>2, <1>1, YearOfMonth
<1>5. /\ InYear(y, today) /\ today \in Nat /\ NewYear(y) \in Nat /\ NewYear(y + 1) \in Nat /\ NewYear(y + 1 + 1) \in Nat
      /\ NewYear(y + 1) <= NewYear(y) + 366
  <2>1. y + 1 + 1 \in Years
    BY DEF Years
  <2> QED
    BY <1>2, <2>1, YearStep, YearOfMonth DEF Ordinary
<1>6. CASE E(y) /\ e >= today - 180
  <2>1. e \in Nat /\ InMonth(y, n, e) /\ e <= today + 366
    BY <1>4, <1>5, <1>6 DEF InYear
  <2>2. e \in Calendar
    BY <2>1, <1>6, <1>5, Near
  <2> QED
    BY <2>1, <2>2, <1>1, <1>6, PartsOf DEF n
<1>7. CASE E(y + 1) /\ Day(y, n, d) < today - 180
  <2>1. e \in Nat /\ InMonth(y + 1, n, e) /\ e >= today
    BY <1>2, <1>4, <1>5, <1>7 DEF InYear
  <2>2. FirstOf(y + 1, n) <= FirstOf(y, n) + 366 /\ FirstOf(y + 1, n) \in Nat /\ FirstOf(y, n) \in Nat
    BY <1>1, <1>2, LaterYear, FirstTyped
  <2>3. e <= today + 366
    BY <2>1, <2>2, <1>1, <1>5, <1>7 DEF Day
  <2>4. e \in Calendar
    BY <2>1, <2>3, <1>5, Near
  <2> QED
    BY <2>1, <2>3, <2>4, <1>1, <1>2, <1>5, PartsOf DEF n
<1> QED
  BY <1>3, <1>6, <1>7

-----------------------------------------------------------------------------
Weekdays == 0 .. 6

\* Weeks begin on a Monday; the next of a weekday is within a week.
LEMMA Weeks ==
  ASSUME NEW today \in Nat, today >= 1
  PROVE  /\ Monday(today) \in Int /\ Monday(today) <= today /\ today <= Monday(today) + 6
         /\ \A w \in Weekdays : /\ Weekday(Monday(today) + w) = w
                              /\ Weekday(Monday(today) + 7 + w) = w
                              /\ Weekday(Monday(today) + w - 7) = w
         /\ \A day \in Int : Weekday(day) \in Weekdays /\ Monday(day) = day - Weekday(day)
<1>1. \A day \in Int : Weekday(day) \in Weekdays /\ Monday(day) = day - Weekday(day)
  BY DEF Weekday, Monday, Weekdays
<1>2. ASSUME NEW w \in Weekdays
      PROVE  /\ Weekday(Monday(today) + w) = w
             /\ Weekday(Monday(today) + 7 + w) = w
             /\ Weekday(Monday(today) + w - 7) = w
  BY DEF Weekday, Monday, Weekdays
<1>3. Monday(today) \in Int /\ Monday(today) <= today /\ today <= Monday(today) + 6
  BY DEF Weekday, Monday
<1> QED
  BY <1>1, <1>2, <1>3

\* The weekday that is found is one of the next seven days.
LEMMA WeekdayToCome ==
  ASSUME NEW today \in Nat, today >= 1, NEW w \in Weekdays
  PROVE  LET next == NextWeekday(today, w)
         IN next \in today .. (today + 6) /\ Weekday(next) = w
            /\ \A day \in today .. (next - 1) : Weekday(day) # w
<1> DEFINE next == NextWeekday(today, w)
<1>1. next \in today .. (today + 6) /\ Weekday(next) = w
  BY DEF NextWeekday, Weekday, Weekdays
<1>2. ASSUME NEW day \in today .. (next - 1)
      PROVE  Weekday(day) # w
  BY <1>1, <1>2 DEF NextWeekday, Weekday, Weekdays
<1> QED
  BY <1>1, <1>2

\* The weekend ends on the first Sunday to come.
LEMMA WeekendToCome ==
  ASSUME NEW today \in Nat, today >= 2
  PROVE  LET sat == Saturday(today)
         IN sat \in (today - 1) .. (today + 6) /\ Weekday(sat) = 5 /\ Weekday(sat + 1) = 6
            /\ Weekday(sat + 7) = 5 /\ sat + 1 >= today
            /\ \A day \in today .. sat : Weekday(day) # 6
<1> DEFINE sat == Saturday(today)
<1>1. /\ sat \in (today - 1) .. (today + 6) /\ Weekday(sat) = 5 /\ Weekday(sat + 1) = 6
      /\ Weekday(sat + 7) = 5 /\ sat + 1 >= today
  BY DEF Saturday, NextWeekday, Weekday, Weekdays
<1>2. ASSUME NEW day \in today .. sat
      PROVE  Weekday(day) # 6
  BY <1>1, <1>2 DEF Saturday, NextWeekday, Weekday, Weekdays
<1> QED
  BY <1>1, <1>2

-----------------------------------------------------------------------------
Singles == {"day_after_tomorrow", "tomorrow", "yesterday", "today", "ahead", "weekday", "day", "part"}
Weekly == {"weekend", "next_week", "week"}
Monthly == {"month", "this_month", "next_month"}

\* What is known of the rule that applied: it applies, and those before it do not.
LEMMA RulesInOrder ==
  /\ DOMAIN Rules \subseteq Nat /\ 7 \in DOMAIN Rules /\ Rules[7] = "next_week"
  /\ \A i \in DOMAIN Rules : /\ Rules[i] \in Singles \cup Weekly \cup Monthly
                             /\ Rules[i] \in Monthly => i > 7
<1>1. DOMAIN Rules = 1 .. 14
      /\ \A i \in 1 .. 14 : Rules[i] \in Singles \cup Weekly \cup Monthly /\ (Rules[i] \in Monthly => i > 7)
  BY DEF Rules, Singles, Weekly, Monthly
<1>2. Rules[7] = "next_week"
  BY DEF Rules
<1> HIDE DEF Rules
<1>3. 7 \in DOMAIN Rules /\ DOMAIN Rules \subseteq Nat
  BY <1>1
<1> QED
  BY <1>1, <1>2, <1>3

\* What is found is what the rule names that applies, before the later ones.
FoundBy(r, p, today, y, m, e) ==
         /\ r.kind \in Singles \cup Weekly \cup Monthly /\ Applies(r.kind, p, e)
         /\ r.start = Scope(r.kind, p, today, y, m, e)[1] /\ r.end = Scope(r.kind, p, today, y, m, e)[2]
         /\ r.kind = "day" => e # -1
         /\ r.kind = "ahead" => ~(today + p.ahead > LastDay)
         /\ r.kind \in Monthly => ~Applies("next_week", p, e)

\* A rule that applied found what Resolve() returns.
LEMMA RuleFound ==
  ASSUME NEW p, NEW today, NEW y, NEW m, NEW e, NEW r, r = ResolveIn(p, today, y, m, e),
         r.kind # "none", r.kind # "raises"
  PROVE  FoundBy(r, p, today, y, m, e)
<1> DEFINE said == {i \in DOMAIN Rules : Applies(Rules[i], p, e)}
           rule == Rules[Min(said)]
           scope == Scope(rule, p, today, y, m, e)
<1>1. said # {}
  BY DEF ResolveIn, Found
<1>2. /\ r = Found(rule, scope, TimeWindow(p))
      /\ rule = "day" => e # -1
      /\ rule = "ahead" => ~(today + p.ahead > LastDay)
  <2>1. Found("none", <<0, 0>>, <<>>).kind = "none" /\ Found("raises", <<0, 0>>, <<>>).kind = "raises"
    BY DEF Found
  <2> HIDE DEF rule, scope
  <2>2. r = IF rule = "none" THEN Found("none", <<0, 0>>, <<>>)
            ELSE IF \/ rule = "day" /\ e = -1
                    \/ rule = "ahead" /\ today + p.ahead > LastDay
            THEN Found("raises", <<0, 0>>, <<>>)
            ELSE Found(rule, scope, TimeWindow(p))
    BY <1>1 DEF ResolveIn, rule, scope
  <2> QED
    BY <2>1, <2>2
<1>3. Min(said) \in said /\ \A i \in said : Min(said) <= i
  <2>1. said \in SUBSET Nat
    BY RulesInOrder
  <2> QED
    BY <1>1, <2>1, Least
<1>4. r.kind = rule /\ r.start = scope[1] /\ r.end = scope[2]
  BY <1>2 DEF Found
<1>5. rule \in Singles \cup Weekly \cup Monthly /\ Applies(rule, p, e)
  BY <1>3, RulesInOrder
<1>6. rule \in Monthly => ~Applies("next_week", p, e)
  <2>1. ASSUME rule \in Monthly, Applies("next_week", p, e)
        PROVE  FALSE
    <3>1. 7 \in said
      BY <2>1, RulesInOrder
    <3>2. Min(said) <= 7 /\ Min(said) \in Nat
      BY <3>1, <1>3, RulesInOrder
    <3>3. Min(said) > 7
      BY <2>1, <1>3, RulesInOrder
    <3> QED
      BY <3>2, <3>3
  <2> QED
    BY <2>1
<1> QED
  BY <1>2, <1>4, <1>5, <1>6 DEF FoundBy

-----------------------------------------------------------------------------
\* One day, several of a week, or a month: where each is.
OneDay(r) == r.end = r.start /\ r.start \in Calendar
DaysOfWeek(r) ==
  /\ r.start \in Calendar /\ r.end \in Nat /\ r.start < r.end
  /\ r.end <= r.start + 6 /\ r.end <= Monday(r.start) + 6
WholeMonth(r, z, n) == r.start = FirstOf(z, n) /\ r.end = FirstOf(z, n) + DaysIn(z, n) - 1

\* The rules that find one day find the day that was meant.
LEMMA OneDayMeant ==
  ASSUME NEW today, Ordinary(today), NEW p, Phrased(p), NEW r, r = Resolve(p, today), r.kind \in Singles
  PROVE  OneDay(r) /\ MeansTheDay(p, r, today)
<1> DEFINE y == Year(today)
           m == MonthOf(y, today)
           e == ExplicitDay(p, today, y, m)
           w == p.weekday
<1>1. r.kind \notin Weekly /\ r.kind \notin Monthly /\ r.kind # "none" /\ r.kind # "raises"
  BY DEF Singles, Weekly, Monthly
<1>2. /\ Applies(r.kind, p, e)
      /\ r.start = Scope(r.kind, p, today, y, m, e)[1] /\ r.end = Scope(r.kind, p, today, y, m, e)[2]
      /\ r.kind = "day" => e # -1
      /\ r.kind = "ahead" => ~(today + p.ahead > LastDay)
  <2>1. r = ResolveIn(p, today, y, m, e)
    BY DEF Resolve
  <2> HIDE DEF y, m, e
  <2>2. FoundBy(r, p, today, y, m, e)
    BY <2>1, <1>1, RuleFound
  <2> QED
    BY <2>2, <1>1 DEF FoundBy
<1>3. today \in Nat /\ today >= 800 /\ today \in Calendar
  BY Near DEF Ordinary
<1>4. y \in Years /\ m \in 1 .. 12 /\ InMonth(y, m, today)
  BY <1>3, Parts
<1> HIDE DEF y, m, e
<1>5. ASSUME r.kind # "weekday", r.kind # "day"
      PROVE  MeansTheDay(p, r, today) <=> r.start <= r.end
  BY <1>1, <1>5 DEF MeansTheDay, Weekly, Monthly
<1>6. CASE r.kind \in {"day_after_tomorrow", "tomorrow", "yesterday", "today", "part"}
  <2>1. r.end = r.start /\ r.start \in {today - 1, today, today + 1, today + 2}
    BY <1>2, <1>6 DEF Scope
  <2>2. r.start \in Calendar
    BY <1>3, <2>1, Near
  <2> QED
    <3>1. r.kind # "weekday" /\ r.kind # "day"
      BY <1>6
    <3>2. r.start <= r.end
      BY <2>1, <2>2, Ordinals
    <3> QED
      BY <3>1, <3>2, <2>1, <2>2, <1>5 DEF OneDay
<1>7. CASE r.kind = "ahead"
  <2>1. r.end = r.start /\ r.start = today + p.ahead /\ p.ahead >= 0 /\ p.ahead \in Int
    BY <1>2, <1>7 DEF Scope, Applies, Phrased
  <2>2. LastDay \in Int
    BY SMT DEF LastDay
  <2>3. r.start \in Calendar
    BY <2>1, <2>2, <1>2, <1>3, <1>7 DEF Calendar
  <2> QED
    BY <2>1, <2>3, <1>3, <1>5, <1>7 DEF OneDay
<1>8. CASE r.kind = "weekday"
  <2>1. w \in 0 .. 6 /\ w \in Weekdays
    BY <1>2, <1>8 DEF Applies, Phrased, NoWeekday, Weekdays
  <2>2. r.end = r.start /\ r.start = NamedWeekday(p, today)
    BY <1>2, <1>8 DEF Scope
  <2>3. /\ Monday(today) \in Int /\ Monday(today) <= today /\ today <= Monday(today) + 6
        /\ Weekday(Monday(today) + 7 + w) = w /\ Weekday(Monday(today) + w) = w
        /\ Weekday(Monday(today) + w - 7) = w
    BY <1>3, <2>1, Weeks
  <2>4. /\ p.which = "next" => r.start = Monday(today) + 7 + w
        /\ p.which = "last" => r.start = Monday(today) + w - 7
        /\ p.which = "bare" => r.start = NextWeekday(today, w)
        /\ r.start \in {Monday(today) + 7 + w, Monday(today) + w, Monday(today) + w - 7, NextWeekday(today, w)}
    <3>1. CASE p.which = "next"
      BY <2>2, <3>1 DEF NamedWeekday
    <3>2. CASE p.which = "this"
      BY <2>2, <3>2 DEF NamedWeekday, ThisWeekday
    <3>3. CASE p.which = "last"
      BY <2>1, <2>2, <2>3, <3>3 DEF NamedWeekday, ThisWeekday
    <3>4. CASE p.which # "next" /\ p.which # "this" /\ p.which # "last"
      BY <2>2, <3>4 DEF NamedWeekday
    <3> QED
      BY <3>1, <3>2, <3>3, <3>4
  <2>5. /\ NextWeekday(today, w) \in today .. (today + 6) /\ Weekday(NextWeekday(today, w)) = w
        /\ \A day \in today .. (NextWeekday(today, w) - 1) : Weekday(day) # w
    BY <1>3, <2>1, WeekdayToCome
  <2>6. r.start \in Int /\ r.start >= today - 20 /\ r.start <= today + 20 /\ Weekday(r.start) = w
    BY <1>3, <2>1, <2>3, <2>4, <2>5
  <2>7. r.start \in Calendar
    BY <2>6, <1>3, Near
  <2>8. p.which = "bare" => IsFirst(r.start, today, LAMBDA day : Weekday(day) = w)
    BY <2>4, <2>5, <1>3 DEF IsFirst
  <2>9. /\ p.which = "next" => r.start \in (Monday(today) + 7) .. (Monday(today) + 13)
        /\ p.which = "last" => r.start < Monday(today)
    BY <2>1, <2>3, <2>4
  <2> QED
    BY <2>2, <2>6, <2>7, <2>8, <2>9, <1>8 DEF OneDay, MeansTheDay
<1>9. CASE r.kind = "day"
  <2>1. r.end = r.start /\ r.start = e /\ e \notin {0, -1}
    BY <1>2, <1>9 DEF Scope, Applies
  <2>2. p.month = 0 \/ p.month > 0
    BY DEF Phrased
  <2>3. CASE p.month = 0
    <3>1. /\ e \in Nat /\ e >= today /\ e <= today + 62
          /\ \A day \in today .. (e - 1) : DayOfMonth(day) # DayOfMonth(e)
      BY <1>4, <2>1, <2>3, FirstToCome DEF e
    <3>2. e \in Calendar
      BY <3>1, <1>3, Near
    <3>3. IsFirst(r.start, today, LAMBDA d : DayOfMonth(d) = DayOfMonth(r.start))
      BY <2>1, <3>1 DEF IsFirst
    <3> QED
      BY <2>1, <2>3, <3>1, <3>2, <3>3, <1>9 DEF OneDay, MeansTheDay
  <2>4. CASE p.month > 0
    <3>1. e \in Nat /\ Month(e) = p.month /\ e >= today - 180 /\ e <= today + 366
      BY <1>4, <2>1, <2>4, OfTheMonth DEF e
    <3>2. e \in Calendar
      BY <3>1, <1>3, Near
    <3>3. p.month # 0
      BY <2>4 DEF Phrased
    <3> QED
      BY <2>1, <3>1, <3>2, <3>3, <1>9 DEF OneDay, MeansTheDay
  <2> QED
    BY <2>2, <2>3, <2>4
<1> QED
  BY <1>6, <1>7, <1>8, <1>9 DEF Singles

\* Those that find days of a week find these.
LEMMA WeekMeant ==
  ASSUME NEW today, Ordinary(today), NEW p, Phrased(p), NEW r, r = Resolve(p, today), r.kind \in Weekly
  PROVE  DaysOfWeek(r) /\ MeansTheDay(p, r, today)
<1> DEFINE y == Year(today)
           m == MonthOf(y, today)
           e == ExplicitDay(p, today, y, m)
<1>1. r.kind \notin Singles /\ r.kind \notin Monthly /\ r.kind # "none" /\ r.kind # "raises"
  BY DEF Singles, Weekly, Monthly
<1>2. r.start = Scope(r.kind, p, today, y, m, e)[1] /\ r.end = Scope(r.kind, p, today, y, m, e)[2]
  <2>1. r = ResolveIn(p, today, y, m, e)
    BY DEF Resolve
  <2> HIDE DEF y, m, e
  <2>2. FoundBy(r, p, today, y, m, e)
    BY <2>1, <1>1, RuleFound
  <2> QED
    BY <2>2, <1>1 DEF FoundBy
<1>3. today \in Nat /\ today >= 800
  BY DEF Ordinary
<1> HIDE DEF y, m, e
<1>4. CASE r.kind = "weekend"
  <2> DEFINE sat == Saturday(today)
  <2>1. /\ "next_weekend" \notin p.words => r.start = sat + 0
        /\ "next_weekend" \in p.words => r.start = sat + 7
        /\ r.end = r.start + 1
    BY <1>2, <1>4 DEF Scope
  <2>2. /\ sat \in (today - 1) .. (today + 6) /\ Weekday(sat) = 5 /\ Weekday(sat + 1) = 6
        /\ Weekday(sat + 7) = 5 /\ sat + 1 >= today
        /\ \A day \in today .. sat : Weekday(day) # 6
    BY <1>3, WeekendToCome
  <2> HIDE DEF sat
  <2>3. r.start \in Int /\ r.start >= today - 1 /\ r.start <= today + 13 /\ Weekday(r.start) = 5
    <3>1. sat \in Int /\ sat >= today - 1 /\ sat <= today + 6
      BY <1>3, <2>2
    <3>2. CASE r.start = sat
      BY <3>1, <3>2, <2>2, <1>3
    <3>3. CASE r.start = sat + 7
      BY <3>1, <3>3, <2>2, <1>3
    <3>4. r.start = sat \/ r.start = sat + 7
      BY <3>1, <2>1
    <3> QED
      BY <3>2, <3>3, <3>4
  <2>4. r.start \in Calendar
    BY <2>3, <1>3, Near
  <2>5. Monday(r.start) = r.start - 5
    BY <2>3 DEF Monday
  <2>6. "next_weekend" \notin p.words => IsFirst(r.end, today, LAMBDA d : Weekday(d) = 6)
    <3>1. SUFFICES ASSUME "next_weekend" \notin p.words
                   PROVE  IsFirst(r.end, today, LAMBDA d : Weekday(d) = 6)
      OBVIOUS
    <3>2. r.end = sat + 1 /\ (sat + 1) - 1 = sat /\ sat \in Int
      <4>1. sat \in Int
        BY <1>3, <2>2
      <4> QED
        BY <4>1, <2>1, <3>1
    <3>3. \A day \in today .. (r.end - 1) : Weekday(day) # 6
      BY <2>2, <3>2
    <3>4. r.end >= today /\ Weekday(r.end) = 6
      BY <2>2, <3>2
    <3> QED
      BY <3>3, <3>4 DEF IsFirst
  <2> QED
    <3>1. r.end = r.start + 1 /\ r.end \in Nat /\ r.start < r.end /\ r.end <= r.start + 6 /\ r.start <= r.end
          /\ r.end <= (r.start - 5) + 6
      BY <2>1, <2>3, <1>3
    <3>2. r.kind # "weekday" /\ r.kind # "day" /\ r.kind \notin {"month", "this_month", "next_month"}
      BY <1>4
    <3> QED
      BY <3>1, <3>2, <2>3, <2>4, <2>5, <2>6 DEF DaysOfWeek, MeansTheDay
<1>5. CASE r.kind \in {"next_week", "week"}
  <2>1. /\ r.start \in {Monday(today), Monday(today) + 7} /\ r.end = r.start + 6
    BY <1>2, <1>5 DEF Scope
  <2>2. Monday(today) \in Int /\ Monday(today) <= today /\ today <= Monday(today) + 6
    BY <1>3, Weeks
  <2>3. r.start \in Calendar /\ r.start \in Nat
    <3>1. r.start \in Int /\ r.start >= today - 6 /\ r.start <= today + 7
      BY <2>1, <2>2, <1>3
    <3> QED
      BY <3>1, <1>3, Near
  <2>4. Monday(r.start) = r.start
    BY <2>1, <1>3 DEF Monday, Weekday
  <2> QED
    <3>1. r.kind # "weekday" /\ r.kind # "weekend" /\ r.kind # "day"
          /\ r.kind \notin {"month", "this_month", "next_month"}
      BY <1>5
    <3>2. r.end \in Nat /\ r.start < r.end /\ r.end <= r.start + 6 /\ r.start <= r.end
      BY <2>1, <2>3
    <3> QED
      BY <3>1, <3>2, <2>3, <2>4 DEF DaysOfWeek, MeansTheDay
<1> QED
  BY <1>4, <1>5 DEF Weekly

\* And those that find a month find all of it.
LEMMA MonthMeant ==
  ASSUME NEW today, Ordinary(today), NEW p, Phrased(p), NEW r, r = Resolve(p, today), r.kind \in Monthly
  PROVE  /\ \E z \in Years, n \in 1 .. 12 : WholeMonth(r, z, n)
         /\ r.start \in Calendar /\ r.end \in Nat /\ r.end - r.start \in 27 .. 30
         /\ MeansTheDay(p, r, today) /\ "next_week" \notin p.words
<1> DEFINE y == Year(today)
           m == MonthOf(y, today)
           e == ExplicitDay(p, today, y, m)
<1>1. r.kind \notin Singles /\ r.kind \notin Weekly /\ r.kind # "none" /\ r.kind # "raises"
  BY DEF Singles, Weekly, Monthly
<1>2. /\ Applies(r.kind, p, e) /\ ~Applies("next_week", p, e)
      /\ r.start = Scope(r.kind, p, today, y, m, e)[1] /\ r.end = Scope(r.kind, p, today, y, m, e)[2]
  <2>1. r = ResolveIn(p, today, y, m, e)
    BY DEF Resolve
  <2> HIDE DEF y, m, e
  <2>2. FoundBy(r, p, today, y, m, e)
    BY <2>1, <1>1, RuleFound
  <2> QED
    BY <2>2, <1>1 DEF FoundBy
<1>3. today \in Nat /\ today >= 800 /\ today \in Calendar
  BY Near DEF Ordinary
<1>4. y \in Years /\ m \in 1 .. 12 /\ InMonth(y, m, today) /\ y + 1 \in Years /\ InYear(y, today)
  <2>1. y \in Years /\ m \in 1 .. 12 /\ InMonth(y, m, today)
    BY <1>3, Parts
  <2> HIDE DEF y, m
  <2> QED
    BY <2>1, <1>3, YearOfMonth DEF Years
<1> HIDE DEF y, m, e
<1>5. PICK z \in Years, n \in 1 .. 12 :
         /\ WholeMonth(r, z, n) /\ FirstOf(z, n) + DaysIn(z, n) > today /\ FirstOf(z, n) <= today + 400
  <2>1. FirstOf(y, m) \in Nat /\ DaysIn(y, m) \in 28 .. 31
    BY <1>4, FirstTyped, MonthLong
  <2>2. CASE r.kind = "this_month"
    <3>1. WholeMonth(r, y, m)
      <4>1. <<y, m>>[1] = y /\ <<y, m>>[2] = m
        OBVIOUS
      <4> QED
        BY <1>2, <2>2, <4>1 DEF Scope, WholeMonth
    <3> QED
      BY <3>1, <1>3, <1>4, <2>1 DEF InMonth
  <2>3. CASE r.kind = "next_month"
    <3> DEFINE z == NextMonth(y, m)[1]
               n == NextMonth(y, m)[2]
    <3>1. WholeMonth(r, z, n)
      BY <1>2, <2>3 DEF Scope, WholeMonth
    <3>2. z \in Years /\ n \in 1 .. 12 /\ FirstOf(z, n) = FirstOf(y, m) + DaysIn(y, m) /\ DaysIn(z, n) \in 28 .. 31
      BY <1>4, NextBegins, MonthLong
    <3> HIDE DEF z, n
    <3> QED
      BY <3>1, <3>2, <1>3, <1>4, <2>1 DEF InMonth
  <2>4. CASE r.kind = "month"
    <3> DEFINE z == IF p.month >= m THEN y ELSE y + 1
               n == p.month
    <3>1. WholeMonth(r, z, n)
      <4>1. <<z, n>>[1] = z /\ <<z, n>>[2] = n
        OBVIOUS
      <4> QED
        BY <1>2, <2>4, <4>1 DEF Scope, WholeMonth
    <3>2. z \in Years /\ n \in 1 .. 12
      <4>1. p.month > 0
        BY <1>2, <2>4 DEF Applies
      <4>2. n \in 1 .. 12
        BY <4>1 DEF Phrased
      <4> QED
        BY <4>2, <1>4
    <3>3. FirstOf(z, n) \in Nat /\ DaysIn(z, n) \in 28 .. 31 /\ FirstOf(y, n) \in Nat /\ DaysIn(y, n) \in 28 .. 31
      BY <3>2, <1>4, FirstTyped, MonthLong
    <3>4. /\ NewYear(y) \in Nat /\ NewYear(y + 1) \in Nat /\ NewYear(y + 1) <= NewYear(y) + 366
          /\ NewYear(y) <= today /\ today < NewYear(y + 1)
      BY <1>4, YearStep DEF InYear
    <3>5. FirstOf(y, n) <= NewYear(y) + 366
      <4>1. InMonth(y, n, FirstOf(y, n))
        BY <3>3 DEF InMonth
      <4>2. InYear(y, FirstOf(y, n))
        BY <4>1, <3>2, <3>3, <1>4, YearOfMonth
      <4> QED
        BY <4>2, <3>3, <3>4 DEF InYear
    <3>6. CASE p.month >= m
      <4>1. z = y
        BY <3>6
      <4>2. FirstOf(y, n) + DaysIn(y, n) >= FirstOf(y, m) + DaysIn(y, m)
        <5>1. n = m \/ m < n
          BY <3>2, <3>6, <1>4
        <5> QED
          BY <5>1, <3>2, <3>3, <1>4, <2>1, MonthMono
      <4> QED
        BY <3>1, <3>2, <3>3, <3>4, <3>5, <4>1, <4>2, <2>1, <1>3, <1>4 DEF InMonth
    <3>7. CASE ~(p.month >= m)
      <4>1. z = y + 1
        BY <3>7
      <4>2. FirstOf(y + 1, n) >= NewYear(y + 1)
        BY <3>2, <1>4, FirstTyped
      <4>3. FirstOf(y + 1, n) <= FirstOf(y, n) + 366 /\ FirstOf(y, n) <= today
        <5>1. FirstOf(y, n) + DaysIn(y, n) <= FirstOf(y, m)
          BY <3>2, <3>7, <1>4, MonthMono
        <5> QED
          BY <5>1, <3>2, <3>3, <1>4, <1>3, <2>1, LaterYear DEF InMonth
      <4> QED
        BY <3>1, <3>2, <3>3, <3>4, <4>1, <4>2, <4>3, <1>3
    <3> QED
      BY <3>6, <3>7
  <2> QED
    BY <2>2, <2>3, <2>4 DEF Monthly
<1>6. FirstOf(z, n) \in Nat /\ DaysIn(z, n) \in 28 .. 31
  BY FirstTyped, MonthLong
<1>7. /\ r.start \in Nat /\ r.end \in Nat /\ r.end - r.start \in 27 .. 30 /\ r.end >= today /\ r.start <= r.end
      /\ r.start >= today - 31 /\ r.start <= today + 400
  BY <1>3, <1>5, <1>6 DEF WholeMonth
<1>8. r.start \in Calendar /\ r.end + 1 \in Calendar
  BY <1>7, <1>3, Near
<1>9. DayOfMonth(r.start) = 1
  <2>1. InMonth(z, n, r.start)
    BY <1>5, <1>6 DEF WholeMonth, InMonth
  <2>2. DayOfMonth(r.start) = r.start - FirstOf(z, n) + 1
    BY <2>1, <1>5, <1>8, PartsOf
  <2> QED
    BY <2>2, <1>5, <1>6 DEF WholeMonth
<1>10. DayOfMonth(r.end + 1) = 1
  <2> DEFINE zz == NextMonth(z, n)[1]
             nn == NextMonth(z, n)[2]
  <2>1. zz \in Years /\ nn \in 1 .. 12 /\ FirstOf(zz, nn) = FirstOf(z, n) + DaysIn(z, n) /\ DaysIn(zz, nn) \in 28 .. 31
    BY <1>5, NextBegins, MonthLong
  <2> HIDE DEF zz, nn
  <2>2. r.end + 1 = FirstOf(zz, nn)
    BY <2>1, <1>5, <1>6 DEF WholeMonth
  <2>3. InMonth(zz, nn, r.end + 1)
    BY <2>1, <2>2, <1>6 DEF InMonth
  <2> DEFINE day == r.end + 1
  <2>4. day \in Calendar /\ InMonth(zz, nn, day) /\ zz \in Years /\ nn \in 1 .. 12
        /\ day = FirstOf(zz, nn) /\ FirstOf(zz, nn) \in Nat
    BY <2>1, <2>2, <2>3, <1>6, <1>8
  <2> HIDE DEF day
  <2>5. DayOfMonth(day) = day - FirstOf(zz, nn) + 1
    BY <2>4, PartsOf
  <2>6. DayOfMonth(day) = 1
    BY <2>4, <2>5
  <2> QED
    BY <2>6 DEF day
<1>11. MeansTheDay(p, r, today)
  <2>1. r.kind # "weekday" /\ r.kind # "weekend" /\ r.kind # "day"
    BY DEF Monthly
  <2>2. r.end - r.start <= 30
    BY <1>7
  <2> QED
    BY <2>1, <2>2, <1>7, <1>9, <1>10 DEF MeansTheDay
<1>12. "next_week" \notin p.words
  BY <1>2 DEF Applies
<1> QED
  BY <1>5, <1>7, <1>8, <1>11, <1>12

-----------------------------------------------------------------------------
\* A minute of the clock is of one day.
LEMMA Midnight ==
  ASSUME NEW now \in Nat
  PROVE  /\ now \div 1440 \in Nat
         /\ 1440 * (now \div 1440) <= now /\ now < 1440 * (now \div 1440) + 1440
OBVIOUS

\* The hour on a face of twelve, and the minute.
LEMMA OnTheFace ==
  ASSUME NEW k \in Nat, NEW h \in Nat, NEW j \in Nat, NEW n \in Nat, n <= 59, NEW at,
         at = 1440 * k + (60 * (h % 24) + n) + 720 * j
  PROVE  at % 60 = n /\ (at \div 60) % 12 = h % 12
<1>1. PICK f \in Nat : f = h % 24
  OBVIOUS
<1>2. at = 60 * (24 * k + f + 12 * j) + n /\ 24 * k + f + 12 * j \in Nat
  BY <1>1
<1>3. at % 60 = n /\ at \div 60 = 24 * k + f + 12 * j
  BY <1>2
<1>4. (24 * k + f + 12 * j) % 12 = f % 12
  BY <1>1
<1>5. h % 12 = f % 12
  BY <1>1
<1> QED
  BY <1>3, <1>4, <1>5

\* The time that is found is the next that has the hour and the minute that were said.
LEMMA ClockMeant ==
  ASSUME NEW c, Clocked(c), NEW now \in Nat
  PROVE  MeansTheTime(c, now)
<1> DEFINE k == now \div 1440
           hour == CASE c.kind = "to" -> (c.hour - 1) % 24
                     [] c.kind = "plain" /\ c.meridiem = "pm" /\ c.hour < 12 -> c.hour + 12
                     [] c.kind = "plain" /\ c.meridiem = "am" /\ c.hour = 12 -> 0
                     [] OTHER -> c.hour
           minute == IF c.kind = "to" THEN 60 - c.minute ELSE c.minute
           base == 1440 * k + At(hour % 24, minute)
           daytime == IF base <= now /\ hour < 12 THEN base + At(12, 0) ELSE base
           at == ClockTime(c, now)
<1>1. k \in Nat /\ 1440 * k <= now /\ now < 1440 * k + 1440
  BY Midnight
<1>2. c.hour \in Nat /\ c.minute \in Nat
  BY DEF Clocked
<1>3. hour \in Nat /\ (c.kind \in {"plain", "past"} => hour % 12 = c.hour % 12)
  <2>1. CASE c.kind = "to"
    BY <1>2, <2>1
  <2>2. CASE c.kind = "plain" /\ c.meridiem = "pm" /\ c.hour < 12
    BY <1>2, <2>2
  <2>3. CASE c.kind = "plain" /\ c.meridiem = "am" /\ c.hour = 12
    BY <1>2, <2>3
  <2>4. CASE /\ c.kind # "to" /\ ~(c.kind = "plain" /\ c.meridiem = "pm" /\ c.hour < 12)
             /\ ~(c.kind = "plain" /\ c.meridiem = "am" /\ c.hour = 12)
    BY <1>2, <2>4
  <2> QED
    BY <2>1, <2>2, <2>3, <2>4
<1>4. /\ minute \in Nat
      /\ c.kind \in {"plain", "past"} => minute = c.minute
  BY <1>2 DEF Clocked
<1>5. CASE c.kind \in {"none", "noon", "midnight"}
  <2>1. /\ c.kind = "none" => at = 0
        /\ c.kind = "midnight" => at = 1440 * k + 1440
    BY DEF ClockTime
  <2> HIDE DEF at, k
  <2>2. CASE c.kind = "midnight"
    <3>1. now < at /\ at <= now + 1440 /\ c.kind \notin {"plain", "past"}
      BY <1>1, <2>1, <2>2
    <3> QED
      BY <3>1 DEF MeansTheTime, at
  <2>3. CASE c.kind = "none"
    <3>1. ~(at > 0)
      BY <2>1, <2>3
    <3> QED
      BY <3>1 DEF MeansTheTime, at
  <2> QED
    BY <2>2, <2>3, <1>5 DEF MeansTheTime
<1>6. CASE c.kind \in {"plain", "past", "to"}
  <2>1. at = IF minute > 59 THEN -1
             ELSE IF c.meridiem = "none" /\ hour <= 12 THEN NotPast(daytime, now) ELSE NotPast(base, now)
    BY <1>6 DEF ClockTime
  <2> HIDE DEF at, hour, minute, k
  <2>2. CASE minute > 59
    <3>1. ~(at > 0)
      BY <2>1, <2>2
    <3> QED
      BY <3>1 DEF MeansTheTime, at
  <2>3. CASE ~(minute > 59)
    <3>0. hour % 24 \in 0 .. 23
      BY <1>3
    <3>1. minute \in 0 .. 59 /\ base = 1440 * k + (60 * (hour % 24) + minute) /\ base \in Nat
          /\ 1440 * k <= base /\ base < 1440 * k + 1440
      BY <1>1, <1>4, <2>3, <3>0 DEF At
    <3>2. daytime = base \/ (daytime = base + 720 /\ base <= now)
      BY <1>1, <3>1 DEF At
    <3>3. at = NotPast(base, now) \/ at = NotPast(daytime, now)
      BY <2>1, <2>3
    <3> HIDE DEF base, daytime
    <3>4. \E j \in Nat : at = base + 720 * j
      <4>1. at \in {base, base + 720, base + 1440, base + 2160}
        BY <3>1, <3>2, <3>3 DEF NotPast
      <4>2. base = base + 720 * 0 /\ base + 720 = base + 720 * 1 /\ base + 1440 = base + 720 * 2
            /\ base + 2160 = base + 720 * 3
        BY <3>1
      <4> QED
        BY <4>1, <4>2
    <3>5. now < at /\ at <= now + 1440
      BY <1>1, <3>1, <3>2, <3>3 DEF NotPast
    <3>6. at % 60 = minute /\ (at \div 60) % 12 = hour % 12
      <4>1. PICK j \in Nat : at = 1440 * k + (60 * (hour % 24) + minute) + 720 * j
        BY <3>1, <3>4
      <4>2. minute \in Nat /\ minute <= 59
        BY <1>4, <2>3
      <4> QED
        BY <1>1, <1>3, <4>1, <4>2, OnTheFace
    <3> QED
      BY <1>3, <1>4, <3>5, <3>6 DEF MeansTheTime, at
  <2> QED
    BY <2>2, <2>3
<1> QED
  BY <1>5, <1>6 DEF Clocked

-----------------------------------------------------------------------------
\* The days of a scope, and the views they are all in.
Span(scope) ==
  \/ OneDay(scope) \/ DaysOfWeek(scope)
  \/ scope.start \in Calendar /\ \E z \in Years, n \in 1 .. 12 : WholeMonth(scope, z, n)
Sees(call, scope, ctx) == scope.start .. scope.end \subseteq Shown(call, ctx)

\* A week is shorter than any month.
LEMMA LongMonths ==
  ASSUME NEW scope, NEW z \in Years, NEW n \in 1 .. 12, WholeMonth(scope, z, n)
  PROVE  scope.end - scope.start \in Int /\ scope.end - scope.start > 8 /\ scope.end # scope.start
<1>1. FirstOf(z, n) \in Nat /\ DaysIn(z, n) \in 28 .. 31
  BY FirstTyped, MonthLong
<1> QED
  BY <1>1 DEF WholeMonth

\* A call for a view carries the view and its day.
LEMMA Shows ==
  ASSUME NEW view, NEW day, NEW ctx
  PROVE  /\ ShowView(view, day).view = view /\ ShowView(view, day).day = day
BY DEF ShowView, Call

\* The home view is of today.
LEMMA HomeSees ==
  ASSUME NEW scope, NEW ctx, IsToday(scope, ctx), Today(ctx) \in Nat, NEW day
  PROVE  Sees(ShowView("home", day), scope, ctx)
BY Shows DEF Sees, Shown, IsToday

\* The week of a day is of all days of that week.
LEMMA WeekSees ==
  ASSUME NEW scope, NEW ctx, OneDay(scope) \/ DaysOfWeek(scope)
  PROVE  Sees(ShowView("week", scope.start), scope, ctx)
<1> DEFINE day == scope.start
<1>1. day \in Nat /\ day >= 1
  BY Ordinals DEF OneDay, DaysOfWeek
<1>2. scope.end \in Nat /\ scope.end <= Monday(day) + 6 /\ Monday(day) \in Int /\ Monday(day) <= day
  <2>1. Monday(day) \in Int /\ Monday(day) <= day /\ day <= Monday(day) + 6
    BY <1>1, Weeks
  <2> QED
    BY <1>1, <2>1 DEF OneDay, DaysOfWeek
<1>3. Shown(ShowView("week", day), ctx) = Monday(day) .. (Monday(day) + 6)
  BY <1>1, Shows DEF Shown
<1> QED
  BY <1>1, <1>2, <1>3 DEF Sees

\* The month of a day is of all days of that month.
LEMMA MonthSees ==
  ASSUME NEW scope, NEW ctx, scope.start \in Calendar,
         OneDay(scope) \/ \E z \in Years, n \in 1 .. 12 : WholeMonth(scope, z, n)
  PROVE  Sees(ShowView("month", scope.start), scope, ctx)
<1> DEFINE day == scope.start
           y == Year(day)
           m == MonthOf(y, day)
<1>1. day \in Nat /\ day >= 1
  BY Ordinals
<1>2. y \in Years /\ m \in 1 .. 12 /\ InMonth(y, m, day)
  BY Parts
<1>3. Shown(ShowView("month", day), ctx) = FirstOf(y, m) .. (FirstOf(y, m) + DaysIn(y, m) - 1)
  BY <1>1, Shows DEF Shown
<1>4. CASE OneDay(scope)
  <2> HIDE DEF y, m
  <2>1. FirstOf(y, m) \in Nat /\ DaysIn(y, m) \in 28 .. 31
    BY <1>2, FirstTyped, MonthLong
  <2>2. scope.end = day /\ FirstOf(y, m) <= day /\ day < FirstOf(y, m) + DaysIn(y, m)
    BY <1>2, <1>4 DEF OneDay, InMonth
  <2> QED
    BY <1>1, <1>3, <2>1, <2>2 DEF Sees
<1>5. CASE \E z \in Years, n \in 1 .. 12 : WholeMonth(scope, z, n)
  <2>1. PICK z \in Years, n \in 1 .. 12 : WholeMonth(scope, z, n)
    BY <1>5
  <2>2. FirstOf(z, n) \in Nat /\ DaysIn(z, n) \in 28 .. 31
    BY FirstTyped, MonthLong
  <2>3. InMonth(z, n, day)
    BY <2>1, <2>2 DEF InMonth, WholeMonth
  <2>4. y = z /\ m = n
    BY <2>3, PartsOf
  <2> HIDE DEF y, m
  <2> QED
    BY <1>3, <2>1, <2>4 DEF Sees, WholeMonth
<1> QED
  BY <1>4, <1>5

\* A view without a day is today's.
LEMMA TodaySeen ==
  ASSUME NEW scope, NEW ctx, IsToday(scope, ctx), Today(ctx) \in Calendar, NEW view \in {"week", "month"}
  PROVE  Sees(ShowView(view, 0), scope, ctx)
<1>1. OneDay(scope)
  BY DEF OneDay, IsToday
<1>2. Shown(ShowView(view, 0), ctx) = Shown(ShowView(view, scope.start), ctx)
  <2>1. scope.start = Today(ctx) /\ Today(ctx) # 0
    BY Ordinals DEF IsToday
  <2> QED
    BY <2>1, Shows DEF Shown
<1>3. Sees(ShowView(view, scope.start), scope, ctx)
  BY <1>1, WeekSees, MonthSees DEF OneDay
<1> QED
  BY <1>2, <1>3 DEF Sees

-----------------------------------------------------------------------------
\* The views among the calls of an answer of one call or of two.
LEMMA ViewThere ==
  ASSUME NEW call, call.view \in {"home", "week", "month"}
  PROVE  call \in ViewsOf(Handle(<<call>>))
<1>1. Handle(<<call>>).calls = <<call>>
  BY DEF Handle, Answer
<1>2. 1 \in DOMAIN <<call>> /\ <<call>>[1] = call
  OBVIOUS
<1> QED
  BY <1>1, <1>2 DEF ViewsOf

\* A view that is the second call.
LEMMA SecondThere ==
  ASSUME NEW call, call.view \in {"home", "week", "month"}, NEW first, NEW answer,
         answer = Handle(<<first, call>>)
  PROVE  call \in ViewsOf(answer)
<1>1. answer.calls = <<first, call>>
  BY DEF Handle, Answer
<1>2. 2 \in DOMAIN answer.calls /\ answer.calls[2] = call
  BY <1>1
<1> QED
  BY <1>2 DEF ViewsOf

\* _plan_query: a view of all the days.
LEMMA QuerySees ==
  ASSUME NEW u, NEW intent, NEW ctx, NEW scope, Span(scope), Today(ctx) \in Nat,
         PlanQuery(u, intent, ctx, scope).disposition = "handled_locally"
  PROVE  \E call \in ViewsOf(PlanQuery(u, intent, ctx, scope)) : Sees(call, scope, ctx)
<1> DEFINE view == QueryView(scope, ctx)
           call == ShowView(view, IF view = "home" THEN 0 ELSE scope.start)
<1>1. \E first : PlanQuery(u, intent, ctx, scope) = Handle(<<first, call>>)
  <2> DEFINE F(name, who) == [Call(name) EXCEPT !.day = scope.start, !.end = scope.end, !.who = who]
  <2>1. \/ PlanQuery(u, intent, ctx, scope) = Clarify
        \/ \E name, who : PlanQuery(u, intent, ctx, scope) = Handle(<<F(name, who), call>>)
    BY DEF PlanQuery
  <2>2. Clarify.disposition # "handled_locally"
    BY DEF Clarify, Answer
  <2> HIDE DEF F, call
  <2> QED
    BY <2>1, <2>2
<1>2. view \in {"home", "week", "month"}
  BY DEF QueryView
<1>3. Sees(call, scope, ctx)
  <2>1. CASE view = "home"
    <3>1. IsToday(scope, ctx)
      BY <2>1 DEF QueryView
    <3> QED
      BY <2>1, <3>1, HomeSees
  <2>2. CASE view = "week"
    <3>1. IsRange(scope) => scope.end - scope.start <= 8
      BY <2>2 DEF QueryView
    <3>2. OneDay(scope) \/ DaysOfWeek(scope)
      <4>1. SUFFICES ASSUME NEW z \in Years, NEW n \in 1 .. 12, WholeMonth(scope, z, n), scope.start \in Calendar
                     PROVE  FALSE
        BY DEF Span
      <4>2. scope.end - scope.start > 8 /\ scope.end # scope.start
            /\ scope.end - scope.start \in Int
        BY <4>1, LongMonths
      <4> QED
        BY <3>1, <4>2 DEF IsRange
    <3> QED
      BY <2>2, <3>2, WeekSees
  <2>3. CASE view = "month"
    <3>1. IsRange(scope) /\ ~(scope.end - scope.start <= 8)
      BY <2>3 DEF QueryView
    <3>2. ~DaysOfWeek(scope) /\ scope.start \in Calendar
      BY <3>1, Ordinals DEF DaysOfWeek, Span, OneDay
    <3> QED
      BY <2>3, <3>2, MonthSees DEF Span
  <2> QED
    BY <1>2, <2>1, <2>2, <2>3
<1>4. call.view = view
  BY Shows
<1> HIDE DEF call, view
<1>5. PICK first : PlanQuery(u, intent, ctx, scope) = Handle(<<first, call>>)
  BY <1>1
<1>6. call.view \in {"home", "week", "month"}
  BY <1>2, <1>4
<1>7. call \in ViewsOf(PlanQuery(u, intent, ctx, scope))
  BY <1>5, <1>6, SecondThere
<1> QED
  BY <1>3, <1>7

\* What was resolved: nothing, or one day, several of a week, or a month.
LEMMA ResolvedAs ==
  ASSUME NEW p, NEW today, NEW r, r = Resolve(p, today), r.kind # "raises"
  PROVE  /\ r.kind = "none" => r.start = 0
         /\ r.kind # "none" => r.kind \in Singles \cup Weekly \cup Monthly
         /\ r.kind = "week" => "week" \in p.words
         /\ r.kind = "next_week" => "next_week" \in p.words
<1> DEFINE y == Year(today)
           m == MonthOf(y, today)
           e == ExplicitDay(p, today, y, m)
<1>1. r = ResolveIn(p, today, y, m, e)
  BY DEF Resolve
<1> HIDE DEF y, m, e
<1>2. CASE r.kind = "none"
  <2>1. r.start = 0
    <3> DEFINE said == {i \in DOMAIN Rules : Applies(Rules[i], p, e)}
               rule == IF said = {} THEN "none" ELSE Rules[Min(said)]
               rs == \/ rule = "day" /\ e = -1
                     \/ rule = "ahead" /\ today + p.ahead > LastDay
    <3>1. r = IF rule = "none" THEN Found("none", <<0, 0>>, <<>>)
              ELSE IF rs THEN Found("raises", <<0, 0>>, <<>>)
              ELSE Found(rule, Scope(rule, p, today, y, m, e), TimeWindow(p))
      BY <1>1 DEF ResolveIn
    <3> HIDE DEF rule, rs
    <3> QED
      BY <1>2, <3>1 DEF Found
  <2> QED
    BY <1>2, <2>1
<1>3. CASE r.kind # "none"
  <2>1. FoundBy(r, p, today, y, m, e)
    BY <1>1, <1>3, RuleFound
  <2> QED
    BY <1>3, <2>1 DEF FoundBy, Applies
<1> QED
  BY <1>2, <1>3

\* What was resolved is what was meant, and spans days one view has.
LEMMA ScopeSpans ==
  ASSUME NEW today, Ordinary(today), NEW p, Phrased(p), NEW r, r = Resolve(p, today),
         r.kind \in Singles \cup Weekly \cup Monthly
  PROVE  Span(r) /\ MeansTheDay(p, r, today)
BY OneDayMeant, WeekMeant, MonthMeant DEF Span

\* _extract_view: what was said for it to be this one.
LEMMA ViewSaid ==
  ASSUME NEW u, u.views = {}
  PROVE  LET view == ExtractView(u) words == u.phrase.words
         IN /\ view \in {"home", "week", "month", "none"}
            /\ view = "home" => words \cap TodayWords # {}
            /\ view = "week" => "week" \in words \/ "next_week" \in words
            /\ view = "month" => /\ words \cap {"this_month", "next_month"} # {}
                                 /\ "week" \notin words /\ "next_week" \notin words
BY DEF ExtractView, TodayWords

\* _plan_show_view: the view is of all the days.
LEMMA ShowSees ==
  ASSUME NEW u, NEW ctx, Phrased(u.phrase), Ordinary(Today(ctx)), u.views = {},
         NEW found, found = DateOf(u, ctx), found.kind # "raises",
         NEW scope, scope = OrToday(found, ctx),
         u.phrase.words \cap TodayWords # {} => IsToday(scope, ctx), ~TwoPeriods(u, scope),
         PlanShowView(u, found).disposition = "handled_locally"
  PROVE  \E call \in ViewsOf(PlanShowView(u, found)) : Sees(call, scope, ctx)
<1> DEFINE words == u.phrase.words
           named == ExtractView(u)
           view == IF named # "none" THEN named
                   ELSE IF words \cap {"tonight", "now"} # {} THEN "home"
                   ELSE IF IsRange(found) /\ found.end - found.start > 8 THEN "month" ELSE "week"
           call == ShowView(view, IF view \in {"timer", "home"} THEN 0 ELSE found.start)
<1>1. PlanShowView(u, found) = Handle(<<call>>) /\ ~(named = "none" /\ found.kind = "none")
  <2>1. Clarify.disposition # "handled_locally"
    BY DEF Clarify, Answer
  <2> QED
    BY <2>1 DEF PlanShowView
<1>2. /\ named \in {"home", "week", "month", "none"}
      /\ named = "home" => words \cap TodayWords # {}
      /\ named = "week" => "week" \in words \/ "next_week" \in words
      /\ named = "month" => /\ words \cap {"this_month", "next_month"} # {}
                            /\ "week" \notin words /\ "next_week" \notin words
  BY ViewSaid
<1>3. /\ found.kind = "none" => found.start = 0
      /\ found.kind # "none" => found.kind \in Singles \cup Weekly \cup Monthly
      /\ found.kind = "week" => "week" \in words
      /\ found.kind = "next_week" => "next_week" \in words
  BY ResolvedAs DEF DateOf
<1>4. Today(ctx) \in Nat /\ Today(ctx) \in Calendar
  BY Near DEF Ordinary
<1> HIDE DEF named
<1>5. view \in {"home", "week", "month"}
  BY <1>2
<1>6. view = "home" => IsToday(scope, ctx)
  <2>1. view = "home" => words \cap TodayWords # {}
    BY <1>2 DEF TodayWords
  <2> QED
    BY <2>1
<1>7. call.view = view
  BY Shows
<1>8. Sees(call, scope, ctx)
  <2>1. CASE view = "home"
    BY <2>1, <1>4, <1>6, HomeSees
  <2>2. CASE found.kind = "none" /\ view # "home"
    <3>1. IsToday(scope, ctx)
      BY <2>2 DEF OrToday, Found, IsToday
    <3>2. view \in {"week", "month"}
      BY <1>5, <2>2
    <3>3. call = ShowView(view, 0)
      BY <1>3, <2>2, <3>2
    <3> HIDE DEF view, call
    <3> QED
      BY <3>1, <3>2, <3>3, <1>4, TodaySeen
  <2>3. CASE found.kind # "none" /\ view # "home"
    <3>1. scope = found
      BY <2>3 DEF OrToday
    <3>2. Span(scope)
      BY <1>3, <2>3, <3>1, ScopeSpans DEF DateOf
    <3>3. view = "week" => OneDay(scope) \/ DaysOfWeek(scope)
      <4>1. SUFFICES ASSUME view = "week", ~OneDay(scope), ~DaysOfWeek(scope)
                     PROVE  FALSE
        OBVIOUS
      <4>2. PICK z \in Years, n \in 1 .. 12 : WholeMonth(scope, z, n)
        BY <3>2, <4>1 DEF Span
      <4>3. scope.end - scope.start > 8 /\ scope.end # scope.start
        BY <4>2, LongMonths
      <4>4. named = "week"
        BY <4>1, <4>3, <3>1 DEF IsRange
      <4>5. found.kind \in Monthly
        BY <4>1, <1>3, <2>3, <3>1, OneDayMeant, WeekMeant DEF DateOf
      <4>6. "next_week" \notin words
        BY <4>5, MonthMeant DEF DateOf
      <4> QED
        BY <4>4, <4>5, <4>6, <1>2, <3>1 DEF TwoPeriods, Monthly
    <3>4. view = "month" => OneDay(scope) \/ \E z \in Years, n \in 1 .. 12 : WholeMonth(scope, z, n)
      <4>1. SUFFICES ASSUME view = "month", ~OneDay(scope), DaysOfWeek(scope)
                     PROVE  FALSE
        BY <3>2 DEF Span
      <4>2. scope.end - scope.start <= 6
        BY <4>1, Ordinals DEF DaysOfWeek
      <4>3. ~(scope.end - scope.start > 8)
        BY <4>1, <4>2, Ordinals DEF DaysOfWeek
      <4>4. named = "month"
        BY <4>1, <4>3, <3>1
      <4>5. found.kind \notin {"week", "next_week"}
        BY <4>4, <1>2, <1>3
      <4>6. found.kind # "weekend"
        BY <4>4, <1>2, <3>1 DEF TwoPeriods
      <4>7. found.kind \in Monthly
        BY <4>1, <4>5, <4>6, <1>3, <2>3, <3>1, OneDayMeant DEF DateOf, Weekly
      <4>8. scope.end - scope.start \in 27 .. 30
        BY <4>7, <3>1, MonthMeant DEF DateOf
      <4> QED
        BY <4>2, <4>8
    <3>5. scope.start \in Calendar
      BY <3>2 DEF Span, OneDay, DaysOfWeek
    <3>6. call = ShowView(view, scope.start)
      BY <1>5, <2>3, <3>1
    <3> HIDE DEF view, call
    <3>7. CASE view = "week"
      BY <3>3, <3>6, <3>7, WeekSees
    <3>8. CASE view = "month"
      BY <3>4, <3>5, <3>6, <3>8, MonthSees
    <3> QED
      BY <1>5, <2>3, <3>7, <3>8
  <2> QED
    BY <2>1, <2>2, <2>3
<1> HIDE DEF call, view
<1>9. call \in ViewsOf(Handle(<<call>>))
  <2>1. call.view \in {"home", "week", "month"}
    BY <1>5, <1>7
  <2> QED
    BY <2>1, ViewThere
<1> QED
  BY <1>1, <1>8, <1>9

\* The plans of the three intents that show days: that of a view, or a query's.
LEMMA PlanSees ==
  ASSUME NEW u, NEW ctx, NEW c, NEW intent, Phrased(u.phrase), Ordinary(Today(ctx)), u.views = {},
         NEW found, found = DateOf(u, ctx), found.kind # "raises",
         NEW scope, scope = OrToday(found, ctx),
         intent.name \in {"calendar.query_day", "calendar.query_person", "calendar.show_view"},
         intent.name = "calendar.show_view" => ~TwoPeriods(u, scope),
         u.phrase.words \cap TodayWords # {} => IsToday(scope, ctx),
         NEW plan, plan = Plan(u, intent, ctx, c, found), plan.disposition = "handled_locally"
  PROVE  \E call \in ViewsOf(plan) : Sees(call, scope, ctx)
<1>1. plan # Reject
  BY DEF Reject, Answer
<1>2. CASE intent.name = "calendar.show_view"
  <2>1. plan = PlanShowView(u, found)
    BY <1>1, <1>2, NamesKnown DEF Plan
  <2> QED
    BY <1>2, <2>1, ShowSees
<1>3. CASE intent.name \in {"calendar.query_day", "calendar.query_person"}
  <2>1. plan = PlanQuery(u, intent.name, ctx, scope)
    <3>1. CASE intent.name = "calendar.query_day"
      BY <1>1, <3>1, NamesKnown DEF Plan
    <3>2. CASE intent.name = "calendar.query_person"
      BY <1>1, <3>2, NamesKnown DEF Plan
    <3> QED
      BY <1>3, <3>1, <3>2
  <2>2. Today(ctx) \in Nat /\ Today(ctx) \in Calendar
    BY Near DEF Ordinary
  <2>3. Span(scope)
    <3>1. CASE found.kind = "none"
      <4>1. scope.start = Today(ctx) /\ scope.end = Today(ctx)
        BY <3>1 DEF OrToday, Found
      <4> QED
        BY <4>1, <2>2 DEF Span, OneDay
    <3>2. CASE found.kind # "none"
      <4>1. scope = found /\ found.kind \in Singles \cup Weekly \cup Monthly
        BY <3>2, ResolvedAs DEF OrToday, DateOf
      <4> QED
        BY <4>1, ScopeSpans DEF DateOf
    <3> QED
      BY <3>1, <3>2
  <2> QED
    BY <2>1, <2>2, <2>3, QuerySees
<1> QED
  BY <1>2, <1>3

\* Before anything is said there is no date in it, and no time.
LEMMA NothingDated ==
  ASSUME NEW today, NEW now
  PROVE  Resolve(Nothing, today).kind = "none" /\ MeansTheTime(NoClock, now)
<1> DEFINE y == Year(today)
           m == MonthOf(y, today)
           e == ExplicitDay(Nothing, today, y, m)
<1>1. e = 0
  <2>1. DayNumber(Nothing) = 0 /\ ~(Nothing.month > 0)
    BY DEF DayNumber, Nothing
  <2>2. \A n \in 28 .. 31 : 0 \notin 1 .. n
    OBVIOUS
  <2>3. 0 \notin 1 .. DaysIn(<<y, m>>[1], <<y, m>>[2])
    BY <2>2, MonthLong
  <2> QED
    BY <2>1, <2>3 DEF ExplicitDay
<1> HIDE DEF y, m, e
<1>2. \A i \in DOMAIN Rules : ~Applies(Rules[i], Nothing, e)
  <2>1. Nothing.words = {} /\ Nothing.ahead = -1 /\ Nothing.weekday = NoWeekday /\ Nothing.month = 0
        /\ Nothing.part = "none"
    BY DEF Nothing
  <2>2. ASSUME NEW rule
        PROVE  ~Applies(rule, Nothing, e)
    BY <1>1, <2>1 DEF Applies
  <2> QED
    BY <2>2
<1>3. Resolve(Nothing, today) = Found("none", <<0, 0>>, <<>>)
  <2>1. Resolve(Nothing, today) = ResolveIn(Nothing, today, y, m, e)
    BY DEF Resolve, y, m, e
  <2> QED
    BY <2>1, <1>2 DEF ResolveIn
<1>4. ~(ClockTime(NoClock, now) > 0)
  BY DEF ClockTime, NoClock
<1> QED
  BY <1>3, <1>4 DEF Found, MeansTheTime

\* Days and times are the ones a person would mean, and who asks about days is
\* shown all of them (dates.py, extract_clock_time, _plan_query and
\* _plan_show_view), on every day that has two years of the calendar before and
\* after it, and whatever was said.
THEOREM DatesAreAsSaid == VoiceSpec => []DatesAsSaid
<1>1. WordsInv => DatesAsSaid
  <2> DEFINE u == asked.u
             ctx == asked.ctx
             answer == made.answer
             found == DateOf(u, ctx)
             scope == OrToday(found, ctx)
             top == INTENTS[TopIntent(u)]
  <2> SUFFICES ASSUME WordsInv
               PROVE  /\ MeansTheDay(u.phrase, found, Today(ctx))
                      /\ MeansTheTime(u.clock, ctx.now)
                      /\ /\ answer.disposition = "handled_locally"
                         /\ answer.intent \in {"calendar.query_day", "calendar.query_person", "calendar.show_view"}
                         /\ u.views = {} /\ (answer.intent = "calendar.show_view" => ~TwoPeriods(u, scope))
                         /\ u.phrase.words \cap TodayWords # {} => IsToday(scope, ctx)
                         => \E call \in ViewsOf(answer) : Sees(call, scope, ctx)
    BY DEF DatesAsSaid, WordsInv, Made, Sees
  <2>1. answer = Decide(u, asked.stt, ctx, found)
    BY DEF WordsInv, Made
  <2>2. CASE asked = Unasked
    <3>1. u.phrase = Nothing /\ u.clock = NoClock
      BY <2>2 DEF Unasked, Silence
    <3>2. found.kind = "none" /\ MeansTheTime(u.clock, ctx.now)
      BY <3>1, NothingDated DEF DateOf
    <3>3. answer.disposition # "handled_locally"
      <4>1. Clarify.disposition # "handled_locally"
        BY DEF Clarify, Answer
      <4> QED
        BY <2>1, <2>2, <4>1, NothingSaid
    <3>4. MeansTheDay(u.phrase, found, Today(ctx))
      BY <3>2 DEF MeansTheDay
    <3> QED
      BY <3>2, <3>3, <3>4
  <2>3. CASE asked # Unasked
    <3>1. WellFormed(u) /\ ctx.now \in Nat /\ Today(ctx) \in 800 .. (LastDay - 800)
      BY <2>3, VoiceAssumption DEF WordsInv
    <3>2. Phrased(u.phrase) /\ Clocked(u.clock)
      BY <3>1 DEF WellFormed
    <3>3. Ordinary(Today(ctx))
      <4>1. Today(ctx) \in 800 .. (LastDay - 800)
        BY <3>1
      <4>2. LastDay \in Nat
        BY SMT DEF LastDay
      <4> HIDE DEF ctx
      <4> QED
        BY <4>1, <4>2 DEF Ordinary
    <3>4. MeansTheTime(u.clock, ctx.now)
      <4>1. ctx.now \in Nat
        BY <3>1
      <4> HIDE DEF u, ctx
      <4> QED
        BY <3>2, <4>1, ClockMeant
    <3>5. MeansTheDay(u.phrase, found, Today(ctx))
      <4>1. CASE found.kind \in {"none", "raises"}
        BY <4>1 DEF MeansTheDay
      <4>2. CASE found.kind \notin {"none", "raises"}
        BY <3>2, <3>3, <4>2, ResolvedAs, ScopeSpans DEF DateOf
      <4> QED
        BY <4>1, <4>2
    <3>6. ASSUME answer.disposition = "handled_locally"
          PROVE  /\ found.kind # "raises"
                 /\ \E c : answer = [Plan(u, top, ctx, c, found) EXCEPT !.intent = top.name]
      <4>1. Escalate(ctx).disposition # "handled_locally"
        BY DEF Escalate, Clarify, Answer
      <4>2. Clarify.disposition # "handled_locally" /\ Raises.disposition # "handled_locally"
        BY DEF Clarify, Raises, Answer
      <4> QED
        BY <2>1, <3>6, <4>1, <4>2 DEF Decide
    <3> HIDE DEF u, ctx, answer, found, scope, top
    <3>7. ASSUME answer.disposition = "handled_locally",
                 answer.intent \in {"calendar.query_day", "calendar.query_person", "calendar.show_view"},
                 u.views = {}, answer.intent = "calendar.show_view" => ~TwoPeriods(u, scope),
                 u.phrase.words \cap TodayWords # {} => IsToday(scope, ctx)
          PROVE  \E call \in ViewsOf(answer) : Sees(call, scope, ctx)
      <4>1. PICK c : answer = [Plan(u, top, ctx, c, found) EXCEPT !.intent = top.name]
        BY <3>6, <3>7
      <4> DEFINE plan == Plan(u, top, ctx, c, found)
      <4>2. plan.disposition = "handled_locally"
        BY <4>1, <3>7
      <4>3. answer.calls = plan.calls
        BY <4>1
      <4>4. answer.intent = top.name
        BY <4>1
      <4> HIDE DEF plan
      <4>5. \E call \in ViewsOf(plan) : Sees(call, scope, ctx)
        <5>1. found = DateOf(u, ctx) /\ found.kind # "raises" /\ scope = OrToday(found, ctx)
          BY <3>6, <3>7 DEF found, scope
        <5>2. top.name \in {"calendar.query_day", "calendar.query_person", "calendar.show_view"}
              /\ (top.name = "calendar.show_view" => ~TwoPeriods(u, scope))
          BY <3>7, <4>4
        <5>3. plan = Plan(u, top, ctx, c, found)
          BY DEF plan
        <5> QED
          BY <3>2, <3>3, <3>7, <4>2, <5>1, <5>2, <5>3, PlanSees
      <4> QED
        BY <4>3, <4>5 DEF ViewsOf
    <3> QED
      BY <3>4, <3>5, <3>7
  <2> QED
    BY <2>2, <2>3
<1> QED
  BY <1>1, WordsInvAlways, PTL

=============================================================================
