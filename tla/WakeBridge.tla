----------------------------- MODULE WakeBridge -----------------------------
(***************************************************************************)
(* The bridge between a kiosk and the wake-word gate on the speaker device *)
(* (voice/wake_invoke.py): commands one way, frames the other, with a      *)
(* connection to the device that is made again whenever it goes.           *)
(*                                                                         *)
(* Commands are numbered in the order the kiosk sends them; of the frames  *)
(* only "gate link down" appears, at which the kiosk tears its detector    *)
(* down and starts over (wake/useWakeWord.ts).  The device and the network *)
(* are external.  A connection that has gone silent takes what is written  *)
(* to it, and is found broken some time after.                             *)
(***************************************************************************)
EXTENDS Naturals, Sequences, SequencesExt

CONSTANTS MaxCommands, \* bound on the commands of one kiosk socket
          MaxBreaks    \* bound on what breaks

ASSUME WakeBridgeAssumption == MaxCommands \in Nat

VARIABLES
  gateClient,  \* the kiosk's socket, "open" or "closed"
  commands,    \* how many commands the kiosk has sent
  inbound,     \* those on their way
  outbound,    \* outbound, the queue
  gateBridge,  \* _bridge_device: "dial", "relay", "backoff" or "ended"
  gateLink,    \* its connection: "none", "good", "broken" or "silent"
  gateUp,      \* the device answers
  onWire,      \* what is written and not yet read by the device
  carried,     \* what the device has got, in order (history)
  dropped,     \* commands written to a connection that was gone (history)
  owed,        \* some were since the kiosk was last told (history)
  breaks       \* what has broken so far

gateVars == <<gateClient, commands, inbound, outbound, gateBridge, gateLink, gateUp,
              onWire, carried, dropped, owed, breaks>>

deviceSide == <<onWire, carried, dropped, owed>>

WakeBridgeTypeOK ==
  /\ gateClient \in {"open", "closed"}
  /\ gateBridge \in {"dial", "relay", "backoff", "ended"}
  /\ gateLink \in {"none", "good", "broken", "silent"}
  /\ gateBridge = "relay" <=> gateLink # "none"
  /\ commands \in 0 .. MaxCommands /\ dropped \subseteq 1 .. commands

WakeBridgeInit ==
  /\ gateClient \in {"open", "closed"} /\ commands = 0 /\ inbound = <<>> /\ outbound = <<>>
  /\ gateBridge = (IF gateClient = "open" THEN "dial" ELSE "ended")
  /\ gateLink = "none" /\ gateUp \in BOOLEAN
  /\ onWire = <<>> /\ carried = <<>> /\ dropped = {} /\ owed = FALSE /\ breaks = 0

-----------------------------------------------------------------------------
\* sendControl, dispose and the like; then the socket may be closed.
KioskSends ==
  /\ gateClient = "open" /\ commands < MaxCommands
  /\ commands' = commands + 1
  /\ inbound' = Append(inbound, commands')
  /\ UNCHANGED <<gateClient, outbound, gateBridge, gateLink, gateUp, deviceSide, breaks>>

KioskCloses ==
  /\ gateClient = "open" /\ gateClient' = "closed"
  /\ UNCHANGED <<commands, inbound, outbound, gateBridge, gateLink, gateUp, deviceSide, breaks>>

\* _pump_client: a command is queued, whatever state the device is in.
PumpQueues ==
  /\ gateBridge # "ended" /\ inbound # <<>>
  /\ outbound' = Append(outbound, Head(inbound)) /\ inbound' = Tail(inbound)
  /\ UNCHANGED <<gateClient, commands, gateBridge, gateLink, gateUp, deviceSide, breaks>>

\* The pump has read the end of the kiosk's socket: the bridge is cancelled,
\* and what is queued goes with it.  A bridge with a connection has written
\* by then, since the writer was woken before the pump ended.
PumpEnds ==
  /\ gateBridge # "ended" /\ gateClient = "closed" /\ inbound = <<>>
  /\ gateBridge = "relay" => outbound = <<>>
  /\ gateBridge' = "ended" /\ gateLink' = "none" /\ outbound' = <<>>
  /\ UNCHANGED <<gateClient, commands, inbound, gateUp, deviceSide, breaks>>

-----------------------------------------------------------------------------
\* "gate link down" to the kiosk.
GateTold == owed' = FALSE

\* _bridge_device: a connection, or a refusal that the kiosk is told of.
GateConnects ==
  /\ gateBridge = "dial" /\ gateUp
  /\ gateBridge' = "relay" /\ gateLink' = "good"
  /\ UNCHANGED <<gateClient, commands, inbound, outbound, gateUp, deviceSide, breaks>>

GateRefuses ==
  /\ gateBridge = "dial" /\ ~gateUp
  /\ gateBridge' = "backoff" /\ GateTold
  /\ UNCHANGED <<gateClient, commands, inbound, outbound, gateLink, gateUp, onWire, carried, dropped, breaks>>

GateDialsAgain ==
  /\ gateBridge = "backoff" /\ gateBridge' = "dial"
  /\ UNCHANGED <<gateClient, commands, inbound, outbound, gateLink, gateUp, deviceSide, breaks>>

\* What is written to a connection that is going is lost.
GateLoses(some) == dropped' = dropped \cup some /\ owed' = (owed \/ some # {})

\* _kiosk_to_device.
GateWrites ==
  /\ gateBridge = "relay" /\ outbound # <<>>
  /\ outbound' = Tail(outbound)
  /\ LET command == Head(outbound)
     IN IF gateLink = "good" THEN onWire' = Append(onWire, command) /\ UNCHANGED <<carried, dropped, owed>>
        ELSE GateLoses({command}) /\ UNCHANGED <<onWire, carried>>
  /\ UNCHANGED <<gateClient, commands, inbound, gateBridge, gateLink, gateUp, breaks>>

\* Mutant: the next connection starts with an empty queue.
LinkEndsClean ==
  /\ gateLink = "broken"
  /\ gateBridge' = "backoff" /\ gateLink' = "none" /\ outbound' = <<>> /\ GateTold
  /\ UNCHANGED <<gateClient, commands, inbound, gateUp, onWire, carried, dropped, breaks>>

\* _relay_one_connection ends with the connection; whatever is queued stays.
LinkEnds ==
  /\ gateLink = "broken"
  /\ gateBridge' = "backoff" /\ gateLink' = "none" /\ GateTold
  /\ UNCHANGED <<gateClient, commands, inbound, outbound, gateUp, onWire, carried, dropped, breaks>>

-----------------------------------------------------------------------------
\* The connection breaks, with or without a word, and takes with it what the
\* device has not read; the device stays or stops, and starts again.
DeviceReads ==
  /\ onWire # <<>>
  /\ carried' = Append(carried, Head(onWire)) /\ onWire' = Tail(onWire)
  /\ UNCHANGED <<gateClient, commands, inbound, outbound, gateBridge, gateLink, gateUp, dropped, owed, breaks>>

GateBreaks(how) ==
  /\ gateLink = "good" /\ breaks < MaxBreaks /\ breaks' = breaks + 1
  /\ gateLink' = how /\ gateUp' \in BOOLEAN
  /\ GateLoses(ToSet(onWire)) /\ onWire' = <<>>
  /\ UNCHANGED <<gateClient, commands, inbound, outbound, gateBridge, carried>>

DeviceStarts ==
  /\ ~gateUp /\ gateUp' = TRUE
  /\ UNCHANGED <<gateClient, commands, inbound, outbound, gateBridge, gateLink, deviceSide, breaks>>

\* TCP gives up on what is not acknowledged.
GateFoundDead ==
  /\ gateLink = "silent" /\ owed /\ gateLink' = "broken"
  /\ UNCHANGED <<gateClient, commands, inbound, outbound, gateBridge, gateUp, deviceSide, breaks>>

GatePump == PumpQueues \/ PumpEnds
GateTask == GateConnects \/ GateRefuses \/ GateDialsAgain \/ LinkEnds
WakeBridgeNext ==
  \/ KioskSends \/ KioskCloses \/ GatePump \/ GateTask \/ GateWrites
  \/ (\E how \in {"broken", "silent"} : GateBreaks(how)) \/ DeviceReads \/ DeviceStarts \/ GateFoundDead

-----------------------------------------------------------------------------
\* wake_invoke.py:24-26 and 67-68: while the kiosk's socket is open a command
\* is never lost but by being written to a connection that is going, also when
\* it was sent while there was none, and the device gets commands in order and
\* once; and by the time such a connection is given up the kiosk is told.
CommandsArrive ==
  /\ \A i, j \in DOMAIN carried : i < j => carried[i] < carried[j]
  /\ ToSet(carried) \cap dropped = {}
  /\ gateClient = "open" =>
       /\ 1 .. commands = ToSet(carried) \cup dropped \cup ToSet(onWire \o outbound \o inbound)
       /\ owed => gateLink \in {"broken", "silent"}
=============================================================================
