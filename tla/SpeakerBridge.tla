---------------------------- MODULE SpeakerBridge ---------------------------
(***************************************************************************)
(* The kiosk's sound on the way to a network speaker: the kiosk's socket   *)
(* with its decision to mute the screen (frontend voice/speakerOut.ts),    *)
(* the bridge that buffers and forwards the audio (voice/speaker.py), and  *)
(* the device, which is external.                                          *)
(*                                                                         *)
(* Sound comes in chunks, each known by the connection to the device at    *)
(* the time it was received.  Encoding, drift and the mixing of sources    *)
(* are left out, and so is the overlap of an old bridge with a new one,    *)
(* which share nothing.                                                    *)
(***************************************************************************)
EXTENDS Naturals, Sequences, SequencesExt

CONSTANTS BufferMax,  \* _MAX_BUFFER_BYTES, in chunks
          MaxTrouble, \* bound on what goes wrong
          MaxSheds,   \* bound on the times the buffer overflows
          MaxFrames   \* bound on the status frames on the way

ASSUME SpeakerAssumption == BufferMax \in Nat \ {0}

VARIABLES
  speaker,      \* SpeakerOut: its route, its socket, and what it was last told
  statuses,     \* status frames on the way to it
  stats,        \* stats: link, sheds, reconnects
  audioBuffer,  \* buffer
  haveAudio,    \* the event of that name
  shedding,     \* shed_signal, and whether _shed_reporter is at rest
  forwarder,    \* where _bridge_device is
  stream,       \* its connection: "none", "good", "ended" or "silent"
  speakerUp,    \* the device accepts connections
  connects,     \* how many it has had (history)
  trouble       \* what has gone wrong so far

speakerVars == <<speaker, statuses, stats, audioBuffer, haveAudio, shedding, forwarder,
                 stream, speakerUp, connects, trouble>>
bridgeVars == <<stats, audioBuffer, haveAudio, shedding, forwarder, stream, connects>>
deviceVars == <<speakerUp, trouble>>

NoStats == [link |-> "down", sheds |-> 0, reconnects |-> 0]
OnScreen == [route |-> "screen", socket |-> "none", healthy |-> FALSE, sheds |-> 0, reconnects |-> 0]
StillReporter == [signal |-> FALSE, resting |-> FALSE]

\* routed(): the screen is mute because the device is heard.
Muted == speaker.socket = "open" /\ speaker.healthy

SpeakerTypeOK ==
  /\ speaker.route \in {"screen", "invoke"}
  /\ speaker.socket \in {"none", "retry", "opening", "open"}
  /\ (speaker.socket # "none" <=> speaker.route = "invoke")
  /\ forwarder \in {"ended", "dial", "prime", "wait", "drain", "close", "backoff"}
  /\ (forwarder # "ended" <=> speaker.socket = "open")
  /\ stream \in {"none", "good", "ended", "silent"}
  /\ (stats.link = "up" <=> stream # "none")
  /\ Len(audioBuffer) <= BufferMax

SpeakerInit ==
  /\ speaker = OnScreen /\ statuses = <<>>
  /\ stats = NoStats /\ audioBuffer = <<>> /\ haveAudio = FALSE /\ shedding = StillReporter
  /\ forwarder = "ended" /\ stream = "none" /\ connects = 0
  /\ speakerUp \in BOOLEAN /\ trouble = 0

-----------------------------------------------------------------------------
\* A bridge begins with the kiosk's socket, and ends with it.
BridgeBegins ==
  /\ statuses' = <<NoStats>> /\ stats' = NoStats
  /\ audioBuffer' = <<>> /\ haveAudio' = FALSE /\ shedding' = StillReporter
  /\ forwarder' = "dial" /\ stream' = "none" /\ connects' = 0

BridgeEnds ==
  /\ statuses' = <<>> /\ stats' = NoStats
  /\ audioBuffer' = <<>> /\ haveAudio' = FALSE /\ shedding' = StillReporter
  /\ forwarder' = "ended" /\ stream' = "none" /\ connects' = 0

\* setRoute.
RouteTo(selection) ==
  /\ selection # speaker.route
  /\ speaker' = [OnScreen EXCEPT !.route = selection,
                   !.socket = IF selection = "invoke" THEN "opening" ELSE "none"]
  /\ BridgeEnds
  /\ UNCHANGED deviceVars

\* connect: onopen, and scheduleReconnect's timer.
SocketOpens ==
  /\ speaker.socket = "opening"
  /\ speaker' = [speaker EXCEPT !.socket = "open", !.sheds = 0, !.reconnects = 0]
  /\ BridgeBegins
  /\ UNCHANGED deviceVars

Reconnects ==
  /\ speaker.socket = "retry"
  /\ speaker' = [speaker EXCEPT !.socket = "opening"]
  /\ UNCHANGED <<statuses, bridgeVars, deviceVars>>

\* onGone.
SocketGone ==
  /\ speaker.socket \in {"opening", "open"}
  /\ trouble < MaxTrouble /\ trouble' = trouble + 1
  /\ speaker' = [speaker EXCEPT !.socket = "retry", !.healthy = FALSE]
  /\ BridgeEnds
  /\ UNCHANGED speakerUp

\* Nothing was shed, and the link did not drop, since the last frame.
Healthy(frame) ==
  frame.link = "up" /\ frame.sheds <= speaker.sheds /\ frame.reconnects <= speaker.reconnects

\* onmessage.
StatusShown ==
  /\ statuses # <<>> /\ statuses' = Tail(statuses)
  /\ LET frame == Head(statuses)
     IN speaker' = [speaker EXCEPT !.healthy = Healthy(frame), !.sheds = frame.sheds,
                                   !.reconnects = frame.reconnects]
  /\ UNCHANGED <<bridgeVars, deviceVars>>

-----------------------------------------------------------------------------
SendStatus == statuses' = Append(statuses, stats')

\* _pump_client: the oldest audio goes when there is too much of it.
Sound ==
  /\ forwarder # "ended"
  /\ LET all == Append(audioBuffer, connects)
         over == Len(all) > BufferMax
     IN /\ over => stats.sheds < MaxSheds
        /\ audioBuffer' = IF over THEN SubSeq(all, Len(all) - BufferMax \div 2 + 1, Len(all)) ELSE all
        /\ stats' = IF over THEN [stats EXCEPT !.sheds = @ + 1] ELSE stats
        /\ shedding' = [shedding EXCEPT !.signal = @ \/ over]
  /\ haveAudio' = TRUE
  /\ UNCHANGED <<speaker, statuses, forwarder, stream, connects, deviceVars>>

DropsOldAudio == audioBuffer' = <<>> /\ haveAudio' = FALSE

\* _bridge_device: a new connection starts clean, and with silence ...
SpeakerConnects ==
  /\ forwarder = "dial" /\ speakerUp
  /\ stats' = [stats EXCEPT !.link = "up"]
  /\ forwarder' = "prime" /\ stream' = "good" /\ connects' = connects + 1
  /\ DropsOldAudio
  /\ UNCHANGED <<speaker, statuses, shedding, deviceVars>>

\* ... or is refused, and tried again.
SpeakerRefuses ==
  /\ forwarder = "dial" /\ ~speakerUp /\ Len(statuses) < MaxFrames
  /\ stats' = stats /\ SendStatus
  /\ forwarder' = "backoff"
  /\ UNCHANGED <<speaker, audioBuffer, haveAudio, shedding, stream, connects, deviceVars>>

SpeakerDialsAgain ==
  /\ forwarder = "backoff" /\ forwarder' = "dial"
  /\ UNCHANGED <<speaker, statuses, stats, audioBuffer, haveAudio, shedding, stream, connects, deviceVars>>

\* _drain_or_raise: what was written is on its way, or the connection has
\* failed, or has taken nothing for _SEND_STALL_S.  A connection that is gone
\* may still take it.
SendFails == stream # "good" /\ forwarder' = "close"

Primed ==
  /\ forwarder = "prime"
  /\ \/ stats' = stats /\ SendStatus /\ forwarder' = "wait"
     \/ SendFails /\ UNCHANGED <<stats, statuses>>
  /\ UNCHANGED <<speaker, audioBuffer, haveAudio, shedding, stream, connects, deviceVars>>

\* _drain_to_device: the daemon's end of the connection is looked at only
\* after audio was written.
Forwards ==
  /\ forwarder = "wait" /\ haveAudio
  /\ audioBuffer' = <<>> /\ haveAudio' = FALSE
  /\ forwarder' = "drain"
  /\ UNCHANGED <<speaker, statuses, stats, shedding, stream, connects, deviceVars>>

Forwarded ==
  /\ forwarder = "drain"
  /\ (stream # "ended" /\ forwarder' = "wait") \/ SendFails
  /\ UNCHANGED <<speaker, statuses, stats, audioBuffer, haveAudio, shedding, stream, connects, deviceVars>>

\* wait_closed: the connection is closed once what was written is gone, or
\* TCP has given up on it.
SpeakerDrops ==
  /\ forwarder = "close" /\ stream = "ended"
  /\ stats' = [stats EXCEPT !.link = "down", !.reconnects = @ + 1] /\ SendStatus
  /\ forwarder' = "backoff" /\ stream' = "none"
  /\ UNCHANGED <<speaker, audioBuffer, haveAudio, shedding, connects, deviceVars>>

\* _status_ticker, here only when the kiosk has read all.
Ticks ==
  /\ forwarder # "ended" /\ statuses = <<>>
  /\ stats' = stats /\ SendStatus
  /\ UNCHANGED <<speaker, audioBuffer, haveAudio, shedding, forwarder, stream, connects, deviceVars>>

\* _shed_reporter, which rests for a second after each report.
ReportsShed ==
  /\ shedding.signal /\ ~shedding.resting
  /\ shedding' = [signal |-> FALSE, resting |-> TRUE]
  /\ stats' = stats /\ SendStatus
  /\ UNCHANGED <<speaker, audioBuffer, haveAudio, forwarder, stream, connects, deviceVars>>

\* Mutant: the reporter clears the signal after its rest.
RestedClearing ==
  /\ shedding.resting /\ shedding' = StillReporter
  /\ UNCHANGED <<speaker, statuses, stats, audioBuffer, haveAudio, forwarder, stream, connects, deviceVars>>

Rested ==
  /\ shedding.resting /\ shedding' = [shedding EXCEPT !.resting = FALSE]
  /\ UNCHANGED <<speaker, statuses, stats, audioBuffer, haveAudio, forwarder, stream, connects, deviceVars>>

-----------------------------------------------------------------------------
\* The device goes, with or without a word, and comes back; keepalive probes
\* find a connection dead that has gone silent.
DeviceGoes(how) ==
  /\ stream = "good" /\ stream' = how
  /\ trouble < MaxTrouble /\ trouble' = trouble + 1
  /\ speakerUp' \in BOOLEAN
  /\ UNCHANGED <<speaker, statuses, stats, audioBuffer, haveAudio, shedding, forwarder, connects>>

DeviceBack ==
  /\ ~speakerUp /\ speakerUp' = TRUE
  /\ UNCHANGED <<speaker, statuses, bridgeVars, trouble>>

Probed ==
  /\ stream = "silent" /\ stream' = "ended"
  /\ UNCHANGED <<speaker, statuses, stats, audioBuffer, haveAudio, shedding, forwarder, connects, deviceVars>>

Forwarder == SpeakerConnects \/ SpeakerRefuses \/ SpeakerDialsAgain \/ Primed \/ Forwards \/ Forwarded \/ SpeakerDrops
SpeakerNext ==
  \/ (\E selection \in {"screen", "invoke"} : RouteTo(selection))
  \/ SocketOpens \/ Reconnects \/ SocketGone \/ StatusShown
  \/ Sound \/ Forwarder \/ Ticks \/ ReportsShed \/ Rested
  \/ (\E how \in {"ended", "silent"} : DeviceGoes(how)) \/ DeviceBack \/ Probed

-----------------------------------------------------------------------------
\* speaker.py:310, 324-326, 348-352 and speakerOut.ts:111-117: what is played
\* belongs to its connection; and the screen does not stay mute when the bridge
\* knows that the device is not heard: that the link went down, or that audio
\* was shed, is on its way to the kiosk, or will be when the reporter has rested.
SpeakerIsHeard ==
  /\ stats.link = "up" => \A k \in DOMAIN audioBuffer : audioBuffer[k] = connects
  /\ Muted /\ stats.link = "down" => \E k \in DOMAIN statuses : statuses[k].link = "down"
  /\ Muted /\ stats.sheds > speaker.sheds =>
       shedding.signal \/ \E k \in DOMAIN statuses : statuses[k].sheds = stats.sheds
=============================================================================
