------------------------------ MODULE Presence ------------------------------
(***************************************************************************)
(* Who is in front of the kiosk: the aggregator (presence/aggregator.py),  *)
(* observed from the camera's thread and from request threads, and the     *)
(* camera itself (presence/sources/local_camera.py): the reading thread,   *)
(* its reopening after a disconnect, and the watchdog that releases a      *)
(* capture which still says it works but delivers the same frame for ever. *)
(*                                                                         *)
(* One tick stands for the watchdog's poll; Stale ticks for its time-out   *)
(* and for the retry delay at most.  What the countdown for the display    *)
(* makes of on_signal is Display's subject.                                *)
(***************************************************************************)
EXTENDS Integers, FiniteSets

CONSTANTS Observers, \* threads that observe: "camera", "touch", ...
          Stale,     \* _STALE_FRAME_TIMEOUT_SECONDS
          Timeout,   \* presence_inactivity_timeout_seconds
          MaxNow,    \* bound on the moments signals are stamped with
          MaxCaptures \* bound on the captures opened

ASSUME PresenceAssumption ==
  Stale \in Nat \ {0} /\ Timeout \in Nat \ {0} /\ MaxNow \in Nat \ {0} /\ MaxCaptures \in Nat

VARIABLES
  now,         \* the wall clock
  state,       \* _states of the kiosk scope
  absentSince, \* _absent_since, 0 or a moment
  observer,    \* each observing thread: idle, or the signal it has made
  lastSeen,    \* the latest sign of somebody that was applied (history)
  late,        \* a signal was applied after one with a later stamp (history)
  status,      \* status, what GET /api/presence shows
  reader,      \* where _run is: "open", "read", "backoff" or "ended"
  capture,     \* the capture _run has, NoCapture or its number
  mirror,      \* _capture, the one the watchdog may release
  opened,      \* the number of captures opened so far
  released,    \* captures that somebody has released
  device,      \* what the webcam does: "live", "frozen", "blocked" or "gone"
  age,         \* ticks since a frame changed (_last_live_frame_at)
  watchdog,    \* "off", "polling", "decided" or "releasing"
  grabbed,     \* the capture it releases
  stopping     \* _stop

aggregatorVars == <<now, state, absentSince, observer, lastSeen, late>>
cameraVars == <<status, reader, capture, mirror, opened, released, device, age, watchdog, grabbed, stopping>>

NoCapture == 0
NoSignal == [kind |-> "none", at |-> 0]
Kinds == {"activity", "present", "absent", "zone_entry", "zone_exit", "motion"}
Here(kind) == kind \in {"activity", "present", "zone_entry"}

AggregatorInit ==
  /\ now = 1
  /\ state = [present |-> FALSE, lastSignal |-> 0, lastActivity |-> 0]
  /\ absentSince = 0
  /\ observer = [o \in Observers |-> NoSignal]
  /\ lastSeen = 0 /\ late = FALSE

CameraInit ==
  /\ status = "disabled" /\ reader = "ended" /\ stopping = FALSE
  /\ capture = NoCapture /\ mirror = NoCapture /\ opened = 0 /\ released = {}
  /\ device \in {"live", "gone"} /\ age = 0 /\ watchdog = "off" /\ grabbed = NoCapture

-----------------------------------------------------------------------------
\* A source stamps a signal before it takes the aggregator's lock.
Stamp(o, kind) ==
  /\ observer[o] = NoSignal
  /\ observer' = [observer EXCEPT ![o] = [kind |-> kind, at |-> now]]
  /\ UNCHANGED <<now, state, absentSince, lastSeen, late>>

\* Since when the scope has been absent; only a sign of somebody clears it.
\* Mutant: nothing does.
AbsenceKept(kind, at) == IF kind = "absent" /\ absentSince = 0 THEN at ELSE absentSince

Absence(kind, at) ==
  IF Here(kind) THEN 0
  ELSE IF kind = "absent" /\ absentSince = 0 THEN at ELSE absentSince

\* observe(), under its lock.
Observe(o) ==
  LET signal == observer[o]
      since == Absence(signal.kind, signal.at)
      gone == \/ signal.kind = "zone_exit"
              \/ signal.kind = "absent" /\ signal.at - since >= Timeout
  IN /\ signal # NoSignal
     /\ observer' = [observer EXCEPT ![o] = NoSignal]
     /\ absentSince' = since
     /\ state' = [present |-> Here(signal.kind) \/ (state.present /\ ~gone),
                  lastSignal |-> signal.at,
                  lastActivity |-> IF signal.kind = "activity" THEN signal.at ELSE state.lastActivity]
     /\ lastSeen' = IF Here(signal.kind) THEN signal.at ELSE lastSeen
     /\ late' = (late \/ signal.at < state.lastSignal)
     /\ UNCHANGED now

Later ==
  /\ now < MaxNow /\ now' = now + 1
  /\ UNCHANGED <<state, absentSince, observer, lastSeen, late>>

AggregatorNext ==
  \/ \E o \in Observers : Observe(o) \/ \E kind \in Kinds : Stamp(o, kind)
  \/ Later

-----------------------------------------------------------------------------
\* start_local_camera: the status is "absent" until the device has opened.
Start ==
  /\ status = "disabled" /\ ~stopping
  /\ status' = "absent" /\ reader' = "open" /\ watchdog' = "polling" /\ age' = 0
  /\ UNCHANGED <<capture, mirror, opened, released, device, stopping, grabbed>>

\* stop() asks both threads to end and waits for them, but not for ever: a
\* read() that is blocked is left behind.
Stop ==
  /\ status # "disabled" /\ ~stopping
  /\ stopping' = TRUE
  /\ UNCHANGED <<status, reader, capture, mirror, opened, released, device, age, watchdog, grabbed>>

Stopped ==
  /\ stopping /\ status # "disabled"
  /\ (reader = "ended" /\ watchdog = "off") \/ device = "blocked"
  /\ mirror' = NoCapture /\ status' = "disabled"
  /\ UNCHANGED <<reader, capture, opened, released, device, age, watchdog, stopping, grabbed>>

\* _open_capture succeeded: the capture is mirrored for the watchdog.
Opens ==
  /\ reader = "open" /\ ~stopping /\ device # "gone" /\ opened < MaxCaptures
  /\ opened' = opened + 1
  /\ capture' = opened + 1 /\ mirror' = opened + 1
  /\ age' = 0 /\ status' = "ok" /\ reader' = "read"
  /\ UNCHANGED <<released, device, watchdog, stopping, grabbed>>

\* A camera that was there is "disconnected", never "absent".
OpenFails ==
  /\ reader = "open" /\ ~stopping /\ device = "gone"
  /\ status' = IF opened > 0 THEN "disconnected" ELSE "absent"
  /\ reader' = "backoff"
  /\ UNCHANGED <<capture, mirror, opened, released, device, age, watchdog, stopping, grabbed>>

BackoffEnds ==
  /\ reader = "backoff" /\ reader' = "open"
  /\ UNCHANGED <<status, capture, mirror, opened, released, device, age, watchdog, stopping, grabbed>>

\* frame_changed: only a frame that differs from the last is a sign of life.
\* Mutant: every frame is.
FrameDelivered == device \in {"live", "frozen"}

FrameChanged == device = "live"

ReadFrame ==
  /\ reader = "read" /\ ~stopping
  /\ capture \notin released /\ device \in {"live", "frozen"}
  /\ age' = IF FrameChanged THEN 0 ELSE age
  /\ UNCHANGED <<status, reader, capture, mirror, opened, released, device, watchdog, stopping, grabbed>>

\* read() returns False: the device has gone, or the watchdog has released
\* the capture, which also ends a read() that is blocked.
ReadFails ==
  /\ reader = "read" /\ (capture \in released \/ device = "gone")
  /\ status' = "disconnected" /\ mirror' = NoCapture
  /\ released' = released \cup {capture} /\ capture' = NoCapture
  /\ reader' = "open"
  /\ UNCHANGED <<opened, device, age, watchdog, stopping, grabbed>>

\* The loop ends when it is asked to, or in "error" when OpenCV raises.
ReaderEnds ==
  /\ reader \in {"open", "read", "backoff"}
  /\ \/ /\ stopping /\ (reader = "read" => device # "blocked" \/ capture \in released)
        /\ UNCHANGED status
     \/ reader = "read" /\ ~stopping /\ status' = "error"
  /\ reader' = "ended" /\ mirror' = NoCapture /\ capture' = NoCapture
  /\ released' = IF capture = NoCapture THEN released ELSE released \cup {capture}
  /\ UNCHANGED <<opened, device, age, watchdog, stopping, grabbed>>

\* _watchdog_run: decides by status and age, then takes whatever capture is
\* mirrored, which may be a newer one, and releases it.
WatchdogDecides ==
  /\ watchdog = "polling" /\ ~stopping
  /\ status = "ok" /\ age >= Stale
  /\ watchdog' = "decided"
  /\ UNCHANGED <<status, reader, capture, mirror, opened, released, device, age, stopping, grabbed>>

WatchdogTakes ==
  /\ watchdog = "decided"
  /\ watchdog' = IF mirror = NoCapture THEN "polling" ELSE "releasing"
  /\ grabbed' = mirror /\ mirror' = NoCapture
  /\ UNCHANGED <<status, reader, capture, opened, released, device, age, stopping>>

WatchdogReleases ==
  /\ watchdog = "releasing"
  /\ released' = released \cup {grabbed}
  /\ watchdog' = "polling" /\ grabbed' = NoCapture /\ age' = 0
  /\ UNCHANGED <<status, reader, capture, mirror, opened, device, stopping>>

WatchdogEnds ==
  /\ watchdog = "polling" /\ stopping /\ watchdog' = "off"
  /\ UNCHANGED <<status, reader, capture, mirror, opened, released, device, age, stopping, grabbed>>

\* Time without a new frame, counted up to the time-out.
Tick ==
  /\ age < Stale /\ age' = age + 1
  /\ UNCHANGED <<status, reader, capture, mirror, opened, released, device, watchdog, stopping, grabbed>>

DeviceChanges ==
  /\ device' \in {"live", "frozen", "blocked", "gone"} \ {device}
  /\ UNCHANGED <<status, reader, capture, mirror, opened, released, age, watchdog, stopping, grabbed>>

Reader == Opens \/ OpenFails \/ BackoffEnds \/ ReadFrame \/ ReadFails \/ (stopping /\ ReaderEnds)
Watchdog == WatchdogDecides \/ WatchdogTakes \/ WatchdogReleases \/ WatchdogEnds

CameraNext == Start \/ Stop \/ Stopped \/ Reader \/ ReaderEnds \/ Watchdog \/ Tick \/ DeviceChanges

-----------------------------------------------------------------------------
PresenceTypeOK ==
  /\ state \in [present : BOOLEAN, lastSignal : 0 .. MaxNow, lastActivity : 0 .. MaxNow]
  /\ absentSince \in 0 .. now
  /\ status \in {"ok", "absent", "disconnected", "error", "disabled"}
  /\ reader \in {"open", "read", "backoff", "ended"}
  /\ capture \in 0 .. opened /\ released \subseteq 1 .. opened
  /\ reader = "read" <=> capture # NoCapture
  \* A capture that may hang is within the watchdog's reach.
  /\ status = "ok" /\ capture \notin released => capture \in {mirror, grabbed}
=============================================================================
