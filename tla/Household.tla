------------------------------ MODULE Household -----------------------------
(***************************************************************************)
(* The household's data and its surroundings in one specification: the     *)
(* shopping list and the notes (Boards), presence and its camera           *)
(* (Presence), signing in to the calendars (SignIn) and what the calendars *)
(* show (Calendars).  What they share is the privacy lock (Gates); a       *)
(* behaviour is of one of the parts, chosen at the start.                  *)
(***************************************************************************)
EXTENDS Boards, Presence, SignIn, Calendars

VARIABLE part  \* "list", "notes", "presence", "camera", "signin" or "calendars"

boardVars == <<listVars, noteVars>>
presenceVars == <<aggregatorVars, cameraVars>>
householdVars == <<part, locked, boardVars, presenceVars, signInVars, calendarVars>>

HouseholdInit ==
  /\ part \in {"list", "notes", "presence", "camera", "signin", "calendars"}
  /\ locked \in BOOLEAN /\ (part \in {"presence", "camera", "signin"} => ~locked)
  /\ BoardsInit /\ AggregatorInit /\ SignInInit /\ CalendarsInit
  /\ CameraInit /\ (part # "camera" => device = "live")

\* The lock moves while the boards, which kiosks go back to, are used; of the
\* calendars only one request asks for it, and of signing in those that a lock
\* at worst prevents.
Privacy ==
  /\ part \in {"list", "notes"} /\ ToggleLock
  /\ UNCHANGED <<part, boardVars, presenceVars, signInVars, calendarVars>>

List ==
  /\ part = "list" /\ ListNext
  /\ UNCHANGED <<part, locked, noteVars, presenceVars, signInVars, calendarVars>>

Notes ==
  /\ part = "notes" /\ NotesNext
  /\ UNCHANGED <<part, locked, listVars, presenceVars, signInVars, calendarVars>>

Aggregator ==
  /\ part = "presence" /\ AggregatorNext
  /\ UNCHANGED <<part, locked, boardVars, cameraVars, signInVars, calendarVars>>

OfCamera(A) ==
  /\ part = "camera" /\ A
  /\ UNCHANGED <<part, locked, boardVars, aggregatorVars, signInVars, calendarVars>>

SigningIn ==
  /\ part = "signin" /\ SignInNext
  /\ UNCHANGED <<part, locked, boardVars, presenceVars, calendarVars>>

Calendar ==
  /\ part = "calendars" /\ CalendarsNext
  /\ UNCHANGED <<part, locked, boardVars, presenceVars, signInVars>>

HouseholdNext ==
  \/ Privacy \/ List \/ Notes \/ Aggregator \/ OfCamera(CameraNext) \/ SigningIn \/ Calendar

\* Time passes for the camera; its two threads run.
CameraFairness ==
  /\ WF_householdVars(OfCamera(Tick))
  /\ WF_householdVars(OfCamera(Reader))
  /\ WF_householdVars(OfCamera(Watchdog))

HouseholdSpec == HouseholdInit /\ [][HouseholdNext]_householdVars /\ CameraFairness

-----------------------------------------------------------------------------
\* Every part's variables stay within their types.
HouseholdTypesOK == BoardsTypeOK /\ PresenceTypeOK /\ SignInTypeOK /\ CalendarsTypeOK

\* aggregator.py observe(): somebody who is there is not taken to have gone
\* before a zone reports the exit or nobody has been seen for the time-out,
\* however the signals of several threads fall in (unless one is applied
\* after a later one).
GoneWhenUnseen ==
  \E o \in Observers :
    observer[o].kind = "zone_exit" \/ observer[o].at - lastSeen >= Timeout

NobodyTakenForGone == [][state.present /\ ~state'.present /\ ~late' => GoneWhenUnseen]_presenceVars

\* local_camera.py _watchdog_run: a camera that reports "ok" but whose read()
\* hangs, or delivers the same frame for ever, is given up.
Hangs(c) == capture = c /\ status = "ok" /\ ~stopping /\ device \in {"frozen", "blocked"}

CameraRecovers == \A c \in 1 .. MaxCaptures : Hangs(c) ~> ~Hangs(c)

\* What the kitchen can rely on: neither somebody who is there is forgotten by
\* the aggregator nor a hanging camera by its watchdog.
PresenceHolds == NobodyTakenForGone /\ CameraRecovers
=============================================================================
