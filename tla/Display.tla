------------------------------- MODULE Display -------------------------------
(***************************************************************************)
(* The wall panel's brightness: DisplayStore (display.py), the presence    *)
(* policy that dims an idle panel and restores it on a signal              *)
(* (presence/display_policy.py), PUT /api/display (api.py) and the         *)
(* lifespan's shutdown (main.py).                                          *)
(*                                                                         *)
(* Everything runs on one event loop except the effector: _apply hands     *)
(* set_level to a worker thread and awaits it.  A "call" is a coroutine    *)
(* from its first await on; between two awaits it runs alone.  Cancelling  *)
(* a coroutine does not stop its worker thread: the level it was asked for *)
(* becomes an orphan that still reaches the panel.  Time is abstract: the  *)
(* idle timeout of a sleeping countdown may be over at any moment.         *)
(*                                                                         *)
(* Bounds: the Slots for concurrent calls, MaxFailures effector errors,    *)
(* MaxRestores restore tasks that have not started.                        *)
(***************************************************************************)
EXTENDS Integers, FiniteSets

CONSTANTS
  Slots, Nothing,
  Levels,           \* brightness a PUT may ask for
  DefaultBrightness, NightPct, DimTarget, BrightTarget,
  MaxFailures, MaxRestores

ASSUME DisplayAssumption ==
  /\ DefaultBrightness \in 0 .. 100 /\ NightPct \in 1 .. 100
  /\ DimTarget \in 0 .. 100 /\ BrightTarget \in 0 .. 100
  /\ Levels \subseteq 0 .. 100
  /\ Nothing \notin Slots /\ Nothing \notin 0 .. 100 /\ Nothing \notin BOOLEAN
  /\ MaxFailures \in Nat /\ MaxRestores \in Nat

VARIABLES
  brightness, reference, nightMode,  \* DisplayStore's idea of the panel
  available,                         \* the probe found an effector
  panel,                             \* what the panel really shows
  calls,                             \* the coroutines past their first await
  orphans,                           \* set_level threads whose call was cancelled
  dimmed, countdown,                 \* PresenceDisplayPolicy
  restores,                          \* _restore tasks not started yet
  phase,                             \* of the lifespan
  locked,                            \* PrivacyStore.locked
  failures, doubt                    \* history: effector errors; see Doubtful

store  == <<brightness, reference, nightMode, available>>
policy == <<dimmed, countdown, restores>>
vars   == <<store, panel, calls, orphans, policy, phase, locked, failures, doubt>>

Level == 0 .. 100

\* Mutant: night mode raises the level by the percentage.
NightRaised(level) == (level * (100 + NightPct)) \div 100

\* max(1, round(reference * pct / 100)), ties to even.
NightOf(level) ==
  LET q == (level * NightPct) \div 100
      r == (level * NightPct) % 100
      n == IF 2 * r < 100 \/ (2 * r = 100 /\ q % 2 = 0) THEN q ELSE q + 1
  IN  IF n < 1 THEN 1 ELSE n

Call == [of : {"put", "dim", "restore", "shutdown"}, at : {"apply", "emit"},
         level : Level, thread : {"running", "ok", "failed"},
         todo : Level \cup {Nothing}]

ASSUME NothingAssumption == Nothing \notin Call

TypeOK ==
  /\ brightness \in Level /\ reference \in Level /\ panel \in Level
  /\ nightMode \in BOOLEAN /\ available \in BOOLEAN
  /\ calls \in [Slots -> Call \cup {Nothing}]
  /\ orphans \subseteq Level
  /\ dimmed \in BOOLEAN /\ countdown \in {"sleeping", "dimming", "over", "stopped"}
  /\ restores \in 0 .. MaxRestores
  /\ phase \in {"serving", "restoring", "exiting"}
  /\ locked \in BOOLEAN
  /\ failures \in 0 .. MaxFailures /\ doubt \in BOOLEAN

\* After startup: the probe adopted the panel's level, or found no effector;
\* the policy's countdown has begun.
Init ==
  /\ available \in BOOLEAN
  /\ panel = DefaultBrightness
  /\ brightness = DefaultBrightness /\ reference = DefaultBrightness
  /\ nightMode = FALSE
  /\ calls = [s \in Slots |-> Nothing] /\ orphans = {}
  /\ dimmed = FALSE /\ countdown = "sleeping" /\ restores = 0
  /\ phase = "serving" /\ locked \in BOOLEAN
  /\ failures = 0 /\ doubt = FALSE

-----------------------------------------------------------------------------
Applying(s) == calls[s] # Nothing /\ calls[s].at = "apply"

Moving == orphans # {} \/ \E s \in Slots : Applying(s)

\* _apply up to its await, then the caller's broadcast.  Without an effector
\* there is nothing to await and the requested level is the truth.
Apply(s, of, level, todo) ==
  IF available
  THEN /\ calls' = [calls EXCEPT ![s] = [of |-> of, at |-> "apply", level |-> level,
                                         thread |-> "running", todo |-> todo]]
       /\ UNCHANGED brightness
  ELSE /\ calls' = [calls EXCEPT ![s] = [of |-> of, at |-> "emit", level |-> level,
                                         thread |-> "ok", todo |-> todo]]
       /\ brightness' = level

\* set_night_mode where it changes anything.
SetNightMode(s, on, todo) ==
  /\ on # nightMode
  /\ nightMode' = on
  /\ reference' = IF on THEN brightness ELSE reference
  /\ Apply(s, "put", IF on THEN NightOf(brightness) ELSE reference, todo)
  /\ UNCHANGED available

\* set_brightness: leaves night mode, and broadcasts if anything changed.
SetBrightness(s, level) ==
  /\ nightMode' = FALSE
  /\ UNCHANGED <<reference, available>>
  /\ \/ level # brightness /\ Apply(s, "put", level, Nothing)
     \/ /\ level = brightness
        /\ calls' = [calls EXCEPT ![s] =
                       IF nightMode
                       THEN [of |-> "put", at |-> "emit", level |-> level,
                             thread |-> "ok", todo |-> Nothing]
                       ELSE Nothing]
        /\ UNCHANGED brightness

\* set_ambient_brightness: night mode and its reference stay.
SetAmbient(s, of, level) ==
  /\ level # brightness
  /\ Apply(s, of, level, Nothing)
  /\ UNCHANGED <<reference, nightMode, available>>

\* PUT /api/display with a night mode, a level, or both in that order.  The
\* privacy gate is passed once, before the first of them.
PutDisplay(s, night, level) ==
  /\ phase = "serving" /\ ~locked
  /\ calls[s] = Nothing
  /\ \/ night \in BOOLEAN /\ SetNightMode(s, night, level)
     \/ night \in {nightMode, Nothing} /\ level # Nothing /\ SetBrightness(s, level)
  /\ doubt' = (doubt \/ Moving)
  /\ UNCHANGED <<panel, orphans, policy, phase, locked, failures>>

-----------------------------------------------------------------------------
\* The worker thread of a call: set_level moves the panel, or reports an error
\* (a PowerShell time-out may do so after the panel has moved).
Effector(s) ==
  /\ Applying(s) /\ calls[s].thread = "running"
  /\ \/ /\ calls' = [calls EXCEPT ![s].thread = "ok"]
        /\ panel' = calls[s].level
        /\ UNCHANGED <<failures, doubt>>
     \/ /\ failures < MaxFailures
        /\ failures' = failures + 1
        /\ calls' = [calls EXCEPT ![s].thread = "failed"]
        /\ panel' \in {panel, calls[s].level}
        /\ doubt' = (doubt \/ panel' # panel)
  /\ UNCHANGED <<store, orphans, policy, phase, locked>>

\* The worker thread of a call that was cancelled; nobody hears of its error.
OrphanEffector(level) ==
  /\ level \in orphans
  /\ orphans' = orphans \ {level}
  /\ \/ panel' = level /\ UNCHANGED failures
     \/ /\ failures < MaxFailures /\ failures' = failures + 1
        /\ panel' \in {panel, level}
  /\ UNCHANGED <<store, calls, policy, phase, locked, doubt>>

Finish(s) == calls' = [calls EXCEPT ![s] = Nothing]

\* Cancelling the countdown: asleep, it is gone; inside _apply, the coroutine
\* ends there and its thread goes on.
CancelCountdown ==
  LET mine == {s \in Slots : calls[s] # Nothing /\ calls[s].of = "dim"}
  IN  /\ calls' = [s \in Slots |-> IF s \in mine THEN Nothing ELSE calls[s]]
      /\ orphans' = orphans \cup
                      {calls[s].level : s \in {t \in mine : /\ Applying(t)
                                                            /\ calls[t].thread = "running"}}
      /\ doubt' = (doubt \/ \E s \in mine : Applying(s))

\* Mutant: a level that was only attempted is taken for the panel's.
AfterAttempt(s) ==
  /\ Applying(s) /\ calls[s].thread # "running"
  /\ calls[s].of # "shutdown"
  /\ brightness' = calls[s].level
  /\ calls' = [calls EXCEPT ![s].at = "emit"]
  /\ UNCHANGED <<reference, nightMode, available, panel, orphans, policy, phase,
                 locked, failures, doubt>>

\* The thread is done and the call resumes: a level that was applied becomes
\* the store's brightness, an error leaves it alone; then the broadcast.
AfterApply(s) ==
  /\ Applying(s) /\ calls[s].thread # "running"
  /\ calls[s].of # "shutdown"
  /\ brightness' = IF calls[s].thread = "ok" THEN calls[s].level ELSE brightness
  /\ calls' = [calls EXCEPT ![s].at = "emit"]
  /\ UNCHANGED <<reference, nightMode, available, panel, orphans, policy, phase,
                 locked, failures, doubt>>

\* The broadcast is done: the call ends, or goes on to the second half of a PUT.
AfterEmit(s) ==
  /\ calls[s] # Nothing /\ calls[s].at = "emit"
  /\ IF calls[s].todo # Nothing
     THEN SetBrightness(s, calls[s].todo) /\ doubt' = (doubt \/ Moving)
     ELSE Finish(s) /\ UNCHANGED <<store, doubt>>
  /\ countdown' = IF calls[s].of = "dim" THEN "over" ELSE countdown
  /\ UNCHANGED <<panel, orphans, dimmed, restores, phase, locked, failures>>

-----------------------------------------------------------------------------
\* _sleep_then_dim past its sleep.
IdleDim(s) ==
  /\ countdown = "sleeping" /\ calls[s] = Nothing
  /\ dimmed' = TRUE
  /\ \/ SetAmbient(s, "dim", DimTarget) /\ countdown' = "dimming"
     \/ DimTarget = brightness /\ countdown' = "over" /\ UNCHANGED <<store, calls>>
  /\ doubt' = (doubt \/ Moving)
  /\ UNCHANGED <<panel, orphans, restores, phase, locked, failures>>

\* Mutant: a signal that finds the panel dimmed restores it, and only that.
SignalRestoresOnly ==
  /\ phase # "exiting" /\ dimmed
  /\ dimmed' = FALSE
  /\ restores < MaxRestores /\ restores' = restores + 1
  /\ UNCHANGED <<store, panel, calls, orphans, countdown, phase, locked, failures, doubt>>

\* _handle_signal: a fresh countdown, and a restore task if the panel was dimmed.
Signal ==
  /\ phase # "exiting"
  /\ CancelCountdown
  /\ countdown' = "sleeping"
  /\ dimmed' = FALSE
  /\ restores + (IF dimmed THEN 1 ELSE 0) <= MaxRestores
  /\ restores' = restores + (IF dimmed THEN 1 ELSE 0)
  /\ UNCHANGED <<store, panel, phase, locked, failures>>

\* _restore: back to the night level while night mode is on, else to bright.
Restore(s) ==
  LET target == IF nightMode THEN NightOf(reference) ELSE BrightTarget
  IN  /\ restores > 0 /\ calls[s] = Nothing
      /\ restores' = restores - 1
      /\ \/ SetAmbient(s, "restore", target)
         \/ target = brightness /\ UNCHANGED <<store, calls>>
      /\ doubt' = (doubt \/ Moving)
      /\ UNCHANGED <<panel, orphans, dimmed, countdown, phase, locked, failures>>

-----------------------------------------------------------------------------
\* Mutant: the panel is handed back as it is.
ShutdownUnrestored(s) ==
  /\ phase = "serving" /\ calls[s] = Nothing
  /\ \A t \in Slots : calls[t] # Nothing => calls[t].of # "put"
  /\ nightMode' = FALSE
  /\ CancelCountdown /\ countdown' = "stopped"
  /\ phase' = "exiting"
  /\ UNCHANGED <<brightness, reference, available, panel, restores, dimmed, locked, failures>>

\* The server has drained its requests; the lifespan starts restore_full.
Shutdown(s) ==
  /\ phase = "serving" /\ calls[s] = Nothing
  /\ \A t \in Slots : calls[t] # Nothing => calls[t].of # "put"
  /\ nightMode' = FALSE
  /\ UNCHANGED <<reference, available, panel, restores, dimmed, locked, failures>>
  /\ IF brightness # reference
     THEN /\ Apply(s, "shutdown", reference, Nothing)
          /\ phase' = "restoring"
          /\ doubt' = (doubt \/ Moving)
          /\ UNCHANGED <<orphans, countdown>>
     ELSE /\ CancelCountdown /\ countdown' = "stopped"
          /\ phase' = "exiting"
          /\ UNCHANGED brightness

\* restore_full returns; without another await the policy is stopped.
AfterRestoreFull(s) ==
  /\ calls[s] # Nothing /\ calls[s].of = "shutdown" /\ calls[s].thread # "running"
  /\ brightness' = IF calls[s].thread = "ok" THEN calls[s].level ELSE brightness
  /\ LET rest == {t \in Slots \ {s} : calls[t] # Nothing /\ calls[t].of # "dim"}
         dims == {t \in Slots : calls[t] # Nothing /\ calls[t].of = "dim"}
     IN  /\ calls' = [t \in Slots |-> IF t \in rest THEN calls[t] ELSE Nothing]
         /\ orphans' = orphans \cup
                         {calls[t].level : t \in {d \in dims : /\ Applying(d)
                                                               /\ calls[d].thread = "running"}}
         /\ doubt' = (doubt \/ \E d \in dims : Applying(d))
  /\ countdown' = "stopped"
  /\ phase' = "exiting"
  /\ UNCHANGED <<reference, nightMode, available, panel, dimmed, restores, locked, failures>>

FlipLock ==
  /\ phase = "serving"
  /\ locked' = ~locked
  /\ UNCHANGED <<store, panel, calls, orphans, policy, phase, failures, doubt>>

-----------------------------------------------------------------------------
Requests == \E s \in Slots, night \in BOOLEAN \cup {Nothing}, level \in Levels \cup {Nothing} :
              PutDisplay(s, night, level)

Threads == \/ \E s \in Slots : Effector(s)
           \/ \E level \in orphans : OrphanEffector(level)

Coroutines == \E s \in Slots : \/ AfterApply(s) \/ AfterEmit(s) \/ AfterRestoreFull(s)
                               \/ IdleDim(s) \/ Restore(s) \/ Shutdown(s)

Next == Requests \/ Threads \/ Coroutines \/ Signal \/ FlipLock

Spec == Init /\ [][Next]_vars

-----------------------------------------------------------------------------
(***************************************************************************)
(* Properties.                                                             *)
(***************************************************************************)

\* No call is under way and no thread is still to reach the panel.
Quiet == orphans = {} /\ restores = 0 /\ \A s \in Slots : calls[s] = Nothing

\* While the kiosk is up, the policy either counts down towards a dim or has
\* dimmed: no signal, at whatever point of a dim it arrives, leaves the panel
\* with neither (it would then never dim again).
CountdownUnlessDimmed == phase # "exiting" => (dimmed <=> countdown # "sleeping")

\* "any effector error ... reachable-at-its-last-known-level": the store is
\* right about the panel whenever nothing is under way, through any number of
\* clean failures, unless two calls overlapped, a dim was cancelled in flight
\* or an error was reported for a change that did happen.
HonestUnlessDoubtful == available /\ Quiet /\ ~doubt => brightness = panel

\* display_policy.py: "any subsequent signal restores it immediately".
SignalRestores == available /\ Quiet /\ phase = "serving" /\ ~dimmed => panel # DimTarget

\* Likewise a panel with somebody in front of it is not left at the idle level,
\* and "on shutdown the panel is always restored to its reference brightness",
\* so that "a dimming feature must never leave the wall dim": true unless calls
\* overlapped (a restore task still pending may run last), an effector failed,
\* or night mode took the idle level for its reference.
NeverLeftDim ==
  Quiet /\ ~doubt /\ failures = 0 /\ reference # DimTarget =>
    /\ phase = "serving" /\ ~dimmed => brightness # DimTarget
    /\ phase = "exiting" /\ available => panel \in {reference, BrightTarget}
=============================================================================
