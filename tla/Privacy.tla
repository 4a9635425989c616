------------------------------ MODULE Privacy ------------------------------
(***************************************************************************)
(* Privacy mode (privacy.py and its endpoints in api.py): a lock entered   *)
(* with no secret, left by the PIN or, right after entry, by the undo      *)
(* button; wrong PINs earn a cooldown that doubles; the lock is kept in a  *)
(* file so that a power cycle does not defeat it.                          *)
(*                                                                         *)
(* No handler awaits before its last change of state, so each is one       *)
(* action; the broadcast that follows is left to the feed.  As in Timers,  *)
(* time is counted in ticks, "now" is true elapsed time and the store      *)
(* stamps with the naive wall clock, now + skew.  Bounds: MaxNow ticks,    *)
(* MaxSteps steps of the wall clock.                                       *)
(***************************************************************************)
EXTENDS Integers

CONSTANTS
  NoTime,          \* None, for a timestamp
  NoFile, Garbled, \* the state file is missing; cannot be read
  MaxAttempts,     \* _max_attempts
  BaseCooldown,    \* _base_cooldown, in seconds
  CooldownCap,     \* _COOLDOWN_CAP_SECONDS
  UndoGrace,       \* _undo_grace, in seconds
  TicksPerSecond,
  ClockSteps,      \* how far the wall clock may be stepped at once
  MaxNow, MaxSteps

Kept == [locked : BOOLEAN, since : Int \cup {NoTime}]

ASSUME PrivacyAssumption ==
  /\ NoTime \notin Int
  /\ NoFile \notin Kept /\ Garbled \notin Kept
  /\ MaxAttempts \in Nat \ {0}
  /\ BaseCooldown \in Nat \ {0} /\ CooldownCap \in Nat \ {0}
  /\ UndoGrace \in Nat
  /\ TicksPerSecond \in Nat \ {0}
  /\ ClockSteps \subseteq Int
  /\ MaxNow \in Nat /\ MaxSteps \in Nat

VARIABLES
  available,  \* a PIN is configured
  locked,     \* _locked
  since,      \* _since
  failed,     \* _failed
  lockouts,   \* _lockouts
  until,      \* _locked_out_until
  file,       \* what the state file holds
  now,        \* time gone by
  skew,       \* wall clock minus now
  steps,      \* wall-clock steps so far
  enteredAt,  \* history: when the lock was last entered
  written,    \* history: the last write of the file succeeded, and it is intact
  guesses,    \* history: wrong PINs heard since the counters were last cleared
  cleared     \* history: when that was

state == <<available, locked, since>>
counters == <<failed, lockouts, until, guesses, cleared>>
clocks == <<now, skew, steps>>
vars == <<state, counters, clocks, file, enteredAt, written>>

Wall == now + skew

Ticks(seconds) == seconds * TicksPerSecond

\* The state itself is well formed: the stamp is there exactly while locked.
TypeOK ==
  /\ available \in BOOLEAN
  /\ locked \in BOOLEAN
  /\ since \in Int \cup {NoTime} /\ (locked <=> since # NoTime)
  /\ failed \in 0 .. (MaxAttempts - 1)
  /\ lockouts \in Nat
  /\ until \in Int \cup {NoTime}
  /\ file \in Kept \cup {NoFile, Garbled}
  /\ now \in Nat /\ skew \in Int /\ steps \in Nat
  /\ enteredAt \in Nat /\ written \in BOOLEAN
  /\ guesses \in Nat /\ cleared \in Nat

Init ==
  /\ available \in BOOLEAN
  /\ locked = FALSE /\ since = NoTime
  /\ failed = 0 /\ lockouts = 0 /\ until = NoTime
  /\ file = NoFile
  /\ now = 0 /\ skew = 0 /\ steps = 0
  /\ enteredAt = 0 /\ written = TRUE /\ guesses = 0 /\ cleared = 0

-----------------------------------------------------------------------------
\* _persist: the file is replaced at once, or, on an OSError, not at all.
Persist(l, s) ==
  \/ file' = [locked |-> l, since |-> s] /\ written' = TRUE
  \/ UNCHANGED file /\ written' = FALSE

\* Mutant: locking again stamps the entry anew.
LockAgain ==
  /\ available
  /\ locked' = TRUE /\ since' = Wall
  /\ enteredAt' = IF locked THEN enteredAt ELSE now
  /\ Persist(TRUE, Wall)
  /\ UNCHANGED <<available, counters, clocks>>

\* Locking twice changes nothing the second time (idempotent).
Lock ==
  /\ available
  /\ ~locked
  /\ locked' = TRUE /\ since' = Wall
  /\ enteredAt' = now
  /\ Persist(TRUE, Wall)
  /\ UNCHANGED <<available, counters, clocks>>

\* Mutant: a cooldown with one second left counts as over.
CoolingDownEarly == until # NoTime /\ until - Wall >= 2 * TicksPerSecond

\* cooldown_remaining() > 0: whole seconds are left, fractions do not count.
CoolingDown == until # NoTime /\ until - Wall >= TicksPerSecond

UnlockRight ==
  /\ available /\ ~CoolingDown
  /\ failed' = 0 /\ lockouts' = 0 /\ until' = NoTime
  /\ guesses' = 0 /\ cleared' = now
  /\ IF locked
     THEN locked' = FALSE /\ since' = NoTime /\ Persist(FALSE, NoTime)
     ELSE UNCHANGED <<locked, since, file, written>>
  /\ UNCHANGED <<available, clocks, enteredAt>>

\* The n-th lock-out since the counters were cleared, in seconds.
Cooldown(n) ==
  LET doubled == BaseCooldown * 2^(n - 1)
  IN  IF doubled <= CooldownCap THEN doubled ELSE CooldownCap

UnlockWrong ==
  /\ available /\ ~CoolingDown
  /\ guesses' = guesses + 1
  /\ IF failed + 1 >= MaxAttempts
     THEN /\ lockouts' = lockouts + 1
          /\ until' = Wall + Ticks(Cooldown(lockouts + 1))
          /\ failed' = 0
     ELSE failed' = failed + 1 /\ UNCHANGED <<lockouts, until>>
  /\ UNCHANGED <<state, clocks, file, enteredAt, written, cleared>>

InUndoWindow == locked /\ since # NoTime /\ Wall - since <= Ticks(UndoGrace)

\* Mutants: the stamp stays; the file is not written.
UndoKeepsStamp ==
  /\ InUndoWindow
  /\ locked' = FALSE /\ Persist(FALSE, since)
  /\ UNCHANGED <<available, since, counters, clocks, enteredAt>>

UndoInMemory ==
  /\ InUndoWindow
  /\ locked' = FALSE /\ since' = NoTime
  /\ UNCHANGED <<available, counters, clocks, enteredAt, file, written>>

Undo ==
  /\ InUndoWindow
  /\ locked' = FALSE /\ since' = NoTime /\ Persist(FALSE, NoTime)
  /\ UNCHANGED <<available, counters, clocks, enteredAt>>

-----------------------------------------------------------------------------
\* _load: a missing or unreadable file means unlocked.  A file that is valid
\* JSON but no object, which only a hand can write, is left out: _load does not
\* catch that error, and the backend does not start until the file is mended.
Loaded == IF file \in {NoFile, Garbled} THEN [locked |-> FALSE, since |-> NoTime]
          ELSE file

\* A crash or restart: the counters are process memory, the PIN is read from
\* the configuration, which the household may have edited meanwhile.
Restart ==
  /\ available' \in BOOLEAN
  /\ locked' = Loaded.locked /\ since' = Loaded.since
  /\ failed' = 0 /\ lockouts' = 0 /\ until' = NoTime
  /\ guesses' = 0 /\ cleared' = now
  /\ written' = TRUE
  /\ UNCHANGED <<clocks, file, enteredAt>>

\* The file is deleted or damaged by hand.
LoseFile ==
  /\ file' \in {NoFile, Garbled}
  /\ written' = FALSE
  /\ UNCHANGED <<state, counters, clocks, enteredAt>>

Tick ==
  /\ now < MaxNow
  /\ now' = now + 1
  /\ UNCHANGED <<state, counters, skew, steps, file, enteredAt, written>>

StepWallClock ==
  /\ steps < MaxSteps
  /\ \E d \in ClockSteps : skew' = skew + d
  /\ steps' = steps + 1
  /\ UNCHANGED <<state, counters, now, file, enteredAt, written>>

Next == \/ Lock \/ UnlockRight \/ UnlockWrong \/ Undo
        \/ Restart \/ LoseFile \/ Tick \/ StepWallClock

Spec == Init /\ [][Next]_vars

-----------------------------------------------------------------------------
(***************************************************************************)
(* Properties.                                                             *)
(***************************************************************************)

\* A power cycle does not defeat the lock, nor bring back one that was left:
\* unless the last write failed or the file was damaged, what a restart would
\* load is the state in memory (_persist follows every change of _locked).
FileHoldsState == written => Loaded = [locked |-> locked, since |-> since]

\* After the grace period the PIN is required, whatever was tried before:
\* the lock is left only by the right PIN, by an undo that really is within
\* UndoGrace of the entry (locking again does not extend it, a restart does
\* not restart it; a stepped wall clock can), or by a restart that finds no
\* faithful file.
LeftByPinOrInGrace ==
  [][locked /\ ~locked' =>
       \/ UnlockRight
       \/ Undo /\ (steps = 0 => now - enteredAt <= Ticks(UndoGrace))
       \/ Restart /\ ~written]_vars

\* Guessing is slow: more than k * MaxAttempts wrong PINs since the counters
\* were cleared (by the right PIN or a restart) take at least the first k
\* cooldowns, each at most a second short because only whole seconds count.
Served[k \in 0 .. MaxNow] ==
  IF k = 0 THEN 0
  ELSE Served[k - 1] + Ticks(Cooldown(k)) - (TicksPerSecond - 1)

GuessingIsSlow ==
  steps = 0 =>
    \A k \in 0 .. MaxNow :
      guesses > k * MaxAttempts => now - cleared >= Served[k]

\* "You cannot get into a state you cannot get out of": whenever privacy mode
\* is on there is a PIN that turns it off.
LockedOnlyWithPin == locked => available
=============================================================================
