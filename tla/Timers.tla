------------------------------- MODULE Timers -------------------------------
(***************************************************************************)
(* The backend's kitchen timer: the TimerStore (timers.py), the asyncio    *)
(* tasks that sleep until a timer is due, and the privacy gate the timer   *)
(* endpoints put in front of the store (api.py).                           *)
(*                                                                         *)
(* All handlers run on one event loop and none of them awaits anything     *)
(* before its last state change, so an operation is one action.  What      *)
(* interleaves with them is the clock and the sleeping tasks: a task that  *)
(* was cancelled stays around until the loop unwinds it, and a task whose  *)
(* sleep is over may be overtaken by any operation before it runs.         *)
(*                                                                         *)
(* Time is counted in ticks of 1/TicksPerSecond s.  asyncio sleeps on a    *)
(* monotonic clock ("now"); the store stamps timers with the naive local   *)
(* wall clock, which may be stepped (daylight saving, NTP): "skew" is the  *)
(* difference.  Bounds: MaxNow ticks, MaxSteps clock steps, the slots in   *)
(* Tasks for live asyncio tasks.                                           *)
(***************************************************************************)
EXTENDS Integers, FiniteSets

CONSTANTS
  Ids,             \* timer ids (uuid4: an id in use is never drawn again)
  Tasks,           \* slots for asyncio tasks that have not finished
  NoTimer, NoTask, \* no such key in _timers, in _tasks
  MinSeconds,      \* TIMER_MIN_SECONDS
  MaxSeconds,      \* TimerStore._max_seconds
  TicksPerSecond,
  Durations,       \* duration_seconds of the requests tried
  AddSeconds,      \* add_seconds of the requests tried
  ClockSteps,      \* how far the wall clock may be stepped at once
  MaxNow, MaxSteps

ASSUME TimersAssumption ==
  /\ NoTimer \notin [created : Int, fires : Int, duration : Int,
                     state : {"running", "paused", "fired"}, remaining : Int]
  /\ NoTask \notin Tasks
  /\ MinSeconds \in Nat \ {0} /\ MaxSeconds \in Nat /\ MinSeconds <= MaxSeconds
  /\ TicksPerSecond \in Nat \ {0}
  /\ Durations \subseteq Int
  /\ AddSeconds \subseteq Nat \ {0}
  /\ ClockSteps \subseteq Int
  /\ MaxNow \in Nat /\ MaxSteps \in Nat

VARIABLES
  timers,    \* TimerStore._timers: id -> timer, or NoTimer
  tasks,     \* TimerStore._tasks: id -> task, or NoTask
  sleepers,  \* the _sleep_then_fire coroutines
  locked,    \* PrivacyStore.locked, as the endpoints read it
  now,       \* the event loop's monotonic clock
  skew,      \* wall clock minus monotonic clock
  steps      \* wall-clock steps so far

vars == <<timers, tasks, sleepers, locked, now, skew, steps>>

Wall == now + skew

Ticks(seconds) == seconds * TicksPerSecond

Larger(a, b) == IF a >= b THEN a ELSE b
Smaller(a, b) == IF a <= b THEN a ELSE b

\* round((..).total_seconds()): to the nearest second, ties to even.
Round(t) ==
  LET q == t \div TicksPerSecond
      r == t % TicksPerSecond
  IN  IF 2 * r < TicksPerSecond \/ (2 * r = TicksPerSecond /\ q % 2 = 0)
      THEN q ELSE q + 1

InCap(seconds) == MinSeconds <= seconds /\ seconds <= MaxSeconds

(***************************************************************************)
(* A timer.  remaining is 0 where the code has None: the code itself does  *)
(* not tell them apart ("remaining_seconds or ...").                       *)
(***************************************************************************)
Timer == [created : Int, fires : Int, duration : Int,
          state : {"running", "paused", "fired"}, remaining : Int]

Running(created, fires, duration) ==
  [created |-> created, fires |-> fires, duration |-> duration,
   state |-> "running", remaining |-> 0]

Paused(created, fires, duration, remaining) ==
  [created |-> created, fires |-> fires, duration |-> duration,
   state |-> "paused", remaining |-> remaining]

Active == {id \in Ids : timers[id] # NoTimer}

InState(id, state) == timers[id] # NoTimer /\ timers[id].state = state

\* A coroutine is asleep (its sleep may be over), or cancelled but not yet
\* unwound by the loop; a free slot holds none.
Sleeper == [phase : {"asleep", "cancelled"}, timer : Ids, wake : Int]
Free == [phase |-> "free"]

TypeOK ==
  /\ timers \in [Ids -> Timer \cup {NoTimer}]
  /\ tasks \in [Ids -> Tasks \cup {NoTask}]
  /\ sleepers \in [Tasks -> Sleeper \cup {Free}]
  /\ locked \in BOOLEAN
  /\ now \in Nat /\ skew \in Int /\ steps \in Nat

Init ==
  /\ timers = [id \in Ids |-> NoTimer]
  /\ tasks = [id \in Ids |-> NoTask]
  /\ sleepers = [k \in Tasks |-> Free]
  /\ locked \in BOOLEAN
  /\ now = 0 /\ skew = 0 /\ steps = 0

-----------------------------------------------------------------------------
\* Mutant: the task is forgotten but not told to cancel.
ForgottenSleepers(S) == sleepers

\* _disarm, for each id of S: the task leaves _tasks and is told to cancel.
DisarmedTasks(S) == [id \in Ids |-> IF id \in S THEN NoTask ELSE tasks[id]]
DisarmedSleepers(S) ==
  [k \in Tasks |->
     IF sleepers[k] # Free /\ \E id \in S : tasks[id] = k
     THEN [sleepers[k] EXCEPT !.phase = "cancelled"]
     ELSE sleepers[k]]

\* _arm: disarm, then a new task that sleeps until the timer is due.  S are
\* the ids disarmed on the way (the timer's own, and one that it replaces).
Arm(S, id, fires, k) ==
  /\ sleepers[k] = Free
  /\ tasks' = [DisarmedTasks(S) EXCEPT ![id] = k]
  /\ sleepers' = [DisarmedSleepers(S) EXCEPT
                    ![k] = [phase |-> "asleep", timer |-> id,
                            wake |-> now + Larger(0, fires - Wall)]]

\* _retire_active takes the first timer of the dict, if there is one.
Retirable == IF Active = {} THEN {{}} ELSE {{id} : id \in Active}

Create(id, seconds, k) ==
  /\ ~locked
  /\ InCap(seconds)
  /\ timers[id] = NoTimer
  /\ \A t \in Tasks : sleepers[t] # Free => sleepers[t].timer # id
  /\ \E retired \in Retirable :
       /\ timers' = [t \in Ids |->
                       IF t = id
                       THEN Running(Wall, Wall + Ticks(seconds), seconds)
                       ELSE IF t \in retired THEN NoTimer ELSE timers[t]]
       /\ Arm(retired \cup {id}, id, Wall + Ticks(seconds), k)
  /\ UNCHANGED <<locked, now, skew, steps>>

ExtendPaused(id, seconds) ==
  LET remaining == timers[id].remaining + seconds
  IN  /\ ~locked
      /\ InState(id, "paused")
      /\ InCap(remaining)
      /\ timers' = [timers EXCEPT ![id] =
                      Paused(Wall, Wall + Ticks(remaining), remaining, remaining)]
      /\ UNCHANGED <<tasks, sleepers, locked, now, skew, steps>>

\* Mutant: the extended timer keeps the task it had.
ExtendWithoutArming(id, seconds, k) ==
  LET fires == timers[id].fires + Ticks(seconds)
      lookahead == Round(fires - Wall)
  IN  /\ ~locked
      /\ InState(id, "running")
      /\ InCap(lookahead)
      /\ timers' = [timers EXCEPT ![id] = Running(Wall, fires, lookahead)]
      /\ UNCHANGED <<tasks, sleepers, locked, now, skew, steps>>

\* A running timer is extended from its fires_at, a fired one snoozed from now.
ExtendCounting(id, seconds, k) ==
  LET base  == IF InState(id, "running") THEN timers[id].fires ELSE Wall
      fires == base + Ticks(seconds)
      lookahead == Round(fires - Wall)
  IN  /\ ~locked
      /\ InState(id, "running") \/ InState(id, "fired")
      /\ InCap(lookahead)
      /\ timers' = [timers EXCEPT ![id] = Running(Wall, fires, lookahead)]
      /\ Arm({id}, id, fires, k)
      /\ UNCHANGED <<locked, now, skew, steps>>

\* Mutant: what is left is not clamped.
UnclampedRemaining(t) == Round(t.fires - Wall)

RemainingAtPause(t) ==
  Larger(MinSeconds, Smaller(t.duration, Round(t.fires - Wall)))

\* Mutant: the endpoint forgot its lock check.
PauseUngated(id) ==
  /\ InState(id, "running")
  /\ timers' = [timers EXCEPT ![id] =
                  Paused(@.created, @.fires, @.duration, RemainingAtPause(@))]
  /\ tasks' = DisarmedTasks({id})
  /\ sleepers' = DisarmedSleepers({id})
  /\ UNCHANGED <<locked, now, skew, steps>>

Pause(id) ==
  /\ ~locked
  /\ InState(id, "running")
  /\ timers' = [timers EXCEPT ![id] =
                  Paused(@.created, @.fires, @.duration, RemainingAtPause(@))]
  /\ tasks' = DisarmedTasks({id})
  /\ sleepers' = DisarmedSleepers({id})
  /\ UNCHANGED <<locked, now, skew, steps>>

Resume(id, k) ==
  LET t == timers[id]
      remaining == IF t.remaining # 0 THEN t.remaining ELSE t.duration
      created == Wall - Ticks(t.duration - remaining)
      fires == Wall + Ticks(remaining)
  IN  /\ ~locked
      /\ InState(id, "paused")
      /\ timers' = [timers EXCEPT ![id] = Running(created, fires, t.duration)]
      /\ Arm({id}, id, fires, k)
      /\ UNCHANGED <<locked, now, skew, steps>>

Restart(id, k) ==
  LET fires == Wall + Ticks(timers[id].duration)
  IN  /\ ~locked
      /\ id \in Active
      /\ timers' = [timers EXCEPT ![id] = Running(Wall, fires, @.duration)]
      /\ Arm({id}, id, fires, k)
      /\ UNCHANGED <<locked, now, skew, steps>>

\* Mutant: the dismissed copy stays in the store.
DeleteKeepsCopy(id) ==
  /\ id \in Active
  /\ locked => InState(id, "fired")
  /\ timers' = [timers EXCEPT ![id].state = "dismissed"]
  /\ tasks' = DisarmedTasks({id})
  /\ sleepers' = DisarmedSleepers({id})
  /\ UNCHANGED <<locked, now, skew, steps>>

\* DELETE: while locked, only an alarm that is going off may be silenced.
Delete(id) ==
  /\ id \in Active
  /\ locked => InState(id, "fired")
  /\ timers' = [timers EXCEPT ![id] = NoTimer]
  /\ tasks' = DisarmedTasks({id})
  /\ sleepers' = DisarmedSleepers({id})
  /\ UNCHANGED <<locked, now, skew, steps>>

-----------------------------------------------------------------------------
\* A sleep is over and the loop runs the task: fire() is a no-op unless the
\* timer is still running; the task ends either way.
Wake(k) ==
  /\ sleepers[k] # Free /\ sleepers[k].phase = "asleep"
  /\ sleepers[k].wake <= now
  /\ sleepers' = [sleepers EXCEPT ![k] = Free]
  /\ LET id == sleepers[k].timer
     IN  IF InState(id, "running")
         THEN /\ timers' = [timers EXCEPT ![id].state = "fired"]
              /\ tasks' = [tasks EXCEPT ![id] = NoTask]
         ELSE UNCHANGED <<timers, tasks>>
  /\ UNCHANGED <<locked, now, skew, steps>>

\* CancelledError at the sleep: the coroutine returns.
Unwind(k) ==
  /\ sleepers[k] # Free /\ sleepers[k].phase = "cancelled"
  /\ sleepers' = [sleepers EXCEPT ![k] = Free]
  /\ UNCHANGED <<timers, tasks, locked, now, skew, steps>>

\* "A backend restart clears active timers"; the lock is on disk.
BackendRestart ==
  /\ timers' = [id \in Ids |-> NoTimer]
  /\ tasks' = [id \in Ids |-> NoTask]
  /\ sleepers' = [k \in Tasks |-> Free]
  /\ UNCHANGED <<locked, now, skew, steps>>

FlipLock ==
  /\ locked' = ~locked
  /\ UNCHANGED <<timers, tasks, sleepers, now, skew, steps>>

Tick ==
  /\ now < MaxNow
  /\ now' = now + 1
  /\ UNCHANGED <<timers, tasks, sleepers, locked, skew, steps>>

StepWallClock(d) ==
  /\ steps < MaxSteps
  /\ skew' = skew + d
  /\ steps' = steps + 1
  /\ UNCHANGED <<timers, tasks, sleepers, locked, now>>

-----------------------------------------------------------------------------
Household ==
  \E id \in Ids :
    \/ \E s \in Durations, k \in Tasks : Create(id, s, k)
    \/ \E s \in AddSeconds : ExtendPaused(id, s)
    \/ \E s \in AddSeconds, k \in Tasks : ExtendCounting(id, s, k)
    \/ Pause(id)
    \/ \E k \in Tasks : Resume(id, k)
    \/ \E k \in Tasks : Restart(id, k)
    \/ Delete(id)

EventLoop == \E k \in Tasks : Wake(k) \/ Unwind(k)

Environment ==
  \/ BackendRestart
  \/ FlipLock
  \/ Tick
  \/ \E d \in ClockSteps : StepWallClock(d)

Next == Household \/ EventLoop \/ Environment

Spec == Init /\ [][Next]_vars

\* The event loop runs every task that is ready; nobody has to touch a timer.
FairSpec == Spec /\ \A k \in Tasks : WF_vars(Wake(k)) /\ WF_vars(Unwind(k))

-----------------------------------------------------------------------------
(***************************************************************************)
(* Properties.                                                             *)
(***************************************************************************)

\* The household has one timer: creating one always retires the other.
AtMostOneTimer ==
  \A a, b \in Ids : timers[a] # NoTimer /\ timers[b] # NoTimer => a = b

\* Every running timer is armed with a task of its own that will wake it, and
\* every task still going to wake is the registered one of a running timer:
\* no path through create, extend, pause, resume, restart and delete leaves a
\* timer that never rings or a second alarm for one it replaced or paused.
ArmedIffRunning ==
  /\ \A id \in Ids :
       IF InState(id, "running")
       THEN /\ tasks[id] # NoTask
            /\ sleepers[tasks[id]] # Free
            /\ sleepers[tasks[id]].phase = "asleep"
            /\ sleepers[tasks[id]].timer = id
       ELSE tasks[id] = NoTask
  /\ \A k \in Tasks :
       sleepers[k] # Free /\ sleepers[k].phase = "asleep"
         => tasks[sleepers[k].timer] = k

\* The Timer model's own validator accepts every timer the handlers build
\* (one that it refused would be an error half-way through a handler, after
\* the old timer was retired): duration within the cap, fires_at after
\* created_at and within a second of created_at + duration, and a paused
\* timer holding between the minimum and its duration.
ValidatorAccepts ==
  \A id \in Active :
    LET t == timers[id]
        drift == t.fires - (t.created + Ticks(t.duration))
    IN  /\ InCap(t.duration)
        /\ t.fires > t.created
        /\ -TicksPerSecond <= drift /\ drift <= TicksPerSecond
        /\ IF t.state = "paused"
           THEN MinSeconds <= t.remaining /\ t.remaining <= t.duration
           ELSE t.remaining = 0

\* As long as nobody steps the wall clock, the task of a running timer wakes
\* at the very instant the kiosk counts down to (fires_at).
RingsWhenFaceShowsZero ==
  steps = 0 =>
    \A id \in Ids : InState(id, "running") /\ tasks[id] \in Tasks
      => sleepers[tasks[id]].wake = timers[id].fires

\* The store, its tasks and the gate together are one kitchen timer: a timer
\* rings only once its time is up, and does ring then; it stands still while
\* paused; no stale task of an extended, paused or replaced timer sets off an
\* alarm; a locked display can only let it ring and be silenced.
Alarm == CHOOSE id \in Ids : timers[id] # NoTimer

Promise == INSTANCE KitchenTimer WITH
  phase <- IF Active = {} THEN "none" ELSE timers[Alarm].state,
  left <- IF Active = {} THEN 0
          ELSE CASE timers[Alarm].state = "running" -> sleepers[tasks[Alarm]].wake - now
                 [] timers[Alarm].state = "paused" -> Ticks(timers[Alarm].remaining)
                 [] OTHER -> 0,
  dial <- IF Active = {} THEN 0 ELSE Ticks(timers[Alarm].duration),
  locked <- locked,
  steady <- (steps = 0),
  Shortest <- Ticks(MinSeconds),
  Longest <- Ticks(MaxSeconds),
  Additions <- {Ticks(s) : s \in AddSeconds},
  Slack <- TicksPerSecond \div 2

ImplementsKitchenTimer == Promise!Spec
=============================================================================
