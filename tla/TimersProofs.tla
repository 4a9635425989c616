---------------------------- MODULE TimersProofs ----------------------------
(***************************************************************************)
(* Theorems about Timers, for every number of ids and tasks, every cap and *)
(* every tick length.  TypeOK, ArmedIffRunning and AtMostOneTimer are      *)
(* inductive together: a path that arms a timer first disarms it and       *)
(* whatever it replaces, which is lemma Arming; a path that only disarms   *)
(* is lemma Disarming.  On this rest the two longer arguments: that while  *)
(* the wall clock is steady a task wakes when its face shows zero          *)
(* (AlwaysRingsAtZero), and that every step of the store is a step of the  *)
(* abstract KitchenTimer or a stutter (KeepsThePromise).                   *)
(***************************************************************************)
EXTENDS Timers, TLAPS

LEMMA FreeIsNoSleeper == Free \notin Sleeper
  BY DEF Free, Sleeper

LEMMA RoundType == \A t \in Int : Round(t) \in Int
  BY TimersAssumption DEF Round, TimersAssumption

\* Rearming: the ids of S are disarmed, id is armed with the fresh task k.
LEMMA Arming ==
  ASSUME TypeOK, ArmedIffRunning,
         NEW S \in SUBSET Ids, NEW id \in S, NEW k \in Tasks, NEW fires \in Int,
         Arm(S, id, fires, k),
         timers' \in [Ids -> Timer \cup {NoTimer}],
         \A t \in Ids \ S : timers'[t] = timers[t],
         \A t \in S \ {id} : timers'[t] = NoTimer,
         InState(id, "running")'
  PROVE  /\ tasks' \in [Ids -> Tasks \cup {NoTask}]
         /\ sleepers' \in [Tasks -> Sleeper \cup {Free}]
         /\ ArmedIffRunning'
<1> USE TimersAssumption DEF TimersAssumption
<1>1. tasks' = [DisarmedTasks(S) EXCEPT ![id] = k] /\ sleepers[k] = Free
  BY DEF Arm
<1>2. tasks' \in [Ids -> Tasks \cup {NoTask}]
  BY <1>1 DEF TypeOK, DisarmedTasks
<1>3. /\ tasks'[id] = k
      /\ \A t \in S \ {id} : tasks'[t] = NoTask
      /\ \A t \in Ids \ S : tasks'[t] = tasks[t]
  BY <1>1 DEF DisarmedTasks
<1> DEFINE new == [phase |-> "asleep", timer |-> id, wake |-> now + Larger(0, fires - Wall)]
<1>4. new \in Sleeper
  BY DEF Sleeper, TypeOK, Larger, Wall
<1>5. /\ sleepers' \in [Tasks -> Sleeper \cup {Free}]
      /\ sleepers'[k] = new
      /\ \A t \in Tasks \ {k} :
           IF sleepers[t] # Free /\ \E i \in S : tasks[i] = t
           THEN sleepers'[t] # Free /\ sleepers'[t].phase = "cancelled"
           ELSE sleepers'[t] = sleepers[t]
  <2>1. DisarmedSleepers(S) \in [Tasks -> Sleeper \cup {Free}]
    BY DEF TypeOK, DisarmedSleepers, Sleeper
  <2>2. \A t \in Tasks :
           IF sleepers[t] # Free /\ \E i \in S : tasks[i] = t
           THEN DisarmedSleepers(S)[t] # Free /\ DisarmedSleepers(S)[t].phase = "cancelled"
           ELSE DisarmedSleepers(S)[t] = sleepers[t]
    <3> SUFFICES ASSUME NEW t \in Tasks, sleepers[t] # Free, \E i \in S : tasks[i] = t
                 PROVE  /\ DisarmedSleepers(S)[t] # Free
                        /\ DisarmedSleepers(S)[t].phase = "cancelled"
      BY DEF DisarmedSleepers
    <3>1. sleepers[t] \in Sleeper
      BY DEF TypeOK
    <3>2. DisarmedSleepers(S)[t] = [sleepers[t] EXCEPT !.phase = "cancelled"]
      BY DEF DisarmedSleepers
    <3>3. DisarmedSleepers(S)[t].phase = "cancelled" /\ DisarmedSleepers(S)[t] \in Sleeper
      BY <3>1, <3>2 DEF Sleeper
    <3> QED BY <3>3, FreeIsNoSleeper
  <2>3. sleepers' = [DisarmedSleepers(S) EXCEPT ![k] = new]
    BY DEF Arm
  <2> QED BY <2>1, <2>2, <2>3, <1>4
<1>6. new # Free
  BY <1>4, FreeIsNoSleeper
<1>7. ASSUME NEW t \in Ids
      PROVE  IF InState(t, "running")'
             THEN /\ tasks'[t] # NoTask
                  /\ sleepers'[tasks'[t]] # Free
                  /\ sleepers'[tasks'[t]].phase = "asleep"
                  /\ sleepers'[tasks'[t]].timer = t
             ELSE tasks'[t] = NoTask
  <2>1. CASE t = id
    BY <2>1, <1>3, <1>5, <1>6
  <2>2. CASE t \in S \ {id}
    BY <2>2, <1>3 DEF InState
  <2>3. CASE t \in Ids \ S
    <3>1. InState(t, "running")' <=> InState(t, "running")
      BY <2>3 DEF InState
    <3>2. CASE InState(t, "running")
      <4>1. /\ tasks[t] \in Tasks
            /\ sleepers[tasks[t]] # Free
            /\ sleepers[tasks[t]].phase = "asleep"
            /\ sleepers[tasks[t]].timer = t
        BY <3>2 DEF ArmedIffRunning, TypeOK
      <4>2. ~ \E i \in S : tasks[i] = tasks[t]
        <5> SUFFICES ASSUME NEW i \in S, tasks[i] = tasks[t] PROVE FALSE
          OBVIOUS
        <5>1. sleepers[tasks[i]].timer = i
          BY <4>1 DEF ArmedIffRunning, TypeOK
        <5> QED BY <5>1, <4>1, <2>3
      <4> QED BY <4>1, <4>2, <3>1, <3>2, <2>3, <1>1, <1>3, <1>5
    <3>3. CASE ~InState(t, "running")
      BY <3>1, <3>3, <2>3, <1>3 DEF ArmedIffRunning
    <3> QED BY <3>2, <3>3
  <2> QED BY <2>1, <2>2, <2>3
<1>8. ASSUME NEW t \in Tasks, sleepers'[t] # Free, sleepers'[t].phase = "asleep"
      PROVE  tasks'[sleepers'[t].timer] = t
  <2>1. CASE t = k
    BY <2>1, <1>3, <1>5
  <2>2. CASE t # k
    <3>1. sleepers'[t] = sleepers[t] /\ ~ \E i \in S : tasks[i] = t
      BY <2>2, <1>5, <1>8
    <3>2. sleepers[t] \in Sleeper
      BY <3>1, <1>8 DEF TypeOK
    <3>3. sleepers[t].timer \in Ids /\ tasks[sleepers[t].timer] = t
      BY <3>1, <3>2, <1>8 DEF ArmedIffRunning, Sleeper
    <3> QED BY <3>1, <3>3, <1>3
  <2> QED BY <2>1, <2>2
<1> QED BY <1>2, <1>5, <1>7, <1>8 DEF ArmedIffRunning

\* Pausing or removing a timer only disarms it.
LEMMA Disarming ==
  ASSUME TypeOK, ArmedIffRunning, NEW id \in Ids,
         tasks' = DisarmedTasks({id}), sleepers' = DisarmedSleepers({id}),
         timers' \in [Ids -> Timer \cup {NoTimer}],
         \A t \in Ids \ {id} : timers'[t] = timers[t],
         ~InState(id, "running")'
  PROVE  /\ tasks' \in [Ids -> Tasks \cup {NoTask}]
         /\ sleepers' \in [Tasks -> Sleeper \cup {Free}]
         /\ ArmedIffRunning'
<1> USE TimersAssumption DEF TimersAssumption
<1>1. /\ tasks' \in [Ids -> Tasks \cup {NoTask}]
      /\ tasks'[id] = NoTask
      /\ \A t \in Ids \ {id} : tasks'[t] = tasks[t]
  BY DEF TypeOK, DisarmedTasks
<1>2. sleepers' \in [Tasks -> Sleeper \cup {Free}]
  BY DEF TypeOK, DisarmedSleepers, Sleeper
<1>3. ASSUME NEW t \in Tasks
      PROVE  IF sleepers[t] # Free /\ tasks[id] = t
             THEN sleepers'[t] # Free /\ sleepers'[t].phase = "cancelled"
             ELSE sleepers'[t] = sleepers[t]
  <2>1. CASE sleepers[t] # Free /\ tasks[id] = t
    <3>1. sleepers[t] \in Sleeper
      BY <2>1 DEF TypeOK
    <3>2. sleepers'[t] = [sleepers[t] EXCEPT !.phase = "cancelled"]
      BY <2>1 DEF DisarmedSleepers
    <3>3. sleepers'[t].phase = "cancelled" /\ sleepers'[t] \in Sleeper
      BY <3>1, <3>2 DEF Sleeper
    <3> QED BY <3>3, <2>1, FreeIsNoSleeper
  <2>2. CASE ~(sleepers[t] # Free /\ tasks[id] = t)
    BY <2>2 DEF DisarmedSleepers
  <2> QED BY <2>1, <2>2
<1>4. ASSUME NEW t \in Ids
      PROVE  IF InState(t, "running")'
             THEN /\ tasks'[t] # NoTask
                  /\ sleepers'[tasks'[t]] # Free
                  /\ sleepers'[tasks'[t]].phase = "asleep"
                  /\ sleepers'[tasks'[t]].timer = t
             ELSE tasks'[t] = NoTask
  <2>1. CASE t = id
    BY <2>1, <1>1
  <2>2. CASE t # id
    <3>1. InState(t, "running")' <=> InState(t, "running")
      BY <2>2 DEF InState
    <3>2. CASE InState(t, "running")
      <4>1. /\ tasks[t] \in Tasks
            /\ sleepers[tasks[t]] # Free
            /\ sleepers[tasks[t]].phase = "asleep"
            /\ sleepers[tasks[t]].timer = t
        BY <3>2 DEF ArmedIffRunning, TypeOK
      <4>2. tasks[id] # tasks[t]
        BY <4>1, <2>2 DEF ArmedIffRunning, TypeOK
      <4> QED BY <4>1, <4>2, <3>1, <3>2, <2>2, <1>1, <1>3
    <3>3. CASE ~InState(t, "running")
      BY <3>1, <3>3, <2>2, <1>1 DEF ArmedIffRunning
    <3> QED BY <3>2, <3>3
  <2> QED BY <2>1, <2>2
<1>5. ASSUME NEW t \in Tasks, sleepers'[t] # Free, sleepers'[t].phase = "asleep"
      PROVE  tasks'[sleepers'[t].timer] = t
  <2>1. sleepers'[t] = sleepers[t] /\ tasks[id] # t
    BY <1>3, <1>5
  <2>2. sleepers[t].timer \in Ids /\ tasks[sleepers[t].timer] = t
    BY <2>1, <1>5 DEF ArmedIffRunning, Sleeper, TypeOK
  <2> QED BY <2>1, <2>2, <1>1
<1> QED BY <1>1, <1>2, <1>4, <1>5 DEF ArmedIffRunning

\* Rounding to whole seconds is off by less than a second.
LEMMA RoundClose ==
  \A t \in Int : /\ -TicksPerSecond <= t - Ticks(Round(t))
                 /\ t - Ticks(Round(t)) <= TicksPerSecond
<1> TAKE t \in Int
<1> DEFINE q == t \div TicksPerSecond
           r == t % TicksPerSecond
<1> USE TimersAssumption DEF TimersAssumption
<1>1. q \in Int /\ r \in Int /\ t = TicksPerSecond * q + r /\ 0 <= r /\ r < TicksPerSecond
  OBVIOUS
<1>2. Round(t) = q \/ Round(t) = q + 1
  BY DEF Round
<1> HIDE DEF q, r
<1>3. TicksPerSecond * q = Ticks(q) /\ Ticks(q + 1) = Ticks(q) + TicksPerSecond
      /\ Ticks(q) \in Int
  BY <1>1 DEF Ticks
<1>4. t - Ticks(q) = r /\ t - Ticks(q + 1) = r - TicksPerSecond
  BY <1>1, <1>3
<1> QED BY <1>1, <1>2, <1>4

LEMMA TicksLinear ==
  /\ \A s \in Int : Ticks(s) \in Int
  /\ \A a, b \in Int : Ticks(a - b) = Ticks(a) - Ticks(b)
  /\ \A s \in Int : s >= 1 => Ticks(s) > 0
  BY TimersAssumption DEF Ticks, TimersAssumption

LEMMA CapTicks ==
  ASSUME NEW d \in Int, InCap(d)
  PROVE  d >= 1 /\ Ticks(d) \in Int /\ Ticks(d) > 0
<1>1. d >= 1
  BY TimersAssumption DEF InCap, TimersAssumption
<1> QED BY <1>1, TicksLinear

-----------------------------------------------------------------------------
StoreInv == TypeOK /\ ArmedIffRunning /\ AtMostOneTimer

LEMMA RunningIsTimer ==
  \A c, f, d \in Int : Running(c, f, d) \in Timer /\ Running(c, f, d).state = "running"
  BY DEF Running, Timer

LEMMA PausedIsTimer ==
  \A c, f, d, r \in Int : Paused(c, f, d, r) \in Timer /\ Paused(c, f, d, r).state = "paused"
  BY DEF Paused, Timer

LEMMA TimerIsPresent == \A t \in Timer : t # NoTimer
  BY TimersAssumption DEF TimersAssumption, Timer

\* A timer in some state is a record of the right type.
LEMMA PresentTimer ==
  ASSUME TypeOK, NEW id \in Ids, timers[id] # NoTimer
  PROVE  /\ timers[id] \in Timer
         /\ timers[id].created \in Int /\ timers[id].fires \in Int
         /\ timers[id].duration \in Int /\ timers[id].remaining \in Int
  BY DEF TypeOK, Timer

\* One timer of the store is replaced by a running one and armed.
LEMMA Rearming ==
  ASSUME StoreInv, NEW id \in Ids, timers[id] # NoTimer, NEW k \in Tasks,
         NEW c \in Int, NEW f \in Int, NEW d \in Int,
         timers' = [timers EXCEPT ![id] = Running(c, f, d)],
         Arm({id}, id, f, k), UNCHANGED <<now, skew, steps>>, locked' \in BOOLEAN
  PROVE  StoreInv'
<1>1. Running(c, f, d) \in Timer /\ Running(c, f, d) # NoTimer
      /\ Running(c, f, d).state = "running"
  BY RunningIsTimer, TimerIsPresent
<1>2. timers' \in [Ids -> Timer \cup {NoTimer}] /\ InState(id, "running")'
  BY <1>1 DEF StoreInv, TypeOK, InState
<1>3. \A t \in Ids \ {id} : timers'[t] = timers[t]
  BY DEF StoreInv, TypeOK
<1>4. /\ tasks' \in [Ids -> Tasks \cup {NoTask}]
      /\ sleepers' \in [Tasks -> Sleeper \cup {Free}]
      /\ ArmedIffRunning'
  BY <1>2, <1>3, Arming DEF StoreInv
<1>5. AtMostOneTimer'
  BY <1>3 DEF StoreInv, AtMostOneTimer
<1> QED BY <1>2, <1>4, <1>5 DEF StoreInv, TypeOK

LEMMA StoreInvInit == Init => StoreInv
<1> SUFFICES ASSUME Init PROVE StoreInv
  OBVIOUS
<1>1. TypeOK
  BY DEF Init, TypeOK
<1>2. ArmedIffRunning
  BY DEF Init, ArmedIffRunning, InState
<1>3. AtMostOneTimer
  BY DEF Init, AtMostOneTimer
<1> QED BY <1>1, <1>2, <1>3 DEF StoreInv

LEMMA StoreInvStep == StoreInv /\ Next => StoreInv'
<1> SUFFICES ASSUME StoreInv, Next PROVE StoreInv'
  OBVIOUS
<1> USE TimersAssumption DEF TimersAssumption
<1>0. Wall \in Int /\ now \in Int
  BY DEF StoreInv, TypeOK, Wall
<1>T. \A s \in Int : Ticks(s) \in Int
  BY DEF Ticks
<1>1. ASSUME NEW id \in Ids, NEW s \in Durations, NEW k \in Tasks, Create(id, s, k)
      PROVE  StoreInv'
  <2>1. PICK retired \in Retirable :
          /\ timers' = [t \in Ids |->
                          IF t = id THEN Running(Wall, Wall + Ticks(s), s)
                          ELSE IF t \in retired THEN NoTimer ELSE timers[t]]
          /\ Arm(retired \cup {id}, id, Wall + Ticks(s), k)
    BY <1>1 DEF Create
  <2>2. retired \in SUBSET Ids
    BY DEF Retirable, Active
  <2>3. Ticks(s) \in Int /\ Wall + Ticks(s) \in Int
    BY <1>0, <1>T
  <2>4. Running(Wall, Wall + Ticks(s), s) \in Timer
        /\ Running(Wall, Wall + Ticks(s), s).state = "running"
        /\ Running(Wall, Wall + Ticks(s), s) # NoTimer
    BY <2>3, <1>0, RunningIsTimer, TimerIsPresent
  <2>5. timers' \in [Ids -> Timer \cup {NoTimer}] /\ InState(id, "running")'
    BY <2>1, <2>4 DEF StoreInv, TypeOK, InState
  <2>6. \A t \in Ids \ {id} : timers'[t] = NoTimer
    <3>1. \A t \in Ids \ {id} : timers'[t] = IF t \in retired THEN NoTimer ELSE timers[t]
      BY <2>1
    <3>2. \A t \in Ids : t \notin retired => timers[t] = NoTimer
      BY DEF Retirable, Active, StoreInv, AtMostOneTimer
    <3> QED BY <3>1, <3>2
  <2>7. \A t \in Ids \ (retired \cup {id}) : timers'[t] = timers[t]
    BY <2>1
  <2>8. /\ tasks' \in [Ids -> Tasks \cup {NoTask}]
        /\ sleepers' \in [Tasks -> Sleeper \cup {Free}]
        /\ ArmedIffRunning'
    <3> DEFINE S == retired \cup {id}
    <3>1. S \in SUBSET Ids /\ id \in S /\ \A t \in S \ {id} : timers'[t] = NoTimer
      BY <2>2, <2>6
    <3>2. Arm(S, id, Wall + Ticks(s), k) /\ \A t \in Ids \ S : timers'[t] = timers[t]
      BY <2>1, <2>7
    <3> HIDE DEF S
    <3> QED BY <3>1, <3>2, <2>3, <2>5, Arming DEF StoreInv
  <2>9. AtMostOneTimer'
    BY <2>6 DEF AtMostOneTimer
  <2> QED BY <1>1, <2>5, <2>8, <2>9 DEF StoreInv, TypeOK, Create
<1>2. ASSUME NEW id \in Ids, NEW s \in AddSeconds, ExtendPaused(id, s)
      PROVE  StoreInv'
  <2> DEFINE r == timers[id].remaining + s
  <2>1. r \in Int /\ timers[id] # NoTimer /\ timers[id].state = "paused"
    BY <1>2, PresentTimer DEF ExtendPaused, InState, StoreInv
  <2>2. timers' = [timers EXCEPT ![id] = Paused(Wall, Wall + Ticks(r), r, r)]
    BY <1>2 DEF ExtendPaused
  <2> HIDE DEF r
  <2>a. Ticks(r) \in Int /\ Wall + Ticks(r) \in Int
    BY <2>1, <1>0, <1>T
  <2>3. Paused(Wall, Wall + Ticks(r), r, r) \in Timer
        /\ Paused(Wall, Wall + Ticks(r), r, r).state = "paused"
    BY <2>1, <2>a, <1>0, PausedIsTimer
  <2>4. timers' \in [Ids -> Timer \cup {NoTimer}]
    BY <2>2, <2>3 DEF StoreInv, TypeOK
  <2>5. \A t \in Ids : InState(t, "running")' <=> InState(t, "running")
    BY <2>1, <2>2, <2>3 DEF InState, StoreInv, TypeOK
  <2>6. UNCHANGED <<tasks, sleepers, locked, now, skew, steps>>
    BY <1>2 DEF ExtendPaused
  <2>7. ArmedIffRunning'
    BY <2>5, <2>6 DEF StoreInv, ArmedIffRunning, InState
  <2>8. AtMostOneTimer'
    BY <2>1, <2>2 DEF StoreInv, AtMostOneTimer, TypeOK
  <2> QED BY <2>4, <2>6, <2>7, <2>8 DEF StoreInv, TypeOK
<1>3. ASSUME NEW id \in Ids, NEW s \in AddSeconds, NEW k \in Tasks, ExtendCounting(id, s, k)
      PROVE  StoreInv'
  <2> DEFINE base == IF InState(id, "running") THEN timers[id].fires ELSE Wall
             fires == base + Ticks(s)
  <2>1. timers[id] # NoTimer
    BY <1>3 DEF ExtendCounting, InState
  <2>2. fires \in Int /\ Round(fires - Wall) \in Int
    BY <2>1, <1>0, <1>T, PresentTimer, RoundType DEF StoreInv
  <2>3. /\ timers' = [timers EXCEPT ![id] = Running(Wall, fires, Round(fires - Wall))]
        /\ Arm({id}, id, fires, k)
        /\ UNCHANGED <<locked, now, skew, steps>>
    BY <1>3 DEF ExtendCounting
  <2> HIDE DEF fires
  <2> QED BY <2>1, <2>2, <2>3, <1>0, Rearming DEF StoreInv, TypeOK
<1>4. ASSUME NEW id \in Ids, Pause(id)
      PROVE  StoreInv'
  <2> DEFINE t == timers[id]
             p == Paused(t.created, t.fires, t.duration, RemainingAtPause(t))
  <2>1. timers[id] # NoTimer /\ timers' = [timers EXCEPT ![id] = p]
    BY <1>4 DEF Pause, InState
  <2>2. RemainingAtPause(t) \in Int
    BY <2>1, <1>0, PresentTimer, RoundType DEF StoreInv, RemainingAtPause, Larger, Smaller
  <2>3. p \in Timer /\ p.state = "paused"
    BY <2>1, <2>2, PresentTimer, PausedIsTimer DEF StoreInv
  <2> HIDE DEF p
  <2>4. timers' \in [Ids -> Timer \cup {NoTimer}] /\ ~InState(id, "running")'
    BY <2>1, <2>3 DEF StoreInv, TypeOK, InState
  <2>5. \A i \in Ids \ {id} : timers'[i] = timers[i]
    BY <2>1 DEF StoreInv, TypeOK
  <2>6. /\ tasks' = DisarmedTasks({id}) /\ sleepers' = DisarmedSleepers({id})
        /\ UNCHANGED <<locked, now, skew, steps>>
    BY <1>4 DEF Pause
  <2>7. /\ tasks' \in [Ids -> Tasks \cup {NoTask}]
        /\ sleepers' \in [Tasks -> Sleeper \cup {Free}]
        /\ ArmedIffRunning'
    BY <2>4, <2>5, <2>6, Disarming DEF StoreInv
  <2>8. AtMostOneTimer'
    BY <2>1, <2>5 DEF StoreInv, AtMostOneTimer
  <2> QED BY <2>4, <2>6, <2>7, <2>8 DEF StoreInv, TypeOK
<1>5. ASSUME NEW id \in Ids, NEW k \in Tasks, Resume(id, k)
      PROVE  StoreInv'
  <2> DEFINE t == timers[id]
             remaining == IF t.remaining # 0 THEN t.remaining ELSE t.duration
             created == Wall - Ticks(t.duration - remaining)
             fires == Wall + Ticks(remaining)
  <2>1. timers[id] # NoTimer
    BY <1>5 DEF Resume, InState
  <2>2. t.duration \in Int /\ remaining \in Int
    BY <2>1, PresentTimer DEF StoreInv
  <2>3. created \in Int /\ fires \in Int
    BY <2>2, <1>0, <1>T
  <2>4. /\ timers' = [timers EXCEPT ![id] = Running(created, fires, t.duration)]
        /\ Arm({id}, id, fires, k)
        /\ UNCHANGED <<locked, now, skew, steps>>
    BY <1>5 DEF Resume
  <2> HIDE DEF created, fires
  <2> QED BY <2>1, <2>2, <2>3, <2>4, Rearming DEF StoreInv, TypeOK
<1>6. ASSUME NEW id \in Ids, NEW k \in Tasks, Restart(id, k)
      PROVE  StoreInv'
  <2> DEFINE d == timers[id].duration
             fires == Wall + Ticks(d)
  <2>1. timers[id] # NoTimer
    BY <1>6 DEF Restart, Active
  <2>2. d \in Int /\ fires \in Int
    BY <2>1, PresentTimer, <1>0, <1>T DEF StoreInv
  <2>3. /\ timers' = [timers EXCEPT ![id] = Running(Wall, fires, d)]
        /\ Arm({id}, id, fires, k)
        /\ UNCHANGED <<locked, now, skew, steps>>
    BY <1>6 DEF Restart
  <2> HIDE DEF d, fires
  <2> QED BY <2>1, <2>2, <2>3, <1>0, Rearming DEF StoreInv, TypeOK
<1>7. ASSUME NEW id \in Ids, Delete(id)
      PROVE  StoreInv'
  <2>1. /\ timers' = [timers EXCEPT ![id] = NoTimer]
        /\ tasks' = DisarmedTasks({id}) /\ sleepers' = DisarmedSleepers({id})
        /\ UNCHANGED <<locked, now, skew, steps>>
    BY <1>7 DEF Delete
  <2>2. /\ timers' \in [Ids -> Timer \cup {NoTimer}] /\ ~InState(id, "running")'
        /\ timers'[id] = NoTimer
        /\ \A i \in Ids \ {id} : timers'[i] = timers[i]
    BY <2>1 DEF StoreInv, TypeOK, InState
  <2>3. /\ tasks' \in [Ids -> Tasks \cup {NoTask}]
        /\ sleepers' \in [Tasks -> Sleeper \cup {Free}]
        /\ ArmedIffRunning'
    BY <2>1, <2>2, Disarming DEF StoreInv
  <2>4. AtMostOneTimer'
    BY <2>2 DEF StoreInv, AtMostOneTimer
  <2> QED BY <2>1, <2>2, <2>3, <2>4 DEF StoreInv, TypeOK
<1>8. ASSUME NEW k \in Tasks, Wake(k)
      PROVE  StoreInv'
  <2> DEFINE id == sleepers[k].timer
  <2>1. /\ sleepers[k] \in Sleeper /\ id \in Ids /\ tasks[id] = k
    BY <1>8 DEF Wake, StoreInv, TypeOK, ArmedIffRunning, Sleeper
  <2>2. InState(id, "running")
    BY <2>1, TimersAssumption DEF StoreInv, ArmedIffRunning
  <2>3. /\ timers' = [timers EXCEPT ![id].state = "fired"]
        /\ tasks' = [tasks EXCEPT ![id] = NoTask]
        /\ sleepers' = [sleepers EXCEPT ![k] = Free]
        /\ UNCHANGED <<locked, now, skew, steps>>
    BY <1>8, <2>2 DEF Wake
  <2> HIDE DEF id
  <2>4. timers[id] \in Timer /\ timers[id] # NoTimer
    BY <2>1, <2>2, PresentTimer DEF StoreInv, InState
  <2>5. /\ timers'[id] \in Timer /\ timers'[id].state = "fired" /\ timers'[id] # NoTimer
        /\ \A i \in Ids \ {id} : timers'[i] = timers[i]
        /\ timers' \in [Ids -> Timer \cup {NoTimer}]
    <3>1. timers'[id] = [timers[id] EXCEPT !.state = "fired"]
      BY <2>1, <2>3 DEF StoreInv, TypeOK
    <3>2. [timers[id] EXCEPT !.state = "fired"] \in Timer
          /\ [timers[id] EXCEPT !.state = "fired"].state = "fired"
      BY <2>4 DEF Timer
    <3>3. timers'[id] # NoTimer
      BY <3>1, <3>2, TimerIsPresent
    <3>4. timers' \in [Ids -> Timer \cup {NoTimer}]
      BY <2>1, <2>3, <3>1, <3>2 DEF StoreInv, TypeOK
    <3> QED BY <3>1, <3>2, <3>3, <3>4, <2>1, <2>3 DEF StoreInv, TypeOK
  <2>6. /\ tasks' \in [Ids -> Tasks \cup {NoTask}]
        /\ sleepers' \in [Tasks -> Sleeper \cup {Free}]
    BY <2>1, <2>3 DEF StoreInv, TypeOK
  <2>7. /\ tasks'[id] = NoTask /\ \A i \in Ids \ {id} : tasks'[i] = tasks[i]
        /\ sleepers'[k] = Free /\ \A j \in Tasks \ {k} : sleepers'[j] = sleepers[j]
    BY <2>1, <2>3 DEF StoreInv, TypeOK
  <2>8. ASSUME NEW i \in Ids
        PROVE  IF InState(i, "running")'
               THEN /\ tasks'[i] # NoTask
                    /\ sleepers'[tasks'[i]] # Free
                    /\ sleepers'[tasks'[i]].phase = "asleep"
                    /\ sleepers'[tasks'[i]].timer = i
               ELSE tasks'[i] = NoTask
    <3>1. CASE i = id
      BY <3>1, <2>5, <2>7 DEF InState
    <3>2. CASE i # id
      <4>1. ~InState(i, "running")
        BY <3>2, <2>1, <2>2 DEF StoreInv, AtMostOneTimer, InState
      <4>2. ~InState(i, "running")' /\ tasks'[i] = tasks[i]
        BY <4>1, <3>2, <2>5, <2>7 DEF InState
      <4> QED BY <4>1, <4>2 DEF StoreInv, ArmedIffRunning
    <3> QED BY <3>1, <3>2
  <2>9. ASSUME NEW j \in Tasks, sleepers'[j] # Free, sleepers'[j].phase = "asleep"
        PROVE  tasks'[sleepers'[j].timer] = j
    <3>1. j # k /\ sleepers'[j] = sleepers[j]
      BY <2>9, <2>7
    <3>2. sleepers[j].timer \in Ids /\ tasks[sleepers[j].timer] = j
      BY <3>1, <2>9 DEF StoreInv, TypeOK, ArmedIffRunning, Sleeper
    <3> QED BY <3>1, <3>2, <2>1, <2>7
  <2>10. AtMostOneTimer'
    BY <2>4, <2>5 DEF StoreInv, AtMostOneTimer
  <2> QED BY <2>3, <2>5, <2>6, <2>8, <2>9, <2>10 DEF StoreInv, TypeOK, ArmedIffRunning
<1>9. ASSUME NEW k \in Tasks, Unwind(k)
      PROVE  StoreInv'
  <2>1. /\ sleepers' = [sleepers EXCEPT ![k] = Free]
        /\ UNCHANGED <<timers, tasks, locked, now, skew, steps>>
        /\ sleepers[k] # Free /\ sleepers[k].phase = "cancelled"
    BY <1>9 DEF Unwind
  <2>2. /\ sleepers' \in [Tasks -> Sleeper \cup {Free}]
        /\ sleepers'[k] = Free /\ \A j \in Tasks \ {k} : sleepers'[j] = sleepers[j]
    BY <2>1 DEF StoreInv, TypeOK
  <2>3. ArmedIffRunning'
    <3>1. \A i \in Ids : InState(i, "running")' <=> InState(i, "running")
      BY <2>1 DEF InState
    <3>2. \A i \in Ids : InState(i, "running") => tasks[i] # k /\ tasks[i] \in Tasks
      BY <2>1 DEF StoreInv, TypeOK, ArmedIffRunning
    <3> QED BY <2>1, <2>2, <3>1, <3>2 DEF StoreInv, ArmedIffRunning
  <2>4. AtMostOneTimer'
    BY <2>1 DEF StoreInv, AtMostOneTimer
  <2> QED BY <2>1, <2>2, <2>3, <2>4 DEF StoreInv, TypeOK
<1>10. BackendRestart => StoreInv'
  <2> SUFFICES ASSUME BackendRestart PROVE StoreInv'
    OBVIOUS
  <2>1. TypeOK'
    BY DEF BackendRestart, StoreInv, TypeOK
  <2>2. ArmedIffRunning' /\ AtMostOneTimer'
    BY DEF BackendRestart, ArmedIffRunning, AtMostOneTimer, InState
  <2> QED BY <2>1, <2>2 DEF StoreInv
<1>11. FlipLock => StoreInv'
  BY DEF FlipLock, StoreInv, TypeOK, ArmedIffRunning, AtMostOneTimer, InState
<1>12. Tick => StoreInv'
  BY DEF Tick, StoreInv, TypeOK, ArmedIffRunning, AtMostOneTimer, InState
<1>13. ASSUME NEW d \in ClockSteps, StepWallClock(d)
       PROVE  StoreInv'
  BY <1>13 DEF StepWallClock, StoreInv, TypeOK, ArmedIffRunning, AtMostOneTimer, InState
<1> QED
  <2> HIDE DEF TimersAssumption
  <2> QED BY <1>1, <1>2, <1>3, <1>4, <1>5, <1>6, <1>7, <1>8, <1>9, <1>10, <1>11,
             <1>12, <1>13 DEF Next, Household, EventLoop, Environment

LEMMA StoreInvAlways == Spec => []StoreInv
<1>1. StoreInv /\ UNCHANGED vars => StoreInv'
  BY DEF StoreInv, TypeOK, ArmedIffRunning, AtMostOneTimer, InState, vars
<1> QED BY <1>1, StoreInvInit, StoreInvStep, PTL DEF Spec

\* The store's state is well-typed, for every household.
THEOREM TypeCorrect == Spec => []TypeOK
  BY StoreInvAlways, PTL DEF StoreInv

\* There is never a second timer.
THEOREM OneTimer == Spec => []AtMostOneTimer
  BY StoreInvAlways, PTL DEF StoreInv

\* Every running timer has its own live task, and no other task can ring.
THEOREM EveryTimerArmed == Spec => []ArmedIffRunning
  BY StoreInvAlways, PTL DEF StoreInv

-----------------------------------------------------------------------------
\* The validator's conditions, for one timer.
Acceptable(t) ==
  LET drift == t.fires - (t.created + Ticks(t.duration))
  IN  /\ InCap(t.duration)
      /\ t.fires > t.created
      /\ -TicksPerSecond <= drift /\ drift <= TicksPerSecond
      /\ IF t.state = "paused"
         THEN MinSeconds <= t.remaining /\ t.remaining <= t.duration
         ELSE t.remaining = 0

LEMMA AcceptableRunning ==
  ASSUME NEW c \in Int, NEW f \in Int, NEW d \in Int,
         InCap(d), f > c,
         -TicksPerSecond <= f - (c + Ticks(d)), f - (c + Ticks(d)) <= TicksPerSecond
  PROVE  Acceptable(Running(c, f, d))
  BY DEF Acceptable, Running

LEMMA AcceptablePaused ==
  ASSUME NEW c \in Int, NEW f \in Int, NEW d \in Int, NEW r \in Int,
         InCap(d), f > c, MinSeconds <= r, r <= d,
         -TicksPerSecond <= f - (c + Ticks(d)), f - (c + Ticks(d)) <= TicksPerSecond
  PROVE  Acceptable(Paused(c, f, d, r))
  BY DEF Acceptable, Paused

\* Most handlers replace one timer and leave or remove the others.
LEMMA AcceptableStep ==
  ASSUME ValidatorAccepts, NEW id \in Ids,
         timers'[id] # NoTimer => Acceptable(timers'[id]),
         \A t \in Ids \ {id} : timers'[t] = timers[t] \/ timers'[t] = NoTimer
  PROVE  ValidatorAccepts'
<1> SUFFICES ASSUME NEW t \in Ids, timers'[t] # NoTimer
             PROVE  Acceptable(timers'[t])
  BY DEF ValidatorAccepts, Acceptable, Active
<1>1. CASE t = id
  BY <1>1
<1>2. CASE t # id
  BY <1>2 DEF ValidatorAccepts, Acceptable, Active
<1> QED BY <1>1, <1>2

LEMMA ValidatorStep == StoreInv /\ ValidatorAccepts /\ Next => ValidatorAccepts'
<1> SUFFICES ASSUME StoreInv, ValidatorAccepts, Next PROVE ValidatorAccepts'
  OBVIOUS
<1> USE TimersAssumption DEF TimersAssumption
<1>0. Wall \in Int
  BY DEF StoreInv, TypeOK, Wall
<1>P. ASSUME NEW id \in Ids, timers[id] # NoTimer
      PROVE  /\ Acceptable(timers[id])
             /\ timers[id] \in Timer
             /\ timers[id].created \in Int /\ timers[id].fires \in Int
             /\ timers[id].duration \in Int /\ timers[id].remaining \in Int
  BY <1>P, PresentTimer DEF ValidatorAccepts, Acceptable, Active, StoreInv
<1>F. ASSUME NEW d \in Int, InCap(d)
      PROVE  Acceptable(Running(Wall, Wall + Ticks(d), d))
  <2>1. Ticks(d) \in Int /\ Ticks(d) > 0
    BY <1>F, TicksLinear DEF InCap
  <2>2. Wall + Ticks(d) \in Int /\ Wall + Ticks(d) > Wall
        /\ (Wall + Ticks(d)) - (Wall + Ticks(d)) = 0
    BY <2>1, <1>0
  <2> QED BY <2>2, <1>0, <1>F, AcceptableRunning
<1>1. ASSUME NEW id \in Ids, NEW s \in Durations, NEW k \in Tasks, Create(id, s, k)
      PROVE  ValidatorAccepts'
  <2>1. timers'[id] = Running(Wall, Wall + Ticks(s), s)
        /\ \A t \in Ids \ {id} : timers'[t] = timers[t] \/ timers'[t] = NoTimer
    BY <1>1 DEF Create
  <2>2. Acceptable(timers'[id])
    BY <1>1, <2>1, <1>F DEF Create
  <2> QED BY <2>1, <2>2, AcceptableStep
<1>2. ASSUME NEW id \in Ids, NEW s \in AddSeconds, ExtendPaused(id, s)
      PROVE  ValidatorAccepts'
  <2> DEFINE r == timers[id].remaining + s
  <2>1. timers[id] # NoTimer /\ InCap(r)
        /\ timers' = [timers EXCEPT ![id] = Paused(Wall, Wall + Ticks(r), r, r)]
    BY <1>2 DEF ExtendPaused, InState
  <2>2. r \in Int
    BY <2>1, <1>P
  <2> HIDE DEF r
  <2>3. Ticks(r) \in Int /\ Ticks(r) > 0
    BY <2>1, <2>2, CapTicks
  <2>4. /\ Wall + Ticks(r) \in Int /\ Wall + Ticks(r) > Wall
        /\ (Wall + Ticks(r)) - (Wall + Ticks(r)) = 0
        /\ MinSeconds <= r
    BY <2>1, <2>2, <2>3, <1>0 DEF InCap
  <2>5. Acceptable(Paused(Wall, Wall + Ticks(r), r, r))
    BY <2>1, <2>2, <2>4, <1>0, AcceptablePaused
  <2> QED BY <2>1, <2>5, AcceptableStep DEF StoreInv, TypeOK
<1>3. ASSUME NEW id \in Ids, NEW s \in AddSeconds, NEW k \in Tasks, ExtendCounting(id, s, k)
      PROVE  ValidatorAccepts'
  <2> DEFINE base == IF InState(id, "running") THEN timers[id].fires ELSE Wall
             fires == base + Ticks(s)
             d == Round(fires - Wall)
  <2>1. timers[id] # NoTimer /\ InCap(d)
        /\ timers' = [timers EXCEPT ![id] = Running(Wall, fires, d)]
    BY <1>3 DEF ExtendCounting, InState
  <2>2. fires \in Int /\ fires - Wall \in Int
    <3>1. base \in Int
      BY <2>1, <1>0, <1>P
    <3>2. Ticks(s) \in Int
      BY TicksLinear
    <3> HIDE DEF base
    <3> QED BY <3>1, <3>2, <1>0
  <2> HIDE DEF fires
  <2>3. d \in Int /\ Ticks(d) \in Int /\ Ticks(d) > 0
    <3>1. d \in Int
      BY <2>2, RoundType
    <3> HIDE DEF d
    <3> QED BY <2>1, <3>1, CapTicks
  <2>4. /\ -TicksPerSecond <= (fires - Wall) - Ticks(d)
        /\ (fires - Wall) - Ticks(d) <= TicksPerSecond
    BY <2>2, RoundClose
  <2>5. fires > Wall
    <3>1. fires - Wall <= 0 => d <= 0
      <4> DEFINE t == fires - Wall
                 q == t \div TicksPerSecond
                 r == t % TicksPerSecond
      <4>1. q \in Int /\ r \in Int /\ t = TicksPerSecond * q + r /\ 0 <= r
            /\ r < TicksPerSecond
        BY <2>2
      <4>2. d = (IF 2 * r < TicksPerSecond \/ (2 * r = TicksPerSecond /\ q % 2 = 0)
                 THEN q ELSE q + 1)
        BY DEF Round
      <4> HIDE DEF q, r, d
      <4>3. ASSUME t <= 0 PROVE q <= 0 /\ (q = 0 => r = 0)
        BY <4>1, <4>3
      <4>4. ASSUME t <= 0 PROVE d <= 0
        BY <4>1, <4>2, <4>3, <4>4
      <4> QED BY <4>4
    <3>2. d >= 1
      BY <2>1, <2>3 DEF InCap
    <3> HIDE DEF d
    <3> QED BY <3>1, <3>2, <2>2, <2>3, <1>0
  <2> HIDE DEF d
  <2>6. fires - (Wall + Ticks(d)) = (fires - Wall) - Ticks(d)
    BY <2>2, <2>3, <1>0
  <2>7. Acceptable(Running(Wall, fires, d))
    BY <2>1, <2>2, <2>3, <2>4, <2>5, <2>6, <1>0, AcceptableRunning
  <2> QED BY <2>1, <2>7, AcceptableStep DEF StoreInv, TypeOK
<1>4. ASSUME NEW id \in Ids, Pause(id)
      PROVE  ValidatorAccepts'
  <2> DEFINE t == timers[id]
             r == RemainingAtPause(t)
  <2>1. t # NoTimer /\ timers' = [timers EXCEPT ![id] = Paused(t.created, t.fires, t.duration, r)]
    BY <1>4 DEF Pause, InState
  <2>2. Round(t.fires - Wall) \in Int
    BY <2>1, <1>0, <1>P, RoundType
  <2>3. r \in Int /\ MinSeconds <= r /\ r <= t.duration
    BY <2>1, <2>2, <1>P DEF RemainingAtPause, Larger, Smaller, Acceptable, InCap
  <2>4. Acceptable(Paused(t.created, t.fires, t.duration, r))
    <3>1. /\ t.created \in Int /\ t.fires \in Int /\ t.duration \in Int
          /\ Acceptable(t)
      BY <2>1, <1>P
    <3>2. /\ InCap(t.duration) /\ t.fires > t.created
          /\ -TicksPerSecond <= t.fires - (t.created + Ticks(t.duration))
          /\ t.fires - (t.created + Ticks(t.duration)) <= TicksPerSecond
      BY <3>1 DEF Acceptable
    <3> HIDE DEF r, t
    <3> QED BY <2>3, <3>1, <3>2, AcceptablePaused
  <2> QED BY <2>1, <2>4, AcceptableStep DEF StoreInv, TypeOK
<1>5. ASSUME NEW id \in Ids, NEW k \in Tasks, Resume(id, k)
      PROVE  ValidatorAccepts'
  <2> DEFINE t == timers[id]
             r == t.remaining
             created == Wall - Ticks(t.duration - r)
             fires == Wall + Ticks(r)
  <2>1. t # NoTimer /\ t.state = "paused"
    BY <1>5 DEF Resume, InState
  <2>2. t.duration \in Int /\ r \in Int /\ InCap(t.duration) /\ 1 <= r /\ r <= t.duration
    BY <2>1, <1>P DEF Acceptable
  <2>3. timers' = [timers EXCEPT ![id] = Running(created, fires, t.duration)]
    <3>1. r # 0
      BY <2>2
    <3> QED BY <1>5, <3>1 DEF Resume
  <2>4. /\ Ticks(r) \in Int /\ Ticks(r) > 0 /\ Ticks(t.duration) \in Int
        /\ Ticks(t.duration - r) = Ticks(t.duration) - Ticks(r)
    <3> HIDE DEF r, t
    <3> QED BY <2>2, TicksLinear
  <2>5. /\ created \in Int /\ fires \in Int /\ fires > created
        /\ fires - (created + Ticks(t.duration)) = 0
    <3>1. Ticks(t.duration) > 0
      BY <2>2, CapTicks
    <3> HIDE DEF r, t
    <3> QED BY <2>4, <3>1, <1>0
  <2> HIDE DEF created, fires
  <2>6. Acceptable(Running(created, fires, t.duration))
    BY <2>2, <2>5, AcceptableRunning
  <2> QED BY <2>3, <2>6, AcceptableStep DEF StoreInv, TypeOK
<1>6. ASSUME NEW id \in Ids, NEW k \in Tasks, Restart(id, k)
      PROVE  ValidatorAccepts'
  <2> DEFINE d == timers[id].duration
  <2>1. timers[id] # NoTimer /\ timers' = [timers EXCEPT ![id] = Running(Wall, Wall + Ticks(d), d)]
    BY <1>6 DEF Restart, Active
  <2>2. d \in Int /\ InCap(d)
    BY <2>1, <1>P DEF Acceptable
  <2>3. Acceptable(Running(Wall, Wall + Ticks(d), d))
    BY <2>2, <1>F
  <2> QED BY <2>1, <2>3, AcceptableStep DEF StoreInv, TypeOK
<1>7. ASSUME NEW id \in Ids, Delete(id)
      PROVE  ValidatorAccepts'
  <2>1. timers' = [timers EXCEPT ![id] = NoTimer]
    BY <1>7 DEF Delete
  <2> QED BY <2>1, AcceptableStep DEF StoreInv, TypeOK
<1>8. ASSUME NEW k \in Tasks, Wake(k)
      PROVE  ValidatorAccepts'
  <2> DEFINE id == sleepers[k].timer
  <2>1. id \in Ids
    BY <1>8 DEF Wake, StoreInv, TypeOK, Sleeper
  <2>2. CASE InState(id, "running")
    <3>1. timers[id] # NoTimer /\ timers[id].state = "running"
          /\ timers' = [timers EXCEPT ![id].state = "fired"]
      BY <1>8, <2>2 DEF Wake, InState
    <3>2. timers[id] \in Timer /\ Acceptable(timers[id])
      BY <2>1, <3>1, <1>P
    <3>3. Acceptable([timers[id] EXCEPT !.state = "fired"])
      BY <3>1, <3>2 DEF Acceptable, Timer
    <3> QED BY <2>1, <3>1, <3>3, AcceptableStep DEF StoreInv, TypeOK
  <2>3. CASE ~InState(id, "running")
    BY <1>8, <2>3 DEF Wake, ValidatorAccepts, Active
  <2> QED BY <2>2, <2>3
<1>9. ASSUME NEW k \in Tasks, Unwind(k)
      PROVE  ValidatorAccepts'
  BY <1>9 DEF Unwind, ValidatorAccepts, Active
<1>10. BackendRestart => ValidatorAccepts'
  BY DEF BackendRestart, ValidatorAccepts, Active
<1>11. FlipLock \/ Tick => ValidatorAccepts'
  BY DEF FlipLock, Tick, ValidatorAccepts, Active
<1>12. ASSUME NEW d \in ClockSteps, StepWallClock(d)
       PROVE  ValidatorAccepts'
  BY <1>12 DEF StepWallClock, ValidatorAccepts, Active
<1> QED
  <2> HIDE DEF TimersAssumption
  <2> QED BY <1>1, <1>2, <1>3, <1>4, <1>5, <1>6, <1>7, <1>8, <1>9, <1>10, <1>11,
             <1>12 DEF Next, Household, EventLoop, Environment

\* No sequence of operations, and no step of the wall clock, builds a timer
\* the model's validator would refuse.
THEOREM NoHandlerFailsHalfway == Spec => []ValidatorAccepts
<1>1. Init => ValidatorAccepts
  BY DEF Init, ValidatorAccepts, Active
<1>2. ValidatorAccepts /\ UNCHANGED vars => ValidatorAccepts'
  BY DEF ValidatorAccepts, Active, vars
<1> QED BY <1>1, <1>2, ValidatorStep, StoreInvAlways, PTL DEF Spec

-----------------------------------------------------------------------------
(***************************************************************************)
(* The alarm and the face.  A handler that arms a timer computes how long  *)
(* to sleep from fires_at and the wall clock; while that clock has never   *)
(* been stepped, the sleep ends at fires_at exactly, because no handler    *)
(* arms a timer whose time is already up.                                  *)
(***************************************************************************)
StoreAccepted == StoreInv /\ ValidatorAccepts

LEMMA StoreAcceptedAlways == Spec => []StoreAccepted
BY StoreInvAlways, NoHandlerFailsHalfway, PTL DEF StoreAccepted

LEMMA StoreAcceptedStep == StoreAccepted /\ Next => StoreAccepted'
BY StoreInvStep, ValidatorStep DEF StoreAccepted

\* A second is a positive number of ticks, and more seconds are more ticks.
LEMMA TicksMonotone == \A a, b \in Int : a <= b => Ticks(a) <= Ticks(b)
<1> SUFFICES ASSUME NEW a \in Int, NEW b \in Int, a <= b PROVE Ticks(a) <= Ticks(b)
  OBVIOUS
<1>1. Ticks(b - a) = Ticks(b) - Ticks(a) /\ Ticks(a) \in Int /\ Ticks(b) \in Int
  BY TicksLinear
<1>2. CASE a = b
  BY <1>1, <1>2
<1>3. CASE a # b
  <2>1. b - a >= 1 /\ b - a \in Int
    BY <1>3
  <2>2. Ticks(b - a) > 0
    BY <2>1, TicksLinear
  <2> QED
    BY <1>1, <2>2
<1> QED
  BY <1>2, <1>3

\* What rounds to a second or more is not over.
LEMMA RoundPositive == \A t \in Int : Round(t) >= 1 => t > 0
<1> SUFFICES ASSUME NEW t \in Int, t <= 0 PROVE Round(t) <= 0
  BY RoundType
<1> DEFINE q == t \div TicksPerSecond
           r == t % TicksPerSecond
<1> USE TimersAssumption DEF TimersAssumption
<1>1. q \in Int /\ r \in Int /\ t = TicksPerSecond * q + r /\ 0 <= r /\ r < TicksPerSecond
  OBVIOUS
<1>2. Round(t) = (IF 2 * r < TicksPerSecond \/ (2 * r = TicksPerSecond /\ q % 2 = 0)
                  THEN q ELSE q + 1)
  BY DEF Round
<1> HIDE DEF q, r
<1>3. q <= 0 /\ (q = 0 => r = 0)
  BY <1>1
<1> QED
  BY <1>1, <1>2, <1>3

\* The new alarm of a timer that is armed anew is the only one there is.
LEMMA ArmedAnew ==
  ASSUME StoreInv, NEW S \in SUBSET Ids, NEW id \in S, NEW k \in Tasks, NEW f \in Int, f > Wall,
         Arm(S, id, f, k)
  PROVE  /\ tasks'[id] = k /\ sleepers'[k].wake = now + (f - Wall)
<1>1. /\ tasks' = [DisarmedTasks(S) EXCEPT ![id] = k]
      /\ sleepers' = [DisarmedSleepers(S) EXCEPT
                        ![k] = [phase |-> "asleep", timer |-> id,
                                wake |-> now + Larger(0, f - Wall)]]
  BY DEF Arm
<1>2. tasks'[id] = k
  BY <1>1 DEF DisarmedTasks
<1>3. sleepers'[k] = [phase |-> "asleep", timer |-> id, wake |-> now + Larger(0, f - Wall)]
  BY <1>1 DEF DisarmedSleepers
<1>4. Larger(0, f - Wall) = f - Wall
  BY DEF Larger, StoreInv, TypeOK, Wall
<1> QED
  BY <1>2, <1>3, <1>4

\* What the four handlers that arm a timer leave in the store.
ArmedTo(id, c, f, d) ==
  /\ timers'[id] = Running(c, f, d) /\ f > Wall
  /\ tasks'[id] \in Tasks /\ sleepers'[tasks'[id]].wake = now + (f - Wall)
  /\ UNCHANGED <<locked, now, skew, steps>>

LEMMA CreateArms ==
  ASSUME StoreAccepted, NEW id \in Ids, NEW s \in Durations, NEW k \in Tasks, Create(id, s, k)
  PROVE  ArmedTo(id, Wall, Wall + Ticks(s), s) /\ Ticks(s) \in Int /\ Wall \in Int
<1>1. PICK retired \in Retirable :
        /\ timers' = [t \in Ids |->
                        IF t = id THEN Running(Wall, Wall + Ticks(s), s)
                        ELSE IF t \in retired THEN NoTimer ELSE timers[t]]
        /\ Arm(retired \cup {id}, id, Wall + Ticks(s), k)
  BY DEF Create
<1>2. retired \cup {id} \in SUBSET Ids
  BY DEF Retirable, Active
<1>3. s \in Int /\ Wall \in Int
  BY TimersAssumption DEF StoreAccepted, StoreInv, TypeOK, Wall
<1>4. Ticks(s) > 0 /\ Ticks(s) \in Int
  BY <1>3, CapTicks DEF Create
<1>5. Wall + Ticks(s) \in Int /\ Wall + Ticks(s) > Wall
  BY <1>3, <1>4
<1>6. tasks'[id] = k /\ sleepers'[k].wake = now + ((Wall + Ticks(s)) - Wall)
  <2> DEFINE f == Wall + Ticks(s)
             S == retired \cup {id}
  <2>1. S \in SUBSET Ids /\ id \in S /\ f \in Int /\ f > Wall /\ Arm(S, id, f, k)
    BY <1>1, <1>2, <1>5
  <2> HIDE DEF f, S
  <2>2. tasks'[id] = k /\ sleepers'[k].wake = now + (f - Wall)
    BY <2>1, ArmedAnew DEF StoreAccepted
  <2> USE DEF f
  <2> QED
    BY <2>2
<1> QED
  BY <1>1, <1>3, <1>4, <1>5, <1>6 DEF ArmedTo, Create

\* A timer that is extended, resumed or restarted.
LEMMA Rearms ==
  ASSUME StoreAccepted, NEW id \in Ids, NEW k \in Tasks, NEW c \in Int, NEW f \in Int, NEW d \in Int,
         timers' = [timers EXCEPT ![id] = Running(c, f, d)], f > Wall,
         Arm({id}, id, f, k), UNCHANGED <<locked, now, skew, steps>>
  PROVE  ArmedTo(id, c, f, d)
<1>1. timers'[id] = Running(c, f, d)
  BY DEF StoreAccepted, StoreInv, TypeOK
<1>2. tasks'[id] = k /\ sleepers'[k].wake = now + (f - Wall)
  BY ArmedAnew DEF StoreAccepted
<1> QED
  BY <1>1, <1>2 DEF ArmedTo

\* A timer that is there is well typed and passes the validator.
LEMMA PresentAccepted ==
  ASSUME StoreAccepted, NEW id \in Ids, timers[id] # NoTimer
  PROVE  /\ Acceptable(timers[id]) /\ timers[id] \in Timer
         /\ timers[id].created \in Int /\ timers[id].fires \in Int
         /\ timers[id].duration \in Int /\ timers[id].remaining \in Int
         /\ InCap(timers[id].duration) /\ Wall \in Int
<1>1. timers[id] \in Timer
  BY PresentTimer DEF StoreAccepted, StoreInv
<1>2. Acceptable(timers[id])
  BY DEF StoreAccepted, ValidatorAccepts, Acceptable, Active
<1>3. InCap(timers[id].duration)
  BY <1>2 DEF Acceptable
<1>4. Wall \in Int
  BY DEF StoreAccepted, StoreInv, TypeOK, Wall
<1> QED
  BY <1>1, <1>2, <1>3, <1>4 DEF Timer

ExtendedTo(id, s) == (IF InState(id, "running") THEN timers[id].fires ELSE Wall) + Ticks(s)

LEMMA ExtendArms ==
  ASSUME StoreAccepted, NEW id \in Ids, NEW s \in AddSeconds, NEW k \in Tasks, ExtendCounting(id, s, k)
  PROVE  /\ ArmedTo(id, Wall, ExtendedTo(id, s), Round(ExtendedTo(id, s) - Wall))
         /\ ExtendedTo(id, s) \in Int /\ Round(ExtendedTo(id, s) - Wall) \in Int
         /\ InCap(Round(ExtendedTo(id, s) - Wall)) /\ Wall \in Int /\ timers[id] # NoTimer
<1>1. timers[id] # NoTimer
  BY DEF ExtendCounting, InState
<1>2. Wall \in Int /\ timers[id].fires \in Int
  BY <1>1, PresentAccepted
<1>3. s \in Int /\ Ticks(s) \in Int
  BY TimersAssumption, TicksLinear
<1>4. ExtendedTo(id, s) \in Int
  BY <1>2, <1>3 DEF ExtendedTo
<1> DEFINE f == ExtendedTo(id, s)
           d == Round(f - Wall)
<1>5. /\ InCap(d) /\ timers' = [timers EXCEPT ![id] = Running(Wall, f, d)]
      /\ Arm({id}, id, f, k) /\ UNCHANGED <<locked, now, skew, steps>>
  BY DEF ExtendCounting, ExtendedTo
<1>6. f \in Int
  BY <1>4
<1> HIDE DEF f
<1>7. d \in Int /\ f - Wall \in Int
  BY <1>2, <1>6, RoundType
<1>8. d >= 1
  <2> HIDE DEF d
  <2> QED
    BY <1>5, <1>7, TimersAssumption DEF InCap
<1>9. f > Wall
  BY <1>2, <1>6, <1>7, <1>8, RoundPositive
<1> HIDE DEF d
<1>10. ArmedTo(id, Wall, f, d)
  BY <1>2, <1>5, <1>6, <1>7, <1>9, Rearms
<1> QED
  BY <1>1, <1>2, <1>5, <1>6, <1>7, <1>10 DEF d, f

LEMMA ResumeArms ==
  ASSUME StoreAccepted, NEW id \in Ids, NEW k \in Tasks, Resume(id, k)
  PROVE  /\ \E c \in Int : ArmedTo(id, c, Wall + Ticks(timers[id].remaining), timers[id].duration)
         /\ Wall \in Int /\ timers[id] # NoTimer /\ timers[id].state = "paused"
         /\ Ticks(timers[id].remaining) \in Int
<1> DEFINE t == timers[id]
           r == t.remaining
           c == Wall - Ticks(t.duration - r)
           f == Wall + Ticks(r)
<1>1. t # NoTimer /\ t.state = "paused"
  BY DEF Resume, InState
<1>2. /\ t.duration \in Int /\ r \in Int /\ Wall \in Int /\ MinSeconds <= r
  BY <1>1, PresentAccepted DEF Acceptable
<1>3. r >= 1
  BY <1>2, TimersAssumption
<1>4. /\ timers' = [timers EXCEPT ![id] = Running(c, f, t.duration)]
      /\ Arm({id}, id, f, k) /\ UNCHANGED <<locked, now, skew, steps>>
  <2>1. r # 0
    BY <1>2, <1>3
  <2> QED
    BY <2>1 DEF Resume
<1>5. Ticks(r) \in Int /\ Ticks(r) > 0 /\ Ticks(t.duration - r) \in Int
  <2>1. t.duration - r \in Int
    BY <1>2
  <2> HIDE DEF t, r
  <2> QED
    BY <1>2, <1>3, <2>1, TicksLinear
<1>6. c \in Int /\ f \in Int /\ f > Wall
  <2> HIDE DEF t, r
  <2> QED
    BY <1>2, <1>5
<1> HIDE DEF c, f
<1>7. ArmedTo(id, c, f, t.duration)
  <2> HIDE DEF t
  <2> QED
    BY <1>2, <1>4, <1>6, Rearms
<1> QED
  BY <1>1, <1>2, <1>5, <1>6, <1>7 DEF f

LEMMA RestartArms ==
  ASSUME StoreAccepted, NEW id \in Ids, NEW k \in Tasks, Restart(id, k)
  PROVE  /\ ArmedTo(id, Wall, Wall + Ticks(timers[id].duration), timers[id].duration)
         /\ Wall \in Int /\ timers[id] # NoTimer /\ Ticks(timers[id].duration) \in Int
<1> DEFINE d == timers[id].duration
           f == Wall + Ticks(d)
<1>1. timers[id] # NoTimer
  BY DEF Restart, Active
<1>2. d \in Int /\ InCap(d) /\ Wall \in Int
  BY <1>1, PresentAccepted
<1>3. /\ timers' = [timers EXCEPT ![id] = Running(Wall, f, d)]
      /\ Arm({id}, id, f, k) /\ UNCHANGED <<locked, now, skew, steps>>
  BY DEF Restart
<1> HIDE DEF d
<1>4. Ticks(d) \in Int /\ Ticks(d) > 0
  BY <1>2, CapTicks
<1>5. f \in Int /\ f > Wall
  BY <1>2, <1>4
<1> HIDE DEF f
<1>6. ArmedTo(id, Wall, f, d)
  BY <1>2, <1>3, <1>5, Rearms
<1> QED
  BY <1>1, <1>2, <1>4, <1>6 DEF f, d

RingsInv == (steps = 0 => skew = 0) /\ RingsWhenFaceShowsZero

\* After arming, the only timer rings when its face shows zero.
LEMMA RingsWhenArmed ==
  ASSUME StoreAccepted, StoreAccepted', RingsInv, NEW id \in Ids, NEW c \in Int, NEW f \in Int, NEW d \in Int,
         ArmedTo(id, c, f, d)
  PROVE  RingsInv'
<1>1. /\ timers'[id] = Running(c, f, d) /\ tasks'[id] \in Tasks
      /\ sleepers'[tasks'[id]].wake = now + (f - Wall) /\ skew' = skew /\ steps' = steps
      /\ now \in Nat /\ skew \in Int
  BY DEF ArmedTo, StoreAccepted, StoreInv, TypeOK
<1>2. timers'[id].fires = f /\ timers'[id] # NoTimer
  BY <1>1, RunningIsTimer, TimerIsPresent DEF Running
<1>3. \A i \in Ids : timers'[i] # NoTimer => i = id
  BY <1>2 DEF StoreAccepted, StoreInv, AtMostOneTimer
<1>4. steps' = 0 => sleepers'[tasks'[id]].wake = timers'[id].fires
  BY <1>1, <1>2 DEF RingsInv, Wall
<1> QED
  BY <1>1, <1>3, <1>4 DEF RingsInv, RingsWhenFaceShowsZero, InState

\* A handler or task that arms nothing leaves the alarms as they are.
LEMMA RingsElse ==
  ASSUME StoreAccepted, StoreAccepted', RingsInv, UNCHANGED <<skew, steps>>,
         \A i \in Ids : InState(i, "running")' =>
           /\ InState(i, "running") /\ timers'[i] = timers[i]
           /\ tasks'[i] = tasks[i] /\ sleepers'[tasks[i]].wake = sleepers[tasks[i]].wake
  PROVE  RingsInv'
BY DEF RingsInv, RingsWhenFaceShowsZero

LEMMA RingsStep == StoreAccepted /\ RingsInv /\ [Next]_vars => RingsInv'
<1> SUFFICES ASSUME StoreAccepted, RingsInv, [Next]_vars PROVE RingsInv'
  OBVIOUS
<1>1. CASE UNCHANGED vars
  BY <1>1 DEF vars, RingsInv, RingsWhenFaceShowsZero, InState
<1> SUFFICES ASSUME Next PROVE RingsInv'
  BY <1>1
<1>2. StoreAccepted'
  BY StoreAcceptedStep
<1>3. ASSUME NEW id \in Ids, NEW s \in Durations, NEW k \in Tasks, Create(id, s, k)
      PROVE  RingsInv'
  <2>1. ArmedTo(id, Wall, Wall + Ticks(s), s) /\ Wall \in Int /\ Wall + Ticks(s) \in Int /\ s \in Int
    BY <1>3, CreateArms, TimersAssumption
  <2> QED
    BY <1>2, <2>1, RingsWhenArmed
<1>4. ASSUME NEW id \in Ids, NEW s \in AddSeconds, ExtendPaused(id, s)
      PROVE  RingsInv'
  <2>1. /\ timers' = [timers EXCEPT ![id] =
                        Paused(Wall, Wall + Ticks(timers[id].remaining + s),
                               timers[id].remaining + s, timers[id].remaining + s)]
        /\ UNCHANGED <<tasks, sleepers, skew, steps>>
    BY <1>4 DEF ExtendPaused
  <2>2. \A i \in Ids : InState(i, "running")' => InState(i, "running") /\ timers'[i] = timers[i]
    BY <2>1 DEF InState, Paused, StoreAccepted, StoreInv, TypeOK
  <2> QED
    BY <1>2, <2>1, <2>2, RingsElse
<1>5. ASSUME NEW id \in Ids, NEW s \in AddSeconds, NEW k \in Tasks, ExtendCounting(id, s, k)
      PROVE  RingsInv'
  BY <1>2, <1>5, ExtendArms, RingsWhenArmed
<1>6. ASSUME NEW id \in Ids, Pause(id) \/ Delete(id)
      PROVE  RingsInv'
  <2>1. /\ \A i \in Ids \ {id} : timers'[i] = timers[i]
        /\ ~InState(id, "running")'
        /\ UNCHANGED <<skew, steps>>
    BY <1>6 DEF Pause, Delete, InState, Paused, StoreAccepted, StoreInv, TypeOK
  <2>2. timers[id] # NoTimer
    BY <1>6 DEF Pause, Delete, InState, Active
  <2>3. \A i \in Ids \ {id} : timers[i] = NoTimer
    BY <2>2 DEF StoreAccepted, StoreInv, AtMostOneTimer
  <2>4. \A i \in Ids : ~InState(i, "running")'
    BY <2>1, <2>3 DEF InState
  <2> QED
    BY <1>2, <2>1, <2>4, RingsElse
<1>7. ASSUME NEW id \in Ids, NEW k \in Tasks, Resume(id, k)
      PROVE  RingsInv'
  <2>1. PICK c \in Int : ArmedTo(id, c, Wall + Ticks(timers[id].remaining), timers[id].duration)
    BY <1>7, ResumeArms
  <2>2. Wall + Ticks(timers[id].remaining) \in Int /\ timers[id].duration \in Int
    BY <1>7, ResumeArms, PresentAccepted
  <2> QED
    BY <1>2, <2>1, <2>2, RingsWhenArmed
<1>8. ASSUME NEW id \in Ids, NEW k \in Tasks, Restart(id, k)
      PROVE  RingsInv'
  <2>1. /\ ArmedTo(id, Wall, Wall + Ticks(timers[id].duration), timers[id].duration)
        /\ Wall + Ticks(timers[id].duration) \in Int /\ timers[id].duration \in Int /\ Wall \in Int
    BY <1>8, RestartArms, PresentAccepted
  <2> QED
    BY <1>2, <2>1, RingsWhenArmed
<1>9. ASSUME NEW k \in Tasks, Wake(k) \/ Unwind(k)
      PROVE  RingsInv'
  <2>1. /\ sleepers' = [sleepers EXCEPT ![k] = Free] /\ UNCHANGED <<skew, steps>>
        /\ sleepers \in [Tasks -> Sleeper \cup {Free}] /\ timers \in [Ids -> Timer \cup {NoTimer}]
        /\ tasks \in [Ids -> Tasks \cup {NoTask}]
    BY <1>9 DEF Wake, Unwind, StoreAccepted, StoreInv, TypeOK
  <2>2. ASSUME NEW i \in Ids, InState(i, "running")'
        PROVE  InState(i, "running") /\ timers'[i] = timers[i] /\ tasks'[i] = tasks[i] /\ tasks[i] # k
    <3>1. CASE Unwind(k)
      <4>1. UNCHANGED <<timers, tasks>> /\ sleepers[k].phase = "cancelled"
        BY <3>1 DEF Unwind
      <4>2. InState(i, "running")
        BY <2>2, <4>1 DEF InState
      <4> QED
        BY <4>1, <4>2 DEF StoreAccepted, StoreInv, ArmedIffRunning
    <3>2. CASE Wake(k)
      <4> DEFINE j == sleepers[k].timer
      <4>1. /\ sleepers[k] # Free /\ sleepers[k].phase = "asleep" /\ j \in Ids /\ tasks[j] = k
            /\ InState(j, "running")
        <5>1. sleepers[k] # Free /\ sleepers[k].phase = "asleep"
          BY <3>2 DEF Wake
        <5>2. j \in Ids /\ tasks[j] = k
          BY <2>1, <5>1 DEF Sleeper, StoreAccepted, StoreInv, ArmedIffRunning
        <5> QED
          BY <5>1, <5>2, TimersAssumption DEF StoreAccepted, StoreInv, ArmedIffRunning
      <4>2. /\ timers' = [timers EXCEPT ![j].state = "fired"] /\ tasks' = [tasks EXCEPT ![j] = NoTask]
        BY <3>2, <4>1 DEF Wake
      <4> HIDE DEF j
      <4>3. timers'[j].state = "fired"
        BY <2>1, <4>1, <4>2 DEF InState, Timer
      <4>4. i # j
        BY <2>2, <4>3 DEF InState
      <4>5. timers'[i] = timers[i]
        BY <2>1, <4>2, <4>4
      <4> QED
        BY <2>2, <4>1, <4>4, <4>5 DEF InState, StoreAccepted, StoreInv, AtMostOneTimer
    <3> QED
      BY <1>9, <3>1, <3>2
  <2>3. ASSUME NEW i \in Ids, InState(i, "running")'
        PROVE  sleepers'[tasks[i]].wake = sleepers[tasks[i]].wake
    <3>1. tasks[i] \in Tasks /\ tasks[i] # k
      BY <2>1, <2>2, <2>3 DEF StoreAccepted, StoreInv, ArmedIffRunning
    <3> QED
      BY <2>1, <3>1
  <2> QED
    BY <1>2, <2>1, <2>2, <2>3, RingsElse
<1>10. CASE BackendRestart
  <2>1. UNCHANGED <<skew, steps>> /\ \A i \in Ids : ~InState(i, "running")'
    BY <1>10 DEF BackendRestart, InState
  <2> QED
    BY <1>2, <2>1, RingsElse
<1>11. CASE FlipLock \/ Tick
  BY <1>11 DEF FlipLock, Tick, RingsInv, RingsWhenFaceShowsZero, InState
<1>12. ASSUME NEW d \in ClockSteps, StepWallClock(d)
       PROVE  RingsInv'
  <2>1. steps' # 0
    BY <1>12 DEF StepWallClock, StoreAccepted, StoreInv, TypeOK
  <2> QED
    BY <2>1 DEF RingsInv, RingsWhenFaceShowsZero
<1> QED
  BY <1>3, <1>4, <1>5, <1>6, <1>7, <1>8, <1>9, <1>10, <1>11, <1>12
     DEF Next, Household, EventLoop, Environment

LEMMA RingsInvAlways == Spec => []RingsInv
<1>1. Init => RingsInv
  BY DEF Init, RingsInv, RingsWhenFaceShowsZero, InState
<1> QED
  BY <1>1, RingsStep, StoreAcceptedAlways, PTL DEF Spec

\* Unless somebody steps the wall clock, the task that sleeps for a running
\* timer (timers.py, _arm and _sleep_then_fire) wakes at the fires_at that
\* the kiosk counts down to, after any extensions, pauses and restarts.
THEOREM AlwaysRingsAtZero == Spec => []RingsWhenFaceShowsZero
BY RingsInvAlways, PTL DEF RingsInv

-----------------------------------------------------------------------------
(***************************************************************************)
(* The store implements the kitchen timer, step by step.  What the         *)
(* refinement mapping of Timers makes of a state is the phase, the time    *)
(* left and the dial of the one timer there is; each action of the store   *)
(* is then an action of KitchenTimer or, for a cancelled task that the     *)
(* loop unwinds, a stutter.                                                *)
(***************************************************************************)
ThePhase == IF Active = {} THEN "none" ELSE timers[Alarm].state
TheLeft ==
  IF Active = {} THEN 0
  ELSE CASE timers[Alarm].state = "running" -> sleepers[tasks[Alarm]].wake - now
         [] timers[Alarm].state = "paused" -> Ticks(timers[Alarm].remaining)
         [] OTHER -> 0
TheDial == IF Active = {} THEN 0 ELSE Ticks(timers[Alarm].duration)

\* The face of a timer, and the face of a store that is empty.
FaceOf(id) ==
  /\ ThePhase = timers[id].state /\ TheDial = Ticks(timers[id].duration)
  /\ timers[id].state = "running" => TheLeft = sleepers[tasks[id]].wake - now
  /\ timers[id].state = "paused" => TheLeft = Ticks(timers[id].remaining)
  /\ timers[id].state = "fired" => TheLeft = 0

BlankFace == ThePhase = "none" /\ TheLeft = 0 /\ TheDial = 0

Faces ==
  /\ \A id \in Ids : timers[id] # NoTimer => FaceOf(id)
  /\ (\A id \in Ids : timers[id] = NoTimer) => BlankFace

LEMMA FacesShown == AtMostOneTimer => Faces
<1> SUFFICES ASSUME AtMostOneTimer PROVE Faces
  OBVIOUS
<1>1. ASSUME NEW id \in Ids, timers[id] # NoTimer
      PROVE  FaceOf(id)
  <2>1. Active # {}
    BY <1>1 DEF Active
  <2>2. Alarm = id
    BY <1>1 DEF Alarm, AtMostOneTimer
  <2> QED
    BY <2>1, <2>2 DEF FaceOf, ThePhase, TheLeft, TheDial
<1>2. ASSUME \A id \in Ids : timers[id] = NoTimer
      PROVE  BlankFace
  <2>1. Active = {}
    BY <1>2 DEF Active
  <2> QED
    BY <2>1 DEF BlankFace, ThePhase, TheLeft, TheDial
<1> QED
  BY <1>1, <1>2 DEF Faces

LEMMA FacesShownNext == AtMostOneTimer' => Faces'
BY FacesShown, PTL

\* The promise's actions, said of the faces.
Half == TicksPerSecond \div 2
Steady == steps = 0

LEMMA PromiseActions ==
  /\ Promise!Init <=> BlankFace /\ locked \in BOOLEAN /\ Steady = TRUE
  /\ \A d : Promise!Set(d) <=> /\ ~locked /\ ThePhase' = "running" /\ TheDial' = d /\ TheLeft' = d
                               /\ UNCHANGED <<locked, Steady>>
  /\ Promise!Restart <=> ThePhase # "none" /\ Promise!Set(TheDial)
  /\ Promise!Extend <=>
       /\ ~locked /\ ThePhase \in {"running", "fired"} /\ ThePhase' = "running"
       /\ TheDial' \in Ticks(MinSeconds) .. Ticks(MaxSeconds)
       /\ TheLeft' \in (Ticks(MinSeconds) - Half) .. (Ticks(MaxSeconds) + Half)
       /\ TheLeft' - TheDial' <= Half /\ TheDial' - TheLeft' <= Half
       /\ Steady => \E a \in {Ticks(s) : s \in AddSeconds} :
                      TheLeft' = a + (IF ThePhase = "running" THEN TheLeft ELSE 0)
       /\ UNCHANGED <<locked, Steady>>
  /\ Promise!Hold <=>
       /\ ~locked /\ ThePhase = "running" /\ ThePhase' = "paused"
       /\ TheLeft' \in Ticks(MinSeconds) .. TheDial
       /\ Steady => \/ TheLeft' \in {Ticks(MinSeconds), TheDial}
                    \/ TheLeft' - TheLeft <= Half /\ TheLeft - TheLeft' <= Half
       /\ UNCHANGED <<TheDial, locked, Steady>>
  /\ Promise!Grow <=>
       /\ ~locked /\ ThePhase = "paused"
       /\ \E a \in {Ticks(s) : s \in AddSeconds} : TheLeft' = TheLeft + a
       /\ TheLeft' <= Ticks(MaxSeconds) /\ TheDial' = TheLeft'
       /\ UNCHANGED <<ThePhase, locked, Steady>>
  /\ Promise!Resume <=>
       /\ ~locked /\ ThePhase = "paused" /\ ThePhase' = "running"
       /\ UNCHANGED <<TheLeft, TheDial, locked, Steady>>
  /\ Promise!Cancel <=>
       /\ ThePhase # "none" /\ (locked => ThePhase = "fired") /\ BlankFace'
       /\ UNCHANGED <<locked, Steady>>
  /\ Promise!Ring <=>
       /\ ThePhase = "running" /\ TheLeft <= 0 /\ ThePhase' = "fired" /\ TheLeft' = 0
       /\ UNCHANGED <<TheDial, locked, Steady>>
  /\ Promise!Pass <=>
       /\ TheLeft' = IF ThePhase = "running" THEN TheLeft - 1 ELSE TheLeft
       /\ UNCHANGED <<ThePhase, TheDial, locked, Steady>>
  /\ Promise!Forget <=> BlankFace' /\ UNCHANGED <<locked, Steady>>
  /\ Promise!Lock <=> locked' = ~locked /\ UNCHANGED <<ThePhase, TheLeft, TheDial, Steady>>
  /\ Promise!StepClock <=> Steady' = FALSE /\ UNCHANGED <<ThePhase, TheLeft, TheDial, locked>>
  /\ Promise!vars = <<ThePhase, TheLeft, TheDial, locked, Steady>>
BY DEF Promise!Init, Promise!Off, Promise!Set, Promise!Restart, Promise!Extend, Promise!Near,
       Promise!Hold, Promise!Grow, Promise!Resume, Promise!Cancel, Promise!Ring, Promise!Pass,
       Promise!Forget, Promise!Lock, Promise!StepClock, Promise!Settings, Promise!vars,
       BlankFace, ThePhase, TheLeft, TheDial, Half, Steady

\* Rounding to whole seconds is off by half a second at most.
LEMMA RoundNear ==
  \A t \in Int : t - Ticks(Round(t)) <= Half /\ Ticks(Round(t)) - t <= Half /\ Half \in Nat
<1> TAKE t \in Int
<1> DEFINE q == t \div TicksPerSecond
           r == t % TicksPerSecond
<1> USE TimersAssumption DEF TimersAssumption
<1>1. /\ q \in Int /\ r \in Int /\ t = TicksPerSecond * q + r /\ 0 <= r /\ r < TicksPerSecond
      /\ Half \in Nat /\ TicksPerSecond - 1 <= 2 * Half /\ 2 * Half <= TicksPerSecond
  BY DEF Half
<1>2. \/ Round(t) = q /\ 2 * r <= TicksPerSecond
      \/ Round(t) = q + 1 /\ 2 * r >= TicksPerSecond
  BY <1>1 DEF Round
<1> HIDE DEF q, r
<1>3. TicksPerSecond * q = Ticks(q) /\ Ticks(q + 1) = Ticks(q) + TicksPerSecond /\ Ticks(q) \in Int
  BY <1>1 DEF Ticks
<1>4. t - Ticks(q) = r /\ t - Ticks(q + 1) = r - TicksPerSecond
  BY <1>1, <1>3
<1> QED
  BY <1>1, <1>2, <1>3, <1>4

LEMMA TicksInCap ==
  ASSUME NEW d \in Int, InCap(d) PROVE Ticks(d) \in Ticks(MinSeconds) .. Ticks(MaxSeconds)
<1>1. MinSeconds \in Int /\ MaxSeconds \in Int /\ MinSeconds <= d /\ d <= MaxSeconds
  BY TimersAssumption DEF InCap
<1>2. Ticks(MinSeconds) <= Ticks(d) /\ Ticks(d) <= Ticks(MaxSeconds)
  BY <1>1, TicksMonotone
<1>3. Ticks(MinSeconds) \in Int /\ Ticks(d) \in Int /\ Ticks(MaxSeconds) \in Int
  BY <1>1, TicksLinear
<1> QED
  BY <1>2, <1>3

\* The face of a timer that was just armed.
LEMMA ArmedFace ==
  ASSUME StoreAccepted, StoreAccepted', NEW id \in Ids, NEW c \in Int, NEW f \in Int, NEW d \in Int,
         ArmedTo(id, c, f, d)
  PROVE  /\ ThePhase' = "running" /\ TheDial' = Ticks(d) /\ TheLeft' = f - Wall
         /\ UNCHANGED <<locked, Steady>>
<1>1. /\ timers'[id] = Running(c, f, d) /\ timers'[id] # NoTimer
      /\ timers'[id].state = "running" /\ timers'[id].duration = d
      /\ sleepers'[tasks'[id]].wake = now + (f - Wall) /\ now' = now /\ now \in Nat /\ Wall \in Int
      /\ UNCHANGED <<locked, steps>>
  BY RunningIsTimer, TimerIsPresent DEF ArmedTo, Running, StoreAccepted, StoreInv, TypeOK, Wall
<1>2. FaceOf(id)'
  BY <1>1, FacesShownNext DEF Faces, StoreAccepted, StoreInv
<1>3. TheLeft' = (now + (f - Wall)) - now
  BY <1>1, <1>2 DEF FaceOf
<1> QED
  BY <1>1, <1>2, <1>3 DEF FaceOf, Steady

\* The face of a timer that is there.
LEMMA PresentFace ==
  ASSUME StoreAccepted, NEW id \in Ids, timers[id] # NoTimer
  PROVE  FaceOf(id) /\ timers[id].state \in {"running", "paused", "fired"} /\ ThePhase # "none"
<1>1. FaceOf(id)
  BY FacesShown DEF Faces, StoreAccepted, StoreInv
<1>2. timers[id].state \in {"running", "paused", "fired"}
  BY PresentAccepted DEF Timer
<1> QED
  BY <1>1, <1>2 DEF FaceOf

LEMMA CreateIsSet ==
  ASSUME StoreAccepted, StoreAccepted', NEW id \in Ids, NEW s \in Durations, NEW k \in Tasks,
         Create(id, s, k)
  PROVE  Promise!Next
<1>1. s \in Int /\ InCap(s) /\ ~locked
  BY TimersAssumption DEF Create
<1>2. Ticks(s) \in Ticks(MinSeconds) .. Ticks(MaxSeconds)
  BY <1>1, TicksInCap
<1>3. ArmedTo(id, Wall, Wall + Ticks(s), s) /\ Ticks(s) \in Int /\ Wall \in Int
  BY CreateArms
<1>4. /\ ThePhase' = "running" /\ TheDial' = Ticks(s) /\ TheLeft' = (Wall + Ticks(s)) - Wall
      /\ UNCHANGED <<locked, Steady>>
  BY <1>1, <1>3, ArmedFace
<1>5. Promise!Set(Ticks(s))
  BY <1>1, <1>3, <1>4, PromiseActions
<1> QED
  BY <1>2, <1>5 DEF Promise!Next, Promise!Settings

LEMMA ExtendPausedIsGrow ==
  ASSUME StoreAccepted, StoreAccepted', NEW id \in Ids, NEW s \in AddSeconds, ExtendPaused(id, s)
  PROVE  Promise!Next
<1> DEFINE r == timers[id].remaining + s
<1>1. /\ ~locked /\ timers[id] # NoTimer /\ timers[id].state = "paused" /\ InCap(r)
      /\ timers' = [timers EXCEPT ![id] = Paused(Wall, Wall + Ticks(r), r, r)]
      /\ UNCHANGED <<locked, steps>>
  BY DEF ExtendPaused, InState
<1>2. timers[id].remaining \in Int /\ s \in Int /\ Wall \in Int
  BY <1>1, PresentAccepted, TimersAssumption
<1>3. r \in Int /\ Ticks(r) \in Int /\ Ticks(s) \in Int /\ Ticks(timers[id].remaining) \in Int
  <2>1. r \in Int
    BY <1>2
  <2> HIDE DEF r
  <2> QED
    BY <1>2, <2>1, TicksLinear
<1>4. Ticks(r) = Ticks(timers[id].remaining) + Ticks(s)
  <2>1. Ticks(r - s) = Ticks(r) - Ticks(s) /\ r - s = timers[id].remaining
    <3>1. r - s = timers[id].remaining
      BY <1>2
    <3> HIDE DEF r
    <3> QED
      BY <1>2, <1>3, <3>1, TicksLinear
  <2> HIDE DEF r
  <2> QED
    BY <1>3, <2>1
<1>5. FaceOf(id)
  BY <1>1, PresentFace
<1> HIDE DEF r
<1>6. /\ timers'[id].state = "paused" /\ timers'[id].remaining = r /\ timers'[id].duration = r
      /\ timers'[id] # NoTimer
  <2>1. timers'[id] = Paused(Wall, Wall + Ticks(r), r, r)
    BY <1>1 DEF StoreAccepted, StoreInv, TypeOK
  <2>2. Wall + Ticks(r) \in Int
    BY <1>2, <1>3
  <2>3. Paused(Wall, Wall + Ticks(r), r, r) \in Timer
    BY <1>2, <1>3, <2>2, PausedIsTimer
  <2> QED
    BY <2>1, <2>3, TimerIsPresent DEF Paused
<1>7. FaceOf(id)'
  BY <1>6, FacesShownNext DEF Faces, StoreAccepted, StoreInv
<1>8. TheLeft' = TheLeft + Ticks(s) /\ TheDial' = TheLeft' /\ TheLeft' <= Ticks(MaxSeconds)
  <2>1. Ticks(r) \in Ticks(MinSeconds) .. Ticks(MaxSeconds)
    BY <1>1, <1>3, TicksInCap
  <2> QED
    BY <1>1, <1>3, <1>4, <1>5, <1>6, <1>7, <2>1 DEF FaceOf
<1>9. ThePhase = "paused" /\ ThePhase' = "paused" /\ UNCHANGED <<locked, Steady>>
  BY <1>1, <1>5, <1>6, <1>7 DEF FaceOf, Steady
<1>10. Promise!Grow
  BY <1>1, <1>8, <1>9, PromiseActions
<1> QED
  BY <1>10 DEF Promise!Next

LEMMA ExtendCountingIsExtend ==
  ASSUME StoreAccepted, StoreAccepted', RingsInv, NEW id \in Ids, NEW s \in AddSeconds,
         NEW k \in Tasks, ExtendCounting(id, s, k)
  PROVE  Promise!Next
<1> DEFINE f == ExtendedTo(id, s)
           d == Round(f - Wall)
<1>1. /\ ArmedTo(id, Wall, f, d) /\ f \in Int /\ d \in Int /\ InCap(d) /\ Wall \in Int
      /\ timers[id] # NoTimer
  BY ExtendArms
<1>2. ~locked /\ timers[id].state \in {"running", "fired"} /\ FaceOf(id)
  BY <1>1, PresentFace DEF ExtendCounting, InState
<1>3. f = (IF timers[id].state = "running" THEN timers[id].fires ELSE Wall) + Ticks(s)
  BY <1>1 DEF ExtendedTo, InState
<1>4. f - Wall \in Int
  BY <1>1
<1>5. (f - Wall) - Ticks(d) <= Half /\ Ticks(d) - (f - Wall) <= Half /\ Half \in Nat
  BY <1>4, RoundNear
<1> HIDE DEF f, d
<1>6. Ticks(d) \in Ticks(MinSeconds) .. Ticks(MaxSeconds)
  BY <1>1, TicksInCap
<1>7. /\ ThePhase' = "running" /\ TheDial' = Ticks(d) /\ TheLeft' = f - Wall
      /\ UNCHANGED <<locked, Steady>>
  BY <1>1, ArmedFace
<1>8. TheLeft' \in (Ticks(MinSeconds) - Half) .. (Ticks(MaxSeconds) + Half)
  <2>1. Ticks(d) \in Int /\ Ticks(MinSeconds) \in Int /\ Ticks(MaxSeconds) \in Int
    <3>1. MinSeconds \in Int /\ MaxSeconds \in Int
      BY TimersAssumption
    <3> QED
      BY <1>1, <3>1, TicksLinear
  <2> QED
    BY <1>4, <1>5, <1>6, <1>7, <2>1
<1>9. ASSUME Steady
      PROVE  TheLeft' = Ticks(s) + (IF ThePhase = "running" THEN TheLeft ELSE 0)
  <2>1. Ticks(s) \in Int /\ now \in Int /\ timers[id].fires \in Int
    <3>1. s \in Int /\ now \in Int
      BY TimersAssumption DEF StoreAccepted, StoreInv, TypeOK
    <3> QED
      BY <1>1, <3>1, PresentAccepted, TicksLinear
  <2>2. Wall = now
    BY <1>9, <2>1 DEF Steady, RingsInv, Wall
  <2>3. CASE timers[id].state = "running"
    <3>1. sleepers[tasks[id]].wake = timers[id].fires
      BY <1>1, <1>9, <2>3 DEF Steady, RingsInv, RingsWhenFaceShowsZero, InState,
                              StoreAccepted, StoreInv, ArmedIffRunning, TypeOK
    <3>2. ThePhase = "running" /\ TheLeft = timers[id].fires - now
      BY <1>2, <2>3, <3>1 DEF FaceOf
    <3> QED
      BY <1>3, <1>7, <2>1, <2>2, <2>3, <3>2
  <2>4. CASE timers[id].state = "fired"
    BY <1>2, <1>3, <1>7, <2>1, <2>2, <2>4 DEF FaceOf
  <2> QED
    BY <1>2, <2>3, <2>4
<1>10. ThePhase \in {"running", "fired"}
  BY <1>2 DEF FaceOf
<1>11. Promise!Extend
  BY <1>2, <1>5, <1>6, <1>7, <1>8, <1>9, <1>10, PromiseActions
<1> QED
  BY <1>11 DEF Promise!Next

LEMMA PauseIsHold ==
  ASSUME StoreAccepted, StoreAccepted', RingsInv, NEW id \in Ids, Pause(id)
  PROVE  Promise!Next
<1> DEFINE t == timers[id]
           r == RemainingAtPause(t)
           over == Round(t.fires - Wall)
<1>1. /\ ~locked /\ t # NoTimer /\ t.state = "running"
      /\ timers' = [timers EXCEPT ![id] = Paused(t.created, t.fires, t.duration, r)]
      /\ UNCHANGED <<locked, now, skew, steps>>
  BY DEF Pause, InState
<1>2. /\ t.created \in Int /\ t.fires \in Int /\ t.duration \in Int /\ InCap(t.duration) /\ Wall \in Int
      /\ FaceOf(id)
  BY <1>1, PresentAccepted, PresentFace
<1>3. t.fires - Wall \in Int /\ over \in Int
  BY <1>2, RoundType
<1>4. (t.fires - Wall) - Ticks(over) <= Half /\ Ticks(over) - (t.fires - Wall) <= Half /\ Half \in Nat
  BY <1>3, RoundNear
<1>5. r \in {MinSeconds, t.duration, over} /\ MinSeconds <= r /\ r <= t.duration /\ r \in Int
      /\ MinSeconds \in Int
  BY <1>2, <1>3, TimersAssumption DEF RemainingAtPause, Larger, Smaller, InCap
<1> HIDE DEF over, r
<1>6. timers'[id] = Paused(t.created, t.fires, t.duration, r) /\ timers'[id] # NoTimer
  <2>1. Paused(t.created, t.fires, t.duration, r) \in Timer
    BY <1>2, <1>5, PausedIsTimer
  <2> QED
    BY <1>1, <2>1, TimerIsPresent DEF StoreAccepted, StoreInv, TypeOK
<1>7. FaceOf(id)'
  BY <1>6, FacesShownNext DEF Faces, StoreAccepted, StoreInv
<1>8. /\ ThePhase = "running" /\ ThePhase' = "paused" /\ TheLeft' = Ticks(r)
      /\ TheDial = Ticks(t.duration) /\ TheDial' = Ticks(t.duration) /\ UNCHANGED <<locked, Steady>>
  BY <1>1, <1>2, <1>6, <1>7 DEF FaceOf, Paused, Steady
<1>9. TheLeft' \in Ticks(MinSeconds) .. TheDial
  <2>1. Ticks(MinSeconds) <= Ticks(r) /\ Ticks(r) <= Ticks(t.duration)
    BY <1>2, <1>5, TicksMonotone
  <2>2. Ticks(MinSeconds) \in Int /\ Ticks(r) \in Int /\ Ticks(t.duration) \in Int
    BY <1>2, <1>5, TicksLinear
  <2> HIDE DEF t
  <2> QED
    BY <1>8, <2>1, <2>2
<1>10. ASSUME Steady
       PROVE  \/ TheLeft' \in {Ticks(MinSeconds), TheDial}
              \/ TheLeft' - TheLeft <= Half /\ TheLeft - TheLeft' <= Half
  <2>1. now \in Int /\ Wall = now
    BY <1>10 DEF Steady, RingsInv, Wall, StoreAccepted, StoreInv, TypeOK
  <2>2. sleepers[tasks[id]].wake = t.fires
    BY <1>1, <1>10 DEF Steady, RingsInv, RingsWhenFaceShowsZero, InState,
                       StoreAccepted, StoreInv, ArmedIffRunning, TypeOK
  <2>3. TheLeft = t.fires - Wall
    BY <1>1, <1>2, <2>1, <2>2 DEF FaceOf
  <2> QED
    BY <1>4, <1>5, <1>8, <2>3
<1>11. Promise!Hold
  BY <1>1, <1>8, <1>9, <1>10, PromiseActions
<1> QED
  BY <1>11 DEF Promise!Next

LEMMA ResumeIsResume ==
  ASSUME StoreAccepted, StoreAccepted', NEW id \in Ids, NEW k \in Tasks, Resume(id, k)
  PROVE  Promise!Next
<1>1. PICK c \in Int : ArmedTo(id, c, Wall + Ticks(timers[id].remaining), timers[id].duration)
  BY ResumeArms
<1>2. /\ Wall \in Int /\ timers[id] # NoTimer /\ timers[id].state = "paused"
      /\ Ticks(timers[id].remaining) \in Int
  BY ResumeArms
<1>3. timers[id].duration \in Int /\ FaceOf(id) /\ ~locked
  BY <1>2, PresentAccepted, PresentFace DEF Resume
<1>4. /\ ThePhase' = "running" /\ TheDial' = Ticks(timers[id].duration)
      /\ TheLeft' = (Wall + Ticks(timers[id].remaining)) - Wall
      /\ UNCHANGED <<locked, Steady>>
  BY <1>1, <1>2, <1>3, ArmedFace
<1>5. ThePhase = "paused" /\ TheLeft' = TheLeft /\ TheDial' = TheDial
  BY <1>2, <1>3, <1>4 DEF FaceOf
<1>6. Promise!Resume
  BY <1>3, <1>4, <1>5, PromiseActions
<1> QED
  BY <1>6 DEF Promise!Next

LEMMA RestartIsRestart ==
  ASSUME StoreAccepted, StoreAccepted', NEW id \in Ids, NEW k \in Tasks, Restart(id, k)
  PROVE  Promise!Next
<1> DEFINE d == timers[id].duration
<1>1. ArmedTo(id, Wall, Wall + Ticks(d), d) /\ Wall \in Int /\ timers[id] # NoTimer /\ Ticks(d) \in Int
  BY RestartArms
<1>2. d \in Int /\ FaceOf(id) /\ ThePhase # "none" /\ ~locked
  BY <1>1, PresentAccepted, PresentFace DEF Restart
<1>3. /\ ThePhase' = "running" /\ TheDial' = Ticks(d) /\ TheLeft' = (Wall + Ticks(d)) - Wall
      /\ UNCHANGED <<locked, Steady>>
  BY <1>1, <1>2, ArmedFace
<1>4. TheDial' = TheDial /\ TheLeft' = TheDial
  BY <1>1, <1>2, <1>3 DEF FaceOf
<1>5. Promise!Set(TheDial)
  BY <1>2, <1>3, <1>4, PromiseActions
<1>6. Promise!Restart
  BY <1>2, <1>5, PromiseActions
<1> QED
  BY <1>6 DEF Promise!Next

LEMMA DeleteIsCancel ==
  ASSUME StoreAccepted, StoreAccepted', NEW id \in Ids, Delete(id)
  PROVE  Promise!Next
<1>1. /\ timers[id] # NoTimer /\ (locked => timers[id].state = "fired")
      /\ timers' = [timers EXCEPT ![id] = NoTimer] /\ UNCHANGED <<locked, steps>>
  BY DEF Delete, Active, InState
<1>2. FaceOf(id) /\ ThePhase # "none"
  BY <1>1, PresentFace
<1>3. \A i \in Ids : timers'[i] = NoTimer
  BY <1>1 DEF StoreAccepted, StoreInv, TypeOK, AtMostOneTimer
<1>4. BlankFace'
  BY <1>3, FacesShownNext DEF Faces, StoreAccepted, StoreInv
<1>5. Promise!Cancel
  BY <1>1, <1>2, <1>4, PromiseActions DEF FaceOf, Steady
<1> QED
  BY <1>5 DEF Promise!Next

LEMMA WakeIsRing ==
  ASSUME StoreAccepted, StoreAccepted', NEW k \in Tasks, Wake(k)
  PROVE  Promise!Next
<1>1. sleepers[k] \in Sleeper /\ sleepers[k].phase = "asleep" /\ sleepers[k].wake <= now
  BY DEF Wake, StoreAccepted, StoreInv, TypeOK
<1>2. PICK id \in Ids : id = sleepers[k].timer /\ tasks[id] = k /\ InState(id, "running")
  <2>1. sleepers[k].timer \in Ids /\ tasks[sleepers[k].timer] = k
    BY <1>1 DEF Wake, Sleeper, StoreAccepted, StoreInv, ArmedIffRunning
  <2>2. InState(sleepers[k].timer, "running")
    BY <2>1, TimersAssumption DEF StoreAccepted, StoreInv, ArmedIffRunning
  <2> QED
    BY <2>1, <2>2
<1>3. timers' = [timers EXCEPT ![id].state = "fired"] /\ UNCHANGED <<locked, steps>>
  BY <1>2 DEF Wake
<1>4. timers[id] # NoTimer /\ timers[id].state = "running" /\ timers[id] \in Timer /\ FaceOf(id)
  BY <1>2, PresentFace, PresentAccepted DEF InState
<1>5. timers'[id].state = "fired" /\ timers'[id].duration = timers[id].duration /\ timers'[id] # NoTimer
  <2>1. timers'[id] = [timers[id] EXCEPT !.state = "fired"]
    BY <1>2, <1>3 DEF StoreAccepted, StoreInv, TypeOK
  <2>2. [timers[id] EXCEPT !.state = "fired"] \in Timer
    BY <1>4 DEF Timer
  <2> QED
    BY <1>4, <2>1, <2>2, TimerIsPresent DEF Timer
<1>6. FaceOf(id)'
  BY <1>2, <1>5, FacesShownNext DEF Faces, StoreAccepted, StoreInv
<1>7. TheLeft = sleepers[k].wake - now /\ sleepers[k].wake \in Int /\ now \in Int
  BY <1>1, <1>2, <1>4 DEF FaceOf, Sleeper, StoreAccepted, StoreInv, TypeOK
<1>8. Promise!Ring
  <2>1. TheLeft <= 0
    BY <1>1, <1>7
  <2>2. /\ ThePhase = "running" /\ ThePhase' = "fired" /\ TheLeft' = 0
        /\ UNCHANGED <<TheDial, locked, Steady>>
    BY <1>3, <1>4, <1>5, <1>6 DEF FaceOf, Steady
  <2> QED
    BY <2>1, <2>2, PromiseActions
<1> QED
  BY <1>8 DEF Promise!Next

\* Steps that leave the timers and their alarms alone leave the face alone.
LEMMA SameFace ==
  ASSUME StoreAccepted, StoreAccepted', UNCHANGED <<timers, tasks, now>>,
         \A id \in Ids : InState(id, "running") => sleepers'[tasks[id]] = sleepers[tasks[id]]
  PROVE  UNCHANGED <<ThePhase, TheLeft, TheDial>>
<1>1. CASE \A id \in Ids : timers[id] = NoTimer
  <2>1. BlankFace /\ BlankFace'
    BY <1>1, FacesShown, FacesShownNext DEF Faces, StoreAccepted, StoreInv
  <2> QED
    BY <2>1 DEF BlankFace
<1>2. ASSUME NEW id \in Ids, timers[id] # NoTimer
      PROVE  UNCHANGED <<ThePhase, TheLeft, TheDial>>
  <2>1. FaceOf(id) /\ timers[id].state \in {"running", "paused", "fired"}
    BY <1>2, PresentFace
  <2>2. FaceOf(id)'
    BY <1>2, FacesShownNext DEF Faces, StoreAccepted, StoreInv
  <2>3. timers[id].state = "running" => sleepers'[tasks[id]] = sleepers[tasks[id]]
    BY <1>2 DEF InState
  <2> QED
    BY <2>1, <2>2, <2>3 DEF FaceOf
<1> QED
  BY <1>1, <1>2

LEMMA UnwindIsNothing ==
  ASSUME StoreAccepted, StoreAccepted', NEW k \in Tasks, Unwind(k)
  PROVE  UNCHANGED Promise!vars
<1>1. /\ sleepers[k].phase = "cancelled" /\ sleepers' = [sleepers EXCEPT ![k] = Free]
      /\ UNCHANGED <<timers, tasks, locked, now, steps>>
  BY DEF Unwind
<1>2. ASSUME NEW id \in Ids, InState(id, "running")
      PROVE  sleepers'[tasks[id]] = sleepers[tasks[id]]
  <2>1. tasks[id] # k /\ tasks[id] \in Tasks
    BY <1>1, <1>2 DEF StoreAccepted, StoreInv, ArmedIffRunning, TypeOK
  <2> QED
    BY <1>1, <2>1 DEF StoreAccepted, StoreInv, TypeOK
<1>3. UNCHANGED <<ThePhase, TheLeft, TheDial>>
  BY <1>1, <1>2, SameFace
<1>4. UNCHANGED <<locked, Steady>>
  BY <1>1 DEF Steady
<1>5. UNCHANGED <<ThePhase, TheLeft, TheDial, locked, Steady>>
  BY <1>3, <1>4
<1> QED
  BY <1>5 DEF Promise!vars, ThePhase, TheLeft, TheDial, Steady

LEMMA TickIsPass ==
  ASSUME StoreAccepted, StoreAccepted', Tick PROVE Promise!Next
<1>1. now' = now + 1 /\ UNCHANGED <<timers, tasks, sleepers, locked, steps>> /\ now \in Nat
  BY DEF Tick, StoreAccepted, StoreInv, TypeOK
<1>2. CASE \A id \in Ids : timers[id] = NoTimer
  <2>1. BlankFace /\ BlankFace'
    BY <1>1, <1>2, FacesShown, FacesShownNext DEF Faces, StoreAccepted, StoreInv
  <2>2. Promise!Pass
    BY <1>1, <2>1, PromiseActions DEF BlankFace, Steady
  <2> QED
    BY <2>2 DEF Promise!Next
<1>3. ASSUME NEW id \in Ids, timers[id] # NoTimer
      PROVE  Promise!Next
  <2>1. FaceOf(id) /\ timers[id].state \in {"running", "paused", "fired"}
    BY <1>3, PresentFace
  <2>2. FaceOf(id)'
    BY <1>1, <1>3, FacesShownNext DEF Faces, StoreAccepted, StoreInv
  <2>3. UNCHANGED <<ThePhase, TheDial, locked, Steady>>
    BY <1>1, <2>1, <2>2 DEF FaceOf, Steady
  <2>4. TheLeft' = IF ThePhase = "running" THEN TheLeft - 1 ELSE TheLeft
    <3>1. CASE timers[id].state = "running"
      <4>1. sleepers[tasks[id]].wake \in Int
        BY <1>3, <3>1 DEF InState, StoreAccepted, StoreInv, ArmedIffRunning, TypeOK, Sleeper
      <4>2. TheLeft = sleepers[tasks[id]].wake - now /\ TheLeft' = sleepers[tasks[id]].wake - (now + 1)
        BY <1>1, <2>1, <2>2, <3>1 DEF FaceOf
      <4> QED
        BY <1>1, <2>1, <3>1, <4>1, <4>2 DEF FaceOf
    <3>2. CASE timers[id].state # "running"
      BY <1>1, <2>1, <2>2, <3>2 DEF FaceOf
    <3> QED
      BY <3>1, <3>2
  <2>5. Promise!Pass
    BY <2>3, <2>4, PromiseActions
  <2> QED
    BY <2>5 DEF Promise!Next
<1> QED
  BY <1>2, <1>3

LEMMA EnvironmentStep ==
  ASSUME StoreAccepted, StoreAccepted',
         BackendRestart \/ FlipLock \/ \E d \in ClockSteps : StepWallClock(d)
  PROVE  Promise!Next
<1>1. CASE BackendRestart
  <2>1. (\A i \in Ids : timers'[i] = NoTimer) /\ UNCHANGED <<locked, steps>>
    BY <1>1 DEF BackendRestart
  <2>2. BlankFace'
    BY <2>1, FacesShownNext DEF Faces, StoreAccepted, StoreInv
  <2>3. Promise!Forget
    BY <2>1, <2>2, PromiseActions DEF Steady
  <2> QED
    BY <2>3 DEF Promise!Next
<1>2. CASE FlipLock
  <2>1. locked' = ~locked /\ UNCHANGED <<timers, tasks, sleepers, now, steps>>
    BY <1>2 DEF FlipLock
  <2>2. UNCHANGED <<ThePhase, TheLeft, TheDial>>
    BY <2>1, SameFace
  <2>3. Promise!Lock
    BY <2>1, <2>2, PromiseActions DEF Steady
  <2> QED
    BY <2>3 DEF Promise!Next
<1>3. ASSUME NEW d \in ClockSteps, StepWallClock(d)
      PROVE  Promise!Next
  <2>1. steps' # 0 /\ UNCHANGED <<timers, tasks, sleepers, locked, now>>
    BY <1>3 DEF StepWallClock, StoreAccepted, StoreInv, TypeOK
  <2>2. UNCHANGED <<ThePhase, TheLeft, TheDial>>
    BY <2>1, SameFace
  <2>3. Promise!StepClock
    BY <2>1, <2>2, PromiseActions DEF Steady
  <2> QED
    BY <2>3 DEF Promise!Next
<1> QED
  BY <1>1, <1>2, <1>3

LEMMA PromiseKept == StoreAccepted /\ RingsInv /\ [Next]_vars => [Promise!Next]_(Promise!vars)
<1> SUFFICES ASSUME StoreAccepted, RingsInv, [Next]_vars PROVE [Promise!Next]_(Promise!vars)
  OBVIOUS
<1>1. CASE UNCHANGED vars
  BY <1>1 DEF vars, Promise!vars, Active, Alarm
<1> SUFFICES ASSUME Next PROVE [Promise!Next]_(Promise!vars)
  BY <1>1
<1>2. StoreAccepted'
  BY StoreAcceptedStep
<1>3. ASSUME NEW id \in Ids, NEW s \in Durations, NEW k \in Tasks, Create(id, s, k)
      PROVE  Promise!Next
  BY <1>2, <1>3, CreateIsSet
<1>4. ASSUME NEW id \in Ids, NEW s \in AddSeconds, ExtendPaused(id, s)
      PROVE  Promise!Next
  BY <1>2, <1>4, ExtendPausedIsGrow
<1>5. ASSUME NEW id \in Ids, NEW s \in AddSeconds, NEW k \in Tasks, ExtendCounting(id, s, k)
      PROVE  Promise!Next
  BY <1>2, <1>5, ExtendCountingIsExtend
<1>6. ASSUME NEW id \in Ids, Pause(id) \/ Delete(id)
      PROVE  Promise!Next
  BY <1>2, <1>6, PauseIsHold, DeleteIsCancel
<1>7. ASSUME NEW id \in Ids, NEW k \in Tasks, Resume(id, k) \/ Restart(id, k)
      PROVE  Promise!Next
  BY <1>2, <1>7, ResumeIsResume, RestartIsRestart
<1>8. ASSUME NEW k \in Tasks, Wake(k)
      PROVE  Promise!Next
  BY <1>2, <1>8, WakeIsRing
<1>9. ASSUME NEW k \in Tasks, Unwind(k)
      PROVE  UNCHANGED Promise!vars
  BY <1>2, <1>9, UnwindIsNothing
<1>10. CASE Environment
  BY <1>2, <1>10, TickIsPass, EnvironmentStep DEF Environment
<1> QED
  BY <1>3, <1>4, <1>5, <1>6, <1>7, <1>8, <1>9, <1>10 DEF Next, Household, EventLoop

LEMMA PromiseBegins == Init => Promise!Init
<1> SUFFICES ASSUME Init PROVE Promise!Init
  OBVIOUS
<1>1. BlankFace /\ locked \in BOOLEAN /\ Steady = TRUE
  <2>1. AtMostOneTimer /\ \A i \in Ids : timers[i] = NoTimer
    BY DEF Init, AtMostOneTimer
  <2> QED
    BY <2>1, FacesShown DEF Faces, Init, Steady
<1> QED
  BY <1>1, PromiseActions

\* The TimerStore with its sleeping tasks, its ids and its stamps of the wall
\* clock (timers.py), behind the privacy gate (api.py), is one kitchen timer:
\* every behaviour of the store is one that KitchenTimer allows, whatever the
\* caps, durations and clock steps.  (That a timer whose time is up does ring,
\* the fairness part of the promise, is left to the run.)
THEOREM KeepsThePromise == Spec => Promise!Init /\ [][Promise!Next]_(Promise!vars)
BY PromiseBegins, PromiseKept, StoreAcceptedAlways, RingsInvAlways, PTL DEF Spec
=============================================================================
