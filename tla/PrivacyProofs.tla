--------------------------- MODULE PrivacyProofs ---------------------------
(***************************************************************************)
(* Theorems about Privacy, for every grace period, cooldown and number of  *)
(* attempts.  The argument: TypeOK is not inductive by itself, because a   *)
(* restart takes the state from the file; so the invariant also says that  *)
(* what the file holds is well formed (FileWellFormed).  That the undo     *)
(* button works only right after the entry needs two more facts: neither   *)
(* the stamp in memory nor the one in the file is ever later than the last *)
(* entry (StampsAreOld), and entries lie in the past.  That guessing is    *)
(* slow is an inequality between the clock and the cooldowns of the rounds *)
(* of wrong PINs so far, for any ladder of cooldowns.                      *)
(***************************************************************************)
EXTENDS Privacy, WellFoundedInduction, TLAPS

FileWellFormed == Loaded.locked <=> Loaded.since # NoTime

StampsAreOld ==
  /\ enteredAt <= now
  /\ steps = 0 =>
       /\ skew = 0
       /\ locked => since <= enteredAt
       /\ Loaded.locked => Loaded.since <= enteredAt

PrivacyInv == TypeOK /\ FileWellFormed /\ FileHoldsState /\ StampsAreOld

\* What _load makes of the file is a lock and a stamp.
LEMMA LoadedType ==
  ASSUME TypeOK
  PROVE  /\ Loaded \in Kept
         /\ Loaded.locked \in BOOLEAN
         /\ Loaded.since \in Int \cup {NoTime}
BY PrivacyAssumption DEF TypeOK, Loaded, Kept

\* After a write, the file holds what was written or what it held before.
LEMMA Persisted ==
  ASSUME TypeOK, NEW l \in BOOLEAN, NEW s \in Int \cup {NoTime}, Persist(l, s)
  PROVE  /\ file' \in Kept \cup {NoFile, Garbled}
         /\ written' \in BOOLEAN
         /\ Loaded' = [locked |-> l, since |-> s] \/ (Loaded' = Loaded /\ ~written')
<1>1. CASE file' = [locked |-> l, since |-> s] /\ written' = TRUE
  <2>1. [locked |-> l, since |-> s] \in Kept
    BY DEF Kept
  <2>2. file' \notin {NoFile, Garbled}
    BY <1>1, <2>1, PrivacyAssumption
  <2>3. Loaded' = file'
    BY <2>2 DEF Loaded
  <2> QED
    BY <1>1, <2>1, <2>3
<1>2. CASE UNCHANGED file /\ written' = FALSE
  BY <1>2 DEF TypeOK, Loaded
<1> QED
  BY <1>1, <1>2 DEF Persist

\* A cooldown is a whole number of seconds.
LEMMA CooldownInt ==
  ASSUME NEW n \in Nat \ {0}
  PROVE  Cooldown(n) \in Int
<1> DEFINE doubled == BaseCooldown * 2^(n - 1)
<1>1. doubled \in Int
  <2>1. 2^(n - 1) \in Int
    OBVIOUS
  <2> QED
    BY <2>1, PrivacyAssumption
<1> HIDE DEF doubled
<1>2. (IF doubled <= CooldownCap THEN doubled ELSE CooldownCap) \in Int
  BY <1>1, PrivacyAssumption
<1> QED
  BY <1>2, Zenon DEF Cooldown, doubled

\* The invariant holds initially: no file, and nothing locked.
LEMMA PrivacyInit ==
  ASSUME Init
  PROVE  PrivacyInv
<1>1. Loaded = [locked |-> FALSE, since |-> NoTime]
  BY DEF Init, Loaded
<1>2. ~locked /\ ~Loaded.locked /\ Loaded.since = NoTime
  BY <1>1 DEF Init
<1>3. failed \in 0 .. (MaxAttempts - 1)
  BY PrivacyAssumption DEF Init
<1>4. locked \in BOOLEAN /\ written \in BOOLEAN /\ since = NoTime
  BY DEF Init
<1>5. TypeOK
  BY <1>2, <1>3, <1>4 DEF Init, TypeOK
<1>6. FileWellFormed
  BY <1>2 DEF FileWellFormed
<1>7. FileHoldsState
  BY <1>1 DEF Init, FileHoldsState
<1>8. StampsAreOld
  BY <1>2 DEF Init, StampsAreOld
<1> QED
  BY <1>5, <1>6, <1>7, <1>8 DEF PrivacyInv

\* Entering and leaving the lock: the three handlers that write the file.
LEMMA LockStep ==
  ASSUME PrivacyInv, Lock
  PROVE  PrivacyInv'
<1> DEFINE wall == now + skew
<1>0. TypeOK
  BY DEF PrivacyInv
<1>1. wall \in Int /\ wall \in Int \cup {NoTime} /\ wall # NoTime
  BY <1>0, PrivacyAssumption DEF TypeOK
<1>2. /\ locked' = TRUE /\ since' = wall /\ enteredAt' = now
      /\ Persist(TRUE, wall)
  BY DEF Lock, Wall
<1>3. /\ UNCHANGED <<available, failed, lockouts, until, guesses, cleared>>
      /\ UNCHANGED <<now, skew, steps>>
  BY DEF Lock, counters, clocks
<1>4. /\ file' \in Kept \cup {NoFile, Garbled}
      /\ written' \in BOOLEAN
      /\ \/ Loaded' = [locked |-> TRUE, since |-> wall]
         \/ Loaded' = Loaded /\ ~written'
  BY <1>0, <1>1, <1>2, Persisted
<1>5. TypeOK'
  BY <1>0, <1>1, <1>2, <1>3, <1>4 DEF TypeOK
<1>6. FileWellFormed'
  BY <1>1, <1>4 DEF PrivacyInv, FileWellFormed
<1>7. FileHoldsState'
  BY <1>2, <1>4 DEF FileHoldsState
<1>8. StampsAreOld'
  <2>1. enteredAt' <= now' /\ (steps' = 0 => steps = 0)
    BY <1>0, <1>2, <1>3 DEF TypeOK
  <2>2. ASSUME steps' = 0
        PROVE  /\ skew' = 0 /\ since' <= enteredAt'
               /\ Loaded'.locked => Loaded'.since <= enteredAt'
    <3>1. skew = 0 /\ wall = now
      BY <1>0, <1>3, <2>2 DEF PrivacyInv, StampsAreOld, TypeOK
    <3>2. since' <= enteredAt'
      BY <1>0, <1>2, <3>1 DEF TypeOK
    <3>3. CASE Loaded' = [locked |-> TRUE, since |-> wall]
      BY <1>0, <1>2, <1>3, <3>1, <3>2, <3>3 DEF TypeOK
    <3>4. CASE Loaded' = Loaded
      <4>1. ASSUME Loaded.locked PROVE Loaded.since \in Int
        BY <1>0, <4>1, LoadedType DEF PrivacyInv, FileWellFormed
      <4> QED
        BY <1>0, <1>2, <1>3, <2>2, <3>1, <3>4, <4>1
           DEF PrivacyInv, StampsAreOld, TypeOK
    <3> QED
      BY <1>3, <1>4, <3>1, <3>2, <3>3, <3>4
  <2> QED
    BY <2>1, <2>2 DEF StampsAreOld
<1> QED
  BY <1>5, <1>6, <1>7, <1>8 DEF PrivacyInv

\* Leaving, by the PIN or by the undo button, writes "not locked".
LEMMA LeaveStep ==
  ASSUME PrivacyInv,
         locked' = FALSE, since' = NoTime, Persist(FALSE, NoTime),
         UNCHANGED <<available, clocks, enteredAt>>,
         failed' \in 0 .. (MaxAttempts - 1), lockouts' \in Nat,
         until' \in Int \cup {NoTime}, guesses' \in Nat, cleared' \in Nat
  PROVE  PrivacyInv'
<1>0. TypeOK
  BY DEF PrivacyInv
<1>1. UNCHANGED <<available, now, skew, steps, enteredAt>>
  BY DEF clocks
<1>2. /\ file' \in Kept \cup {NoFile, Garbled}
      /\ written' \in BOOLEAN
      /\ \/ Loaded' = [locked |-> FALSE, since |-> NoTime]
         \/ Loaded' = Loaded /\ ~written'
  BY <1>0, Persisted
<1>3. TypeOK'
  BY <1>0, <1>1, <1>2 DEF TypeOK
<1>4. FileWellFormed'
  BY <1>2 DEF PrivacyInv, FileWellFormed
<1>5. FileHoldsState'
  BY <1>2 DEF FileHoldsState
<1>6. StampsAreOld'
  BY <1>1, <1>2 DEF PrivacyInv, StampsAreOld
<1> QED
  BY <1>3, <1>4, <1>5, <1>6 DEF PrivacyInv

\* Every step keeps the invariant.
LEMMA PrivacyStep ==
  ASSUME PrivacyInv, [Next]_vars
  PROVE  PrivacyInv'
<1>0. TypeOK
  BY DEF PrivacyInv
<1> USE <1>0
<1>1. CASE Lock
  BY <1>1, LockStep
<1>2. CASE UnlockRight
  <2>1. /\ failed' = 0 /\ lockouts' = 0 /\ until' = NoTime
        /\ guesses' = 0 /\ cleared' = now
        /\ UNCHANGED <<available, clocks, enteredAt>>
    BY <1>2 DEF UnlockRight
  <2>2. /\ failed' \in 0 .. (MaxAttempts - 1) /\ lockouts' \in Nat
        /\ until' \in Int \cup {NoTime} /\ guesses' \in Nat /\ cleared' \in Nat
    BY <2>1, PrivacyAssumption DEF TypeOK
  <2>3. CASE locked
    <3>1. locked' = FALSE /\ since' = NoTime /\ Persist(FALSE, NoTime)
      BY <1>2, <2>3 DEF UnlockRight
    <3> QED
      BY <2>1, <2>2, <3>1, LeaveStep
  <2>4. CASE ~locked
    <3>1. UNCHANGED <<locked, since, file, written>>
      BY <1>2, <2>4 DEF UnlockRight
    <3> QED
      BY <2>1, <2>2, <3>1
         DEF PrivacyInv, TypeOK, FileWellFormed, FileHoldsState, StampsAreOld,
             Loaded, clocks
  <2> QED
    BY <2>3, <2>4
<1>3. CASE UnlockWrong
  <2>1. UNCHANGED <<available, locked, since, now, skew, steps, file,
                    enteredAt, written, cleared>>
    BY <1>3 DEF UnlockWrong, state, clocks
  <2>2. guesses' \in Nat
    BY <1>3 DEF UnlockWrong, TypeOK
  <2>3. Cooldown(lockouts + 1) \in Int
    <3>1. lockouts + 1 \in Nat \ {0}
      BY DEF TypeOK
    <3> QED
      BY <3>1, CooldownInt
  <2>4. /\ failed' \in 0 .. (MaxAttempts - 1) /\ lockouts' \in Nat
        /\ until' \in Int \cup {NoTime}
    <3> DEFINE cool == Cooldown(lockouts + 1)
    <3>1. CASE failed + 1 >= MaxAttempts
      <4>1. /\ lockouts' = lockouts + 1 /\ failed' = 0
            /\ until' = Wall + Ticks(cool)
        BY <1>3, <3>1 DEF UnlockWrong
      <4> HIDE DEF cool
      <4>2. Wall + Ticks(cool) \in Int
        BY <2>3, PrivacyAssumption DEF Wall, Ticks, TypeOK, cool
      <4> QED
        BY <4>1, <4>2, PrivacyAssumption DEF TypeOK
    <3>2. CASE ~(failed + 1 >= MaxAttempts)
      <4>1. failed' = failed + 1 /\ UNCHANGED <<lockouts, until>>
        BY <1>3, <3>2 DEF UnlockWrong
      <4> QED
        BY <4>1, <3>2, PrivacyAssumption DEF TypeOK
    <3> QED
      BY <3>1, <3>2
  <2> QED
    BY <2>1, <2>2, <2>4
       DEF PrivacyInv, TypeOK, FileWellFormed, FileHoldsState, StampsAreOld, Loaded
<1>4. CASE Undo
  <2>1. /\ locked' = FALSE /\ since' = NoTime /\ Persist(FALSE, NoTime)
        /\ UNCHANGED <<available, clocks, enteredAt>>
        /\ UNCHANGED <<failed, lockouts, until, guesses, cleared>>
    BY <1>4 DEF Undo, counters
  <2>2. /\ failed' \in 0 .. (MaxAttempts - 1) /\ lockouts' \in Nat
        /\ until' \in Int \cup {NoTime} /\ guesses' \in Nat /\ cleared' \in Nat
    BY <2>1 DEF TypeOK
  <2> QED
    BY <2>1, <2>2, LeaveStep
<1>5. CASE Restart
  <2>1. /\ available' \in BOOLEAN
        /\ locked' = Loaded.locked /\ since' = Loaded.since
        /\ failed' = 0 /\ lockouts' = 0 /\ until' = NoTime
        /\ guesses' = 0 /\ cleared' = now /\ written' = TRUE
        /\ UNCHANGED <<now, skew, steps, file, enteredAt>>
    BY <1>5 DEF Restart, clocks
  <2>2. Loaded' = Loaded
    BY <2>1 DEF Loaded
  <2>3. TypeOK'
    BY <2>1, LoadedType, PrivacyAssumption
       DEF PrivacyInv, FileWellFormed, TypeOK
  <2>4. FileHoldsState'
    BY <2>1, <2>2, LoadedType DEF FileHoldsState, Kept
  <2> QED
    BY <2>1, <2>2, <2>3, <2>4 DEF PrivacyInv, FileWellFormed, StampsAreOld
<1>6. CASE LoseFile
  <2>1. /\ file' \in {NoFile, Garbled} /\ written' = FALSE
        /\ UNCHANGED <<available, locked, since, failed, lockouts, until, guesses,
                       cleared, now, skew, steps, enteredAt>>
    BY <1>6 DEF LoseFile, state, counters, clocks
  <2>2. Loaded' = [locked |-> FALSE, since |-> NoTime]
    BY <2>1 DEF Loaded
  <2> QED
    BY <2>1, <2>2
       DEF PrivacyInv, TypeOK, FileWellFormed, FileHoldsState, StampsAreOld
<1>7. CASE Tick
  <2>1. /\ now' = now + 1
        /\ UNCHANGED <<available, locked, since, failed, lockouts, until, guesses,
                       cleared, skew, steps, file, enteredAt, written>>
    BY <1>7 DEF Tick, state, counters
  <2> QED
    BY <2>1 DEF PrivacyInv, TypeOK, FileWellFormed, FileHoldsState, StampsAreOld, Loaded
<1>8. CASE StepWallClock
  <2>1. /\ skew' \in Int /\ steps' = steps + 1
        /\ UNCHANGED <<available, locked, since, failed, lockouts, until, guesses,
                       cleared, now, file, enteredAt, written>>
    BY <1>8, PrivacyAssumption DEF StepWallClock, state, counters, TypeOK
  <2>2. steps' \in Nat /\ steps' # 0
    BY <2>1 DEF TypeOK
  <2> QED
    BY <2>1, <2>2
       DEF PrivacyInv, TypeOK, FileWellFormed, FileHoldsState, StampsAreOld, Loaded
<1>9. CASE UNCHANGED vars
  BY <1>9 DEF PrivacyInv, TypeOK, FileWellFormed, FileHoldsState, StampsAreOld,
              Loaded, vars, state, counters, clocks
<1> QED
  BY <1>1, <1>2, <1>3, <1>4, <1>5, <1>6, <1>7, <1>8, <1>9 DEF Next

\* The inductive invariant holds in every reachable state, across restarts
\* (privacy.py, lock, unlock, undo and _load).
THEOREM PrivacyInvAlways == Spec => []PrivacyInv
<1>1. Init => PrivacyInv
  BY PrivacyInit
<1>2. PrivacyInv /\ [Next]_vars => PrivacyInv'
  BY PrivacyStep
<1> QED
  BY <1>1, <1>2, PTL DEF Spec

\* The state and the file are well formed in every reachable state.
THEOREM TypeCorrect == Spec => []TypeOK
BY PrivacyInvAlways, PTL DEF PrivacyInv

\* A restart finds the lock as it was left, unless a write failed.
THEOREM PowerCycleKeepsLock == Spec => []FileHoldsState
BY PrivacyInvAlways, PTL DEF PrivacyInv

\* With the clock running true, the undo button works only within UndoGrace of
\* the entry, over any number of re-locks, failed writes and restarts; nothing
\* but the PIN, that button or a restart without a faithful file ends the lock.
THEOREM NoOtherWayOut == Spec => LeftByPinOrInGrace
<1> DEFINE Leaves ==
      locked /\ ~locked' =>
        \/ UnlockRight
        \/ Undo /\ (steps = 0 => now - enteredAt <= Ticks(UndoGrace))
        \/ Restart /\ ~written
<1>1. ASSUME PrivacyInv, [Next]_vars
      PROVE  [Leaves]_vars
  <2>0. TypeOK
    BY <1>1 DEF PrivacyInv
  <2> SUFFICES ASSUME locked, ~locked', Next
               PROVE  Leaves
    BY <1>1
  <2>1. CASE UnlockRight
    BY <2>1
  <2>2. CASE Undo
    <3>1. ASSUME steps = 0
          PROVE  now - enteredAt <= Ticks(UndoGrace)
      <4>1. skew = 0 /\ since <= enteredAt /\ since \in Int
        BY <1>1, <2>0, <3>1 DEF PrivacyInv, StampsAreOld, TypeOK
      <4> DEFINE grace == Ticks(UndoGrace)
      <4>2. grace \in Int
        BY PrivacyAssumption DEF Ticks
      <4>3. Wall - since <= grace
        <5>1. InUndoWindow
          BY <2>2 DEF Undo
        <5> QED
          BY <5>1 DEF InUndoWindow
      <4> HIDE DEF grace
      <4>4. Wall = now
        BY <2>0, <4>1 DEF Wall, TypeOK
      <4>5. now - enteredAt <= grace
        BY <2>0, <4>1, <4>2, <4>3, <4>4 DEF TypeOK
      <4> QED
        BY <4>5 DEF grace
    <3> QED
      BY <2>2, <3>1
  <2>3. CASE Restart
    <3>1. ~Loaded.locked
      BY <2>3 DEF Restart
    <3>2. ASSUME written
          PROVE  FALSE
      <4>1. Loaded = [locked |-> locked, since |-> since]
        BY <1>1, <3>2 DEF PrivacyInv, FileHoldsState
      <4>2. Loaded.locked = locked
        BY <4>1
      <4> QED
        BY <3>1, <4>2
    <3> QED
      BY <2>3, <3>2
  <2>4. CASE Lock \/ UnlockWrong \/ LoseFile \/ Tick \/ StepWallClock
    BY <2>4 DEF Lock, UnlockWrong, LoseFile, Tick, StepWallClock, state
  <2> QED
    BY <2>1, <2>2, <2>3, <2>4 DEF Next
<1> QED
  BY <1>1, PrivacyInvAlways, PTL DEF Spec, LeftByPinOrInGrace, Leaves

-----------------------------------------------------------------------------
(***************************************************************************)
(* Guessing.  The counters say how many cooldowns have been served: since  *)
(* they were cleared there were lockouts times MaxAttempts wrong PINs and  *)
(* failed more, and the next one is heard only when the last cooldown has  *)
(* all but run out.  How long the first k cooldowns are (Served) is        *)
(* defined by recursion; that there is such a function, and that its       *)
(* values are whole numbers, is shown by induction first.                  *)
(***************************************************************************)
\* A set of numbers that has 0 and with every number the next has them all.
LEMMA SetInduction ==
  ASSUME NEW S \in SUBSET Nat, 0 \in S, \A n \in S : n + 1 \in S
  PROVE  S = Nat
<1> DEFINE T == Nat \ S
           R == OpToRel(<, Nat)
<1>1. SUFFICES ASSUME T # {} PROVE FALSE
  OBVIOUS
<1>2. PICK x \in T : \A y \in T : ~ (<<y, x>> \in R)
  <2> HIDE DEF R
  <2>1. IsWellFoundedOn(R, Nat)
    BY NatLessThanWellFounded DEF R
  <2>2. T \subseteq Nat
    OBVIOUS
  <2> HIDE DEF T
  <2> QED
    BY <1>1, <2>1, <2>2, WFMin
<1>3. \A y \in T : ~(y < x)
  BY <1>2 DEF OpToRel
<1>4. x # 0 /\ x - 1 \in Nat /\ x - 1 < x
  OBVIOUS
<1>5. x - 1 \in S
  BY <1>3, <1>4
<1>6. (x - 1) + 1 \in S
  BY <1>5
<1> QED
  BY <1>4, <1>6

\* What the k-th cooldown costs, at least.
Gain(k) == Ticks(Cooldown(k)) - (TicksPerSecond - 1)

Serves(f, n) == f = [k \in 0 .. n |-> IF k = 0 THEN 0 ELSE f[k - 1] + Gain(k)]

LEMMA GainInt == \A k \in Nat \ {0} : Gain(k) \in Int
<1> SUFFICES ASSUME NEW k \in Nat \ {0} PROVE Gain(k) \in Int
  OBVIOUS
<1>1. Cooldown(k) \in Int
  BY CooldownInt
<1> QED
  BY <1>1, PrivacyAssumption DEF Gain, Ticks

LEMMA ServedExists == \A n \in Nat : \E f : Serves(f, n)
<1> DEFINE S == {n \in Nat : \E f : Serves(f, n)}
<1>1. 0 \in S
  <2>1. Serves([k \in 0 .. 0 |-> 0], 0)
    BY DEF Serves
  <2> QED
    BY <2>1
<1>2. ASSUME NEW n \in S
      PROVE  n + 1 \in S
  <2>1. PICK f : Serves(f, n)
    OBVIOUS
  <2> DEFINE g == [k \in 0 .. (n + 1) |-> IF k = n + 1 THEN f[n] + Gain(n + 1) ELSE f[k]]
  <2>2. ASSUME NEW k \in 0 .. (n + 1)
        PROVE  g[k] = IF k = 0 THEN 0 ELSE g[k - 1] + Gain(k)
    <3>1. CASE k = n + 1
      BY <3>1
    <3>2. CASE k # n + 1 /\ k # 0
      <4>1. k \in 0 .. n /\ k - 1 \in 0 .. (n + 1) /\ k - 1 # n + 1
        BY <3>2
      <4>2. g[k] = f[k] /\ g[k - 1] = f[k - 1]
        BY <3>2, <4>1
      <4>3. f[k] = f[k - 1] + Gain(k)
        BY <2>1, <3>2, <4>1 DEF Serves
      <4> QED
        BY <3>2, <4>2, <4>3
    <3>3. CASE k # n + 1 /\ k = 0
      BY <2>1, <3>3 DEF Serves
    <3> QED
      BY <3>1, <3>2, <3>3
  <2>3. g = [k \in 0 .. (n + 1) |-> IF k = 0 THEN 0 ELSE g[k - 1] + Gain(k)]
    <3>1. g = [k \in 0 .. (n + 1) |-> g[k]]
      OBVIOUS
    <3> HIDE DEF g
    <3> QED
      BY <2>2, <3>1
  <2> HIDE DEF g
  <2>4. Serves(g, n + 1)
    BY <2>3 DEF Serves
  <2> QED
    BY <2>4
<1>3. S = Nat
  <2> HIDE DEF S
  <2>1. S \in SUBSET Nat
    BY DEF S
  <2> QED
    BY <1>1, <1>2, <2>1, SetInduction
<1> QED
  BY <1>3

LEMMA ServedDef ==
  /\ Served[0] = 0
  /\ \A k \in 1 .. MaxNow : Served[k] = Served[k - 1] + Gain(k)
<1>1. MaxNow \in Nat
  BY PrivacyAssumption
<1>2. Served = CHOOSE f : Serves(f, MaxNow)
  BY DEF Served, Serves, Gain
<1>3. Serves(Served, MaxNow)
  BY <1>1, <1>2, ServedExists
<1> QED
  BY <1>1, <1>3 DEF Serves

LEMMA ServedInt == \A k \in 0 .. MaxNow : Served[k] \in Int
<1> DEFINE S == {n \in Nat : n <= MaxNow => Served[n] \in Int}
<1>1. 0 \in S
  BY ServedDef
<1>2. ASSUME NEW n \in S
      PROVE  n + 1 \in S
  <2>1. CASE n + 1 <= MaxNow
    <3>1. n + 1 \in 1 .. MaxNow /\ n <= MaxNow /\ (n + 1) - 1 = n /\ n + 1 \in Nat \ {0}
      BY <2>1, PrivacyAssumption
    <3>2. Served[n + 1] = Served[n] + Gain(n + 1)
      BY <3>1, ServedDef
    <3> QED
      BY <3>1, <3>2, GainInt
  <2> QED
    BY <2>1
<1>3. S = Nat
  <2> HIDE DEF S
  <2>1. S \in SUBSET Nat
    BY DEF S
  <2> QED
    BY <1>1, <1>2, <2>1, SetInduction
<1> QED
  BY <1>3

\* The counters, and the cooldowns they stand for.
Counted == guesses = lockouts * MaxAttempts + failed
LastCooldown ==
  /\ until = NoTime <=> lockouts = 0
  /\ lockouts \in 1 .. MaxNow => until - (TicksPerSecond - 1) >= cleared + Served[lockouts]
Waited ==
  \A k \in 0 .. MaxNow :
    k < lockouts \/ (k = lockouts /\ failed > 0) => now - cleared >= Served[k]

SlowInv == cleared <= now /\ (steps = 0 => Counted /\ LastCooldown /\ Waited)

LEMMA SlowInvMeans == PrivacyInv /\ SlowInv => GuessingIsSlow
<1> SUFFICES ASSUME PrivacyInv, SlowInv, steps = 0, NEW k \in 0 .. MaxNow,
                    guesses > k * MaxAttempts
             PROVE  now - cleared >= Served[k]
  BY DEF GuessingIsSlow
<1>1. /\ guesses = lockouts * MaxAttempts + failed /\ failed \in Nat /\ failed < MaxAttempts
      /\ lockouts \in Nat /\ MaxAttempts \in Nat \ {0} /\ k \in Nat
  BY PrivacyAssumption DEF SlowInv, Counted, PrivacyInv, TypeOK
<1>2. k < lockouts \/ (k = lockouts /\ failed > 0)
  <2>1. ASSUME k > lockouts
        PROVE  FALSE
    <3>1. k >= lockouts + 1
      BY <1>1, <2>1
    <3>2. k * MaxAttempts >= (lockouts + 1) * MaxAttempts
      BY <1>1, <3>1
    <3>3. (lockouts + 1) * MaxAttempts = lockouts * MaxAttempts + MaxAttempts
      BY <1>1
    <3>4. lockouts * MaxAttempts \in Nat /\ k * MaxAttempts \in Nat
      BY <1>1
    <3> QED
      BY <1>1, <3>2, <3>3, <3>4
  <2>2. CASE k = lockouts
    <3>1. lockouts * MaxAttempts \in Nat
      BY <1>1
    <3> QED
      BY <1>1, <2>2, <3>1
  <2> QED
    BY <1>1, <2>1, <2>2
<1> QED
  BY <1>2 DEF SlowInv, Waited

\* Clearing the counters clears what has to be waited for.
LEMMA Cleared ==
  ASSUME TypeOK, failed' = 0, lockouts' = 0, until' = NoTime, guesses' = 0, cleared' = now,
         UNCHANGED <<now, steps>>
  PROVE  SlowInv'
<1>1. 0 * MaxAttempts = 0 /\ MaxNow \in Nat /\ now \in Nat
  BY PrivacyAssumption DEF TypeOK
<1> QED
  BY <1>1 DEF SlowInv, Counted, LastCooldown, Waited

\* A wrong PIN is heard: the cooldown before it has been served.
LEMMA WrongStep ==
  ASSUME PrivacyInv, SlowInv, UnlockWrong PROVE SlowInv'
<1>1. /\ TypeOK /\ now \in Nat /\ cleared \in Nat /\ lockouts \in Nat /\ failed \in Nat
      /\ guesses \in Nat /\ MaxAttempts \in Nat \ {0} /\ TicksPerSecond \in Nat \ {0}
      /\ until \in Int \cup {NoTime} /\ NoTime \notin Int /\ MaxNow \in Nat
  BY PrivacyAssumption DEF PrivacyInv, TypeOK
<1>2. UNCHANGED <<now, skew, steps, cleared>> /\ guesses' = guesses + 1 /\ ~CoolingDown
  BY DEF UnlockWrong, clocks
<1>3. cleared <= now
  BY DEF SlowInv
<1> SUFFICES ASSUME steps = 0 PROVE Counted' /\ LastCooldown' /\ Waited'
  BY <1>2, <1>3 DEF SlowInv
<1>4. Counted /\ LastCooldown /\ Waited /\ Wall = now
  BY <1>1 DEF SlowInv, PrivacyInv, StampsAreOld, Wall
<1>5. lockouts <= MaxNow => now - cleared >= Served[lockouts]
  <2>1. CASE lockouts = 0
    BY <1>1, <1>3, <2>1, ServedDef
  <2>2. CASE lockouts \in 1 .. MaxNow
    <3>1. until \in Int /\ until - now < TicksPerSecond
      BY <1>1, <1>2, <1>4, <2>2 DEF CoolingDown, LastCooldown
    <3>2. until - (TicksPerSecond - 1) >= cleared + Served[lockouts] /\ Served[lockouts] \in Int
      BY <1>4, <2>2, ServedInt DEF LastCooldown
    <3> QED
      BY <1>1, <3>1, <3>2
  <2> QED
    BY <1>1, <2>1, <2>2
<1>6. \A k \in 0 .. MaxNow : k <= lockouts => now - cleared >= Served[k]
  BY <1>1, <1>4, <1>5 DEF Waited
<1>7. CASE failed + 1 >= MaxAttempts
  <2> DEFINE cool == Cooldown(lockouts + 1)
  <2>1. lockouts' = lockouts + 1 /\ until' = now + Ticks(cool) /\ failed' = 0
    BY <1>4, <1>7 DEF UnlockWrong
  <2>2. cool \in Int /\ Ticks(cool) \in Int
    <3>1. cool \in Int
      BY <1>1, CooldownInt
    <3> HIDE DEF cool
    <3> QED
      BY <1>1, <3>1 DEF Ticks
  <2>3. Counted'
    <3>1. failed + 1 = MaxAttempts
      BY <1>1, <1>7 DEF TypeOK
    <3>2. (lockouts + 1) * MaxAttempts = lockouts * MaxAttempts + MaxAttempts
          /\ lockouts * MaxAttempts \in Nat
      BY <1>1
    <3> HIDE DEF cool
    <3> QED
      BY <1>1, <1>2, <1>4, <2>1, <3>1, <3>2 DEF Counted
  <2>4. ASSUME lockouts' \in 1 .. MaxNow
        PROVE  until' - (TicksPerSecond - 1) >= cleared' + Served[lockouts']
    <3>1. /\ Served[lockouts + 1] = Served[lockouts] + Gain(lockouts + 1)
          /\ Served[lockouts] \in Int /\ now - cleared >= Served[lockouts]
      <4>1. /\ lockouts + 1 \in 1 .. MaxNow /\ lockouts \in 0 .. MaxNow /\ (lockouts + 1) - 1 = lockouts
        BY <1>1, <2>1, <2>4
      <4> QED
        BY <1>1, <1>5, <4>1, ServedDef, ServedInt
    <3>2. Gain(lockouts + 1) = Ticks(cool) - (TicksPerSecond - 1)
      BY DEF Gain
    <3> HIDE DEF cool
    <3> QED
      BY <1>1, <1>2, <2>1, <2>2, <3>1, <3>2
  <2>5. until' # NoTime
    <3> HIDE DEF cool
    <3> QED
      BY <1>1, <2>1, <2>2
  <2>6. LastCooldown'
    BY <1>1, <2>1, <2>4, <2>5 DEF LastCooldown
  <2>7. Waited'
    BY <1>1, <1>2, <1>6, <2>1 DEF Waited
  <2> QED
    BY <2>3, <2>6, <2>7
<1>8. CASE ~(failed + 1 >= MaxAttempts)
  <2>1. failed' = failed + 1 /\ UNCHANGED <<lockouts, until>>
    BY <1>8 DEF UnlockWrong
  <2>2. Counted'
    <3>1. lockouts * MaxAttempts \in Nat
      BY <1>1
    <3> QED
      BY <1>1, <1>2, <1>4, <2>1, <3>1 DEF Counted
  <2>3. LastCooldown' /\ Waited'
    BY <1>1, <1>2, <1>4, <1>6, <2>1 DEF LastCooldown, Waited
  <2> QED
    BY <2>2, <2>3
<1> QED
  BY <1>7, <1>8

LEMMA SlowStep == PrivacyInv /\ SlowInv /\ [Next]_vars => SlowInv'
<1> SUFFICES ASSUME PrivacyInv, SlowInv, [Next]_vars PROVE SlowInv'
  OBVIOUS
<1>1. TypeOK
  BY DEF PrivacyInv
<1>2. CASE UnlockWrong
  BY <1>2, WrongStep
<1>3. CASE UnlockRight
  BY <1>1, <1>3, Cleared DEF UnlockRight, clocks
<1>4. CASE Restart
  BY <1>1, <1>4, Cleared DEF Restart, clocks
<1>5. CASE Lock \/ Undo \/ LoseFile \/ UNCHANGED vars
  <2>1. UNCHANGED <<failed, lockouts, until, guesses, cleared, now, steps>>
    BY <1>5 DEF Lock, Undo, LoseFile, vars, counters, clocks
  <2> QED
    BY <2>1 DEF SlowInv, Counted, LastCooldown, Waited
<1>6. CASE Tick
  <2>1. now' = now + 1 /\ UNCHANGED <<failed, lockouts, until, guesses, cleared, steps>>
    BY <1>6 DEF Tick, counters
  <2>2. now \in Nat /\ cleared \in Nat /\ cleared <= now
    BY <1>1 DEF TypeOK, SlowInv
  <2>3. Waited => Waited'
    <3> SUFFICES ASSUME Waited, NEW k \in 0 .. MaxNow,
                        k < lockouts \/ (k = lockouts /\ failed > 0)
                 PROVE  (now + 1) - cleared >= Served[k]
      BY <2>1 DEF Waited
    <3>1. now - cleared >= Served[k] /\ Served[k] \in Int
      BY ServedInt DEF Waited
    <3> QED
      BY <2>2, <3>1
  <2>4. (Counted => Counted') /\ (LastCooldown => LastCooldown')
    BY <2>1 DEF Counted, LastCooldown
  <2> QED
    BY <2>1, <2>2, <2>3, <2>4 DEF SlowInv
<1>7. CASE StepWallClock
  BY <1>1, <1>7 DEF StepWallClock, TypeOK, SlowInv, counters
<1> QED
  BY <1>2, <1>3, <1>4, <1>5, <1>6, <1>7 DEF Next

\* While nobody steps the clock, wrong PINs beyond MaxAttempts per lock-out
\* have to wait for every cooldown so far (privacy.py, verify_and_unlock and
\* cooldown_remaining), for any number of attempts and any cooldowns.
THEOREM GuessingAlwaysSlow == Spec => []GuessingIsSlow
<1>1. Init => SlowInv
  <2> SUFFICES ASSUME Init PROVE SlowInv
    OBVIOUS
  <2>1. 0 * MaxAttempts = 0 /\ MaxNow \in Nat
    BY PrivacyAssumption
  <2> QED
    BY <2>1 DEF Init, SlowInv, Counted, LastCooldown, Waited
<1> QED
  BY <1>1, SlowStep, SlowInvMeans, PrivacyInvAlways, PTL DEF Spec
=============================================================================
