---------------------------- MODULE DisplayProofs ----------------------------
(***************************************************************************)
(* Theorems about Display, for any number of concurrent calls, any levels  *)
(* and any number of effector errors.                                      *)
(*                                                                         *)
(* The argument.  As long as nothing doubtful happened at most one thread  *)
(* is on its way to the panel (Alone), so that there is one level the      *)
(* panel is Heading for: that of the call in _apply, or else the store's   *)
(* brightness.  What the store, the policy and the shutdown promise of the *)
(* panel at rest is an invariant of the level it is heading for.           *)
(***************************************************************************)
EXTENDS Display, TLAPS

Under(s, of) == calls[s] # Nothing /\ calls[s].of = of

\* The level the panel is on its way to is one of L.
Heading(L) ==
  /\ \A s \in Slots : Applying(s) => calls[s].level \in L
  /\ (\A s \in Slots : ~Applying(s)) => brightness \in L

-----------------------------------------------------------------------------
(***************************************************************************)
(* The inductive invariant.                                                *)
(***************************************************************************)
\* The second half of a PUT is a level somebody asked for.
Todos == \A s \in Slots : calls[s] # Nothing /\ calls[s].todo # Nothing =>
  calls[s].of = "put" /\ calls[s].todo \in Levels

\* The countdown is in at most one call, and that call is its dim.
Dims ==
  /\ \A s \in Slots : Under(s, "dim") => countdown = "dimming" /\ dimmed
  /\ \A s, t \in Slots : Under(s, "dim") /\ Under(t, "dim") => s = t
  /\ phase = "exiting" <=> countdown = "stopped"
  /\ phase # "exiting" => (dimmed <=> countdown # "sleeping")

\* What the lifespan's phases leave.
Phases ==
  /\ phase # "serving" => ~nightMode /\ \A s \in Slots : ~Under(s, "put")
  /\ \A s \in Slots : Under(s, "shutdown") =>
       /\ phase = "restoring" /\ calls[s].level = reference
       /\ available => calls[s].at = "apply"
  /\ \A s, t \in Slots : Under(s, "shutdown") /\ Under(t, "shutdown") => s = t

\* No effector, nothing to wait for.
Idle == \A s \in Slots : Applying(s) => available

\* Errors leave a trace.
Errors == \A s \in Slots : calls[s] # Nothing /\ calls[s].thread = "failed" => failures > 0

Alone == orphans = {} /\ \A s, t \in Slots : Applying(s) /\ Applying(t) => s = t

\* What the panel shows while a call moves it and when none does.
Shows ==
  /\ \A s \in Slots : Applying(s) =>
       panel = IF calls[s].thread = "ok" THEN calls[s].level ELSE brightness
  /\ (\A s \in Slots : ~Applying(s)) => brightness = panel

Honest == ~doubt => Alone /\ (available => Shows)

DisplayBase == TypeOK /\ Todos /\ Dims /\ Phases /\ Idle /\ Errors /\ Honest

-----------------------------------------------------------------------------
(***************************************************************************)
(* Types.                                                                  *)
(***************************************************************************)
\* A night level is a level, and never 0.
LEMMA NightLevels ==
  ASSUME NEW level \in Level
  PROVE  NightOf(level) \in Level /\ NightOf(level) # 0
<1> DEFINE p == level * NightPct
<1>1. p \in 0 .. 10000
  BY DisplayAssumption DEF Level
<1> HIDE DEF p
<1>2. /\ p \div 100 \in 0 .. 100 /\ p % 100 \in 0 .. 99
      /\ p = 100 * (p \div 100) + (p % 100)
  BY <1>1
<1>3. p \div 100 = 100 => p % 100 = 0
  BY <1>1, <1>2
<1>4. NightOf(level) =
        LET q == p \div 100
            r == p % 100
            n == IF 2 * r < 100 \/ (2 * r = 100 /\ q % 2 = 0) THEN q ELSE q + 1
        IN  IF n < 1 THEN 1 ELSE n
  BY DEF NightOf, p
<1>5. NightOf(level) \in 1 .. 100
  BY <1>2, <1>3, <1>4
<1> QED
  BY <1>5 DEF Level

CallsType == [Slots -> Call \cup {Nothing}]

\* A call in one slot starts, ends or goes on; the others stand still.
LEMMA OneCall ==
  ASSUME TypeOK, NEW s \in Slots, NEW c \in Call \cup {Nothing}, calls' = [calls EXCEPT ![s] = c]
  PROVE  /\ calls' \in CallsType /\ calls'[s] = c
         /\ \A t \in Slots \ {s} : calls'[t] = calls[t]
BY DEF TypeOK, CallsType

\* _apply: the call it leaves in its slot, and what is known of the panel.
LEMMA Applies ==
  ASSUME TypeOK, Idle, Errors, Honest, NEW s \in Slots, ~Applying(s),
         NEW of \in {"put", "dim", "restore", "shutdown"}, NEW level \in Level,
         NEW todo \in Level \cup {Nothing},
         Apply(s, of, level, todo), UNCHANGED <<available, panel, orphans, failures>>,
         doubt' = (doubt \/ Moving)
  PROVE  /\ calls' \in CallsType /\ brightness' \in Level
         /\ \A t \in Slots \ {s} : calls'[t] = calls[t]
         /\ calls'[s] # Nothing /\ calls'[s].of = of /\ calls'[s].level = level
         /\ calls'[s].todo = todo /\ (available => calls'[s].at = "apply")
         /\ Idle' /\ Errors' /\ doubt' \in BOOLEAN
         /\ ~doubt' => ~doubt /\ ~Moving /\ Alone' /\ (available => Shows') /\ Heading({level})'
<1>1. doubt' \in BOOLEAN /\ (~doubt' => ~doubt /\ ~Moving)
  <2>1. doubt \in BOOLEAN
    BY DEF TypeOK
  <2> QED
    BY <2>1, Zenon
<1>2. CASE available
  <2> DEFINE c == [of |-> of, at |-> "apply", level |-> level, thread |-> "running", todo |-> todo]
  <2>1. calls' = [calls EXCEPT ![s] = c] /\ brightness' = brightness
    BY <1>2 DEF Apply
  <2>2. c \in Call /\ c # Nothing
    BY NothingAssumption DEF Call
  <2> HIDE DEF c
  <2>3. /\ calls' \in CallsType /\ calls'[s] = c /\ \A t \in Slots \ {s} : calls'[t] = calls[t]
    BY <2>1, <2>2, OneCall
  <2>4. /\ c.of = of /\ c.at = "apply" /\ c.level = level /\ c.thread = "running" /\ c.todo = todo
    BY DEF c
  <2>5. /\ Applying(s)' /\ \A t \in Slots \ {s} : Applying(t)' <=> Applying(t)
    BY <2>2, <2>3, <2>4 DEF Applying
  <2>6. Idle' /\ Errors'
    BY <1>2, <2>3, <2>4, <2>5 DEF Idle, Errors
  <2>7. ASSUME ~doubt' PROVE Alone' /\ Shows' /\ Heading({level})'
    <3>1. orphans = {} /\ \A t \in Slots : ~Applying(t)
      BY <1>1, <2>7 DEF Moving
    <3>2. \A t \in Slots : Applying(t)' <=> t = s
      BY <2>5, <3>1
    <3>3. brightness = panel
      BY <1>1, <1>2, <2>7, <3>1 DEF Honest, Shows
    <3> QED
      BY <2>1, <2>3, <2>4, <3>1, <3>2, <3>3 DEF Alone, Shows, Heading
  <2> QED
    BY <1>1, <2>1, <2>2, <2>3, <2>4, <2>6, <2>7 DEF TypeOK
<1>3. CASE ~available
  <2> DEFINE c == [of |-> of, at |-> "emit", level |-> level, thread |-> "ok", todo |-> todo]
  <2>1. calls' = [calls EXCEPT ![s] = c] /\ brightness' = level
    BY <1>3 DEF Apply
  <2>2. c \in Call /\ c # Nothing
    BY NothingAssumption DEF Call
  <2> HIDE DEF c
  <2>3. /\ calls' \in CallsType /\ calls'[s] = c /\ \A t \in Slots \ {s} : calls'[t] = calls[t]
    BY <2>1, <2>2, OneCall
  <2>4. /\ c.of = of /\ c.at = "emit" /\ c.level = level /\ c.thread = "ok" /\ c.todo = todo
    BY DEF c
  <2>5. \A t \in Slots : ~Applying(t)'
    BY <1>3, <2>3, <2>4 DEF Applying, Idle
  <2>6. Idle' /\ Errors'
    BY <2>3, <2>4, <2>5 DEF Idle, Errors
  <2>7. ASSUME ~doubt' PROVE Alone' /\ Heading({level})'
    BY <1>1, <2>1, <2>5, <2>7 DEF Moving, Alone, Heading
  <2> QED
    BY <1>1, <1>3, <2>1, <2>2, <2>3, <2>4, <2>6, <2>7
<1> QED
  BY <1>2, <1>3

\* set_brightness: the panel is on its way to the level, or there already.
LEMMA SetsBrightness ==
  ASSUME DisplayBase, NEW s \in Slots, ~Applying(s), NEW level \in Levels,
         SetBrightness(s, level), UNCHANGED <<panel, orphans, failures>>,
         doubt' = (doubt \/ Moving)
  PROVE  /\ calls' \in CallsType /\ brightness' \in Level
         /\ nightMode' = FALSE /\ UNCHANGED <<reference, available>>
         /\ \A t \in Slots \ {s} : calls'[t] = calls[t]
         /\ calls'[s] # Nothing => calls'[s].of = "put" /\ calls'[s].todo = Nothing
         /\ Idle' /\ Errors' /\ Honest' /\ doubt' \in BOOLEAN
         /\ ~doubt' => ~doubt /\ ~Moving /\ Heading({level})'
<1>1. level \in Level /\ TypeOK /\ Idle /\ Errors /\ Honest
  BY DisplayAssumption DEF DisplayBase, Level
<1>2. nightMode' = FALSE /\ UNCHANGED <<reference, available>>
  BY DEF SetBrightness
<1>3. CASE level # brightness
  <2>1. Apply(s, "put", level, Nothing)
    BY <1>3 DEF SetBrightness
  <2> DEFINE todo == Nothing
  <2>0. todo \in Level \cup {Nothing} /\ Apply(s, "put", level, todo) /\ UNCHANGED available
    BY <1>2, <2>1
  <2> HIDE DEF todo
  <2>2. /\ calls' \in CallsType /\ brightness' \in Level
        /\ \A t \in Slots \ {s} : calls'[t] = calls[t]
        /\ calls'[s].of = "put" /\ calls'[s].todo = todo
        /\ Idle' /\ Errors' /\ doubt' \in BOOLEAN
        /\ ~doubt' => ~doubt /\ ~Moving /\ Alone' /\ (available => Shows') /\ Heading({level})'
    BY <1>1, <2>0, Applies
  <2>3. Honest'
    BY <1>2, <2>2 DEF Honest
  <2> QED
    BY <1>2, <2>2, <2>3 DEF todo
<1>4. CASE level = brightness
  <2> DEFINE c == IF nightMode
                  THEN [of |-> "put", at |-> "emit", level |-> level, thread |-> "ok", todo |-> Nothing]
                  ELSE Nothing
  <2>1. calls' = [calls EXCEPT ![s] = c] /\ brightness' = brightness
    BY <1>4 DEF SetBrightness
  <2>2. /\ c \in Call \cup {Nothing}
        /\ c # Nothing => c.of = "put" /\ c.at = "emit" /\ c.thread = "ok" /\ c.todo = Nothing
    BY <1>1 DEF Call
  <2> HIDE DEF c
  <2>3. /\ calls' \in CallsType /\ calls'[s] = c /\ \A t \in Slots \ {s} : calls'[t] = calls[t]
    BY <1>1, <2>1, <2>2, OneCall
  <2>4. \A t \in Slots : Applying(t)' <=> Applying(t)
    BY <2>2, <2>3 DEF Applying
  <2>5. doubt' \in BOOLEAN /\ (~doubt' => ~doubt /\ ~Moving)
    <3>1. doubt \in BOOLEAN
      BY <1>1 DEF TypeOK
    <3> QED
      BY <3>1, Zenon
  <2>6. Idle' /\ Errors'
    BY <1>1, <1>2, <2>2, <2>3, <2>4 DEF Idle, Errors
  <2>7. ASSUME ~doubt' PROVE Alone' /\ (available => Shows') /\ Heading({level})'
    BY <1>1, <1>4, <2>1, <2>4, <2>5, <2>7 DEF Moving, Honest, Alone, Shows, Heading
  <2> QED
    BY <1>1, <1>2, <2>1, <2>2, <2>3, <2>5, <2>6, <2>7 DEF Honest, TypeOK
<1> QED
  BY <1>3, <1>4

-----------------------------------------------------------------------------
(***************************************************************************)
(* Every action keeps the invariant.                                       *)
(***************************************************************************)
LEMMA InitBase == Init => DisplayBase
<1> SUFFICES ASSUME Init PROVE DisplayBase
  OBVIOUS
<1> USE DEF Init
<1>1. \A s \in Slots : calls[s] = Nothing
  OBVIOUS
<1>2. TypeOK
  <2>1. calls \in [Slots -> Call \cup {Nothing}] /\ orphans \subseteq Level
    OBVIOUS
  <2>2. restores \in 0 .. MaxRestores /\ failures \in 0 .. MaxFailures
    BY DisplayAssumption
  <2>3. panel \in Level /\ brightness \in Level /\ reference \in Level
    BY DisplayAssumption DEF Level
  <2> QED
    BY <2>1, <2>2, <2>3 DEF TypeOK
<1>3. Todos /\ Dims /\ Phases /\ Idle /\ Errors /\ Honest
  BY <1>1 DEF Todos, Dims, Phases, Idle, Errors, Honest, Alone, Shows, Under, Applying
<1> QED
  BY <1>2, <1>3 DEF DisplayBase

\* A PUT, from its call on to its last await: one slot that no dim, no restore
\* and no shutdown uses.
LEMMA PutCalls ==
  ASSUME DisplayBase, NEW s \in Slots, phase = "serving",
         calls[s] = Nothing \/ calls[s].of = "put",
         calls' \in CallsType, \A t \in Slots \ {s} : calls'[t] = calls[t],
         calls'[s] # Nothing => calls'[s].of = "put"
                                  /\ (calls'[s].todo # Nothing => calls'[s].todo \in Levels),
         UNCHANGED <<available, dimmed, countdown, restores, phase>>
  PROVE  Todos' /\ Dims' /\ Phases'
<1>1. Todos'
  BY DEF DisplayBase, Todos
<1>2. \A of \in {"dim", "shutdown"}, t \in Slots : Under(t, of)' <=> Under(t, of) /\ t # s
  BY DEF Under
<1>3. \A t \in Slots : ~Under(t, "shutdown")
  BY DEF DisplayBase, Phases
<1>4. Dims'
  BY <1>2 DEF DisplayBase, Dims
<1>5. Phases'
  BY <1>2, <1>3 DEF DisplayBase, Phases
<1> QED
  BY <1>1, <1>4, <1>5

LEMMA PutKeepsBase ==
  ASSUME DisplayBase, NEW s \in Slots, NEW night \in BOOLEAN \cup {Nothing},
         NEW level \in Levels \cup {Nothing}, PutDisplay(s, night, level)
  PROVE  DisplayBase'
<1> USE DEF PutDisplay, policy
<1>1. TypeOK /\ Idle /\ Errors /\ Honest /\ ~Applying(s)
  BY DEF DisplayBase, Applying
<1>2. CASE night \in BOOLEAN /\ SetNightMode(s, night, level)
  <2> DEFINE goal == IF night THEN NightOf(brightness) ELSE reference
  <2>1. Apply(s, "put", goal, level) /\ UNCHANGED available
    BY <1>2 DEF SetNightMode
  <2>2. goal \in Level /\ level \in Level \cup {Nothing}
    BY <1>1, <1>2, NightLevels, DisplayAssumption DEF TypeOK, Level
  <2>3. /\ nightMode' \in BOOLEAN /\ reference' \in Level
    BY <1>1, <1>2 DEF SetNightMode, TypeOK
  <2> HIDE DEF goal
  <2>4. /\ calls' \in CallsType /\ brightness' \in Level
        /\ \A t \in Slots \ {s} : calls'[t] = calls[t]
        /\ calls'[s].of = "put" /\ calls'[s].todo = level
        /\ Idle' /\ Errors' /\ doubt' \in BOOLEAN
        /\ ~doubt' => ~doubt /\ Alone' /\ (available => Shows')
    BY <1>1, <2>1, <2>2, Applies
  <2>5. Honest'
    BY <2>1, <2>4 DEF Honest
  <2>6. TypeOK'
    BY <1>1, <2>1, <2>3, <2>4 DEF TypeOK, CallsType
  <2> QED
    BY <2>1, <2>4, <2>5, <2>6, PutCalls DEF DisplayBase
<1>3. CASE level # Nothing /\ SetBrightness(s, level)
  <2>1. /\ calls' \in CallsType /\ brightness' \in Level
        /\ nightMode' = FALSE /\ UNCHANGED <<reference, available>>
        /\ \A t \in Slots \ {s} : calls'[t] = calls[t]
        /\ calls'[s] # Nothing => calls'[s].of = "put" /\ calls'[s].todo = Nothing
        /\ Idle' /\ Errors' /\ Honest' /\ doubt' \in BOOLEAN
    BY <1>1, <1>3, SetsBrightness
  <2>2. TypeOK'
    BY <1>1, <2>1 DEF TypeOK, CallsType
  <2> QED
    BY <2>1, <2>2, PutCalls DEF DisplayBase
<1> QED
  BY <1>2, <1>3

\* A call that only goes on: same kind, same level, same second half.
LEMMA SameCalls ==
  ASSUME DisplayBase, calls' \in CallsType,
         \A t \in Slots : calls'[t] # Nothing =>
           /\ calls[t] # Nothing /\ calls'[t].of = calls[t].of
           /\ calls'[t].level = calls[t].level /\ calls'[t].todo = calls[t].todo
           /\ calls[t].of = "shutdown" => calls'[t].at = calls[t].at,
         UNCHANGED <<reference, nightMode, available, dimmed, countdown, restores, phase>>
  PROVE  Todos' /\ Dims' /\ Phases'
<1>1. \A t \in Slots : /\ Under(t, "dim")' => Under(t, "dim")
                       /\ Under(t, "put")' => Under(t, "put")
                       /\ Under(t, "shutdown")' => Under(t, "shutdown")
  BY DEF Under
<1>2. Todos'
  BY DEF DisplayBase, Todos
<1>3. Dims'
  BY <1>1 DEF DisplayBase, Dims
<1>4. Phases'
  <2>1. ASSUME NEW t \in Slots, Under(t, "shutdown")'
        PROVE  /\ phase = "restoring" /\ calls'[t].level = reference
               /\ available => calls'[t].at = "apply"
    BY <1>1, <2>1 DEF DisplayBase, Phases, Under
  <2> QED
    BY <1>1, <2>1 DEF DisplayBase, Phases
<1> QED
  BY <1>2, <1>3, <1>4

LEMMA EffectorKeepsBase ==
  ASSUME DisplayBase, NEW s \in Slots, Effector(s)
  PROVE  DisplayBase'
<1> USE DEF Effector, store, policy
<1>1. /\ TypeOK /\ Applying(s) /\ calls[s] \in Call /\ calls[s].thread = "running"
      /\ Idle /\ Errors /\ Honest /\ available
  BY DEF DisplayBase, TypeOK, Applying, Idle
<1>2. PICK outcome \in {"ok", "failed"} :
        /\ calls' = [calls EXCEPT ![s].thread = outcome]
        /\ outcome = "ok" => panel' = calls[s].level /\ UNCHANGED <<failures, doubt>>
        /\ outcome = "failed" =>
             /\ failures < MaxFailures /\ failures' = failures + 1
             /\ panel' \in {panel, calls[s].level}
             /\ doubt' = (doubt \/ panel' # panel)
  OBVIOUS
<1> DEFINE c == [calls[s] EXCEPT !.thread = outcome]
<1>3. /\ c \in Call /\ c # Nothing /\ c.thread = outcome /\ c.of = calls[s].of /\ c.at = calls[s].at
      /\ c.level = calls[s].level /\ c.todo = calls[s].todo
  BY <1>1, NothingAssumption DEF Call
<1>4. calls' = [calls EXCEPT ![s] = c]
  BY <1>1, <1>2 DEF TypeOK
<1> HIDE DEF c
<1>5. /\ calls' \in CallsType /\ calls'[s] = c
      /\ \A t \in Slots \ {s} : calls'[t] = calls[t]
  BY <1>1, <1>3, <1>4, OneCall
<1>6. Todos' /\ Dims' /\ Phases'
  <2>1. \A t \in Slots : calls'[t] # Nothing =>
          /\ calls[t] # Nothing /\ calls'[t].of = calls[t].of
          /\ calls'[t].level = calls[t].level /\ calls'[t].todo = calls[t].todo
          /\ calls[t].of = "shutdown" => calls'[t].at = calls[t].at
    BY <1>1, <1>3, <1>5 DEF Applying
  <2> QED
    BY <2>1, <1>3, <1>5, SameCalls
<1>7. /\ doubt' \in BOOLEAN /\ failures' \in 0 .. MaxFailures
      /\ ~doubt' => ~doubt /\ (outcome = "failed" => panel' = panel)
      /\ failures > 0 \/ outcome = "failed" => failures' > 0
  <2>1. doubt \in BOOLEAN /\ failures \in 0 .. MaxFailures /\ MaxFailures \in Nat
    BY <1>1, DisplayAssumption DEF TypeOK
  <2>2. CASE outcome = "ok"
    BY <1>2, <2>1, <2>2
  <2>3. CASE outcome = "failed"
    <3>1. doubt' \in BOOLEAN /\ (~doubt' => ~doubt /\ panel' = panel)
      BY <1>2, <2>1, <2>3, Zenon
    <3>2. failures' \in 0 .. MaxFailures /\ failures' > 0
      BY <1>2, <2>1, <2>3
    <3> QED
      BY <3>1, <3>2
  <2> QED
    BY <2>2, <2>3
<1>8. \A t \in Slots : Applying(t)' <=> Applying(t)
  BY <1>1, <1>3, <1>5 DEF Applying
<1>9. TypeOK'
  BY <1>1, <1>2, <1>5, <1>7 DEF TypeOK, CallsType, Call
<1>10. Idle' /\ Errors'
  BY <1>1, <1>3, <1>5, <1>7, <1>8 DEF Idle, Errors
<1>11. ASSUME ~doubt' PROVE Alone' /\ Shows'
  <2>1. Alone /\ Shows
    BY <1>1, <1>7, <1>11 DEF Honest
  <2>2. \A t \in Slots : Applying(t)' <=> t = s
    BY <1>1, <1>8, <2>1 DEF Alone
  <2>3. panel = brightness
    BY <1>1, <2>1 DEF Shows
  <2> QED
    BY <1>2, <1>3, <1>5, <1>7, <1>11, <2>1, <2>2, <2>3 DEF Alone, Shows
<1> QED
  BY <1>6, <1>9, <1>10, <1>11 DEF DisplayBase, Honest

LEMMA OrphanKeepsBase ==
  ASSUME DisplayBase, NEW level \in orphans, OrphanEffector(level)
  PROVE  DisplayBase'
<1>1. /\ orphans' = orphans \ {level} /\ orphans # {} /\ panel' \in {panel, level}
      /\ failures' = failures \/ (failures < MaxFailures /\ failures' = failures + 1)
      /\ UNCHANGED <<brightness, reference, nightMode, available, calls, dimmed, countdown,
                     restores, phase, locked, doubt>>
  BY DEF OrphanEffector, store, policy
<1>2. failures \in 0 .. MaxFailures /\ MaxFailures \in Nat
  BY DisplayAssumption DEF DisplayBase, TypeOK
<1>3. failures' \in 0 .. MaxFailures /\ (failures > 0 => failures' > 0)
  BY <1>1, <1>2
<1>4. TypeOK'
  BY <1>1, <1>3 DEF DisplayBase, TypeOK
<1>5. Todos' /\ Dims' /\ Phases'
  BY <1>1 DEF DisplayBase, Todos, Dims, Phases, Under
<1>6. Idle' /\ Errors'
  BY <1>1, <1>3 DEF DisplayBase, Idle, Errors, Applying
<1>7. Honest'
  BY <1>1 DEF DisplayBase, Honest, Alone
<1> QED
  BY <1>4, <1>5, <1>6, <1>7 DEF DisplayBase

LEMMA AfterApplyKeepsBase ==
  ASSUME DisplayBase, NEW s \in Slots, AfterApply(s)
  PROVE  DisplayBase'
<1> USE DEF AfterApply, policy
<1>1. /\ TypeOK /\ Applying(s) /\ calls[s] \in Call
      /\ calls[s].thread \in {"ok", "failed"} /\ calls[s].of # "shutdown"
      /\ Idle /\ Errors /\ Honest /\ available
  BY DEF DisplayBase, TypeOK, Applying, Idle, Call
<1> DEFINE c == [calls[s] EXCEPT !.at = "emit"]
<1>2. /\ c \in Call /\ c # Nothing /\ c.thread = calls[s].thread /\ c.of = calls[s].of /\ c.at = "emit"
      /\ c.level = calls[s].level /\ c.todo = calls[s].todo
  BY <1>1, NothingAssumption DEF Call
<1>3. calls' = [calls EXCEPT ![s] = c]
  BY <1>1 DEF TypeOK
<1> HIDE DEF c
<1>4. /\ calls' \in CallsType /\ calls'[s] = c
      /\ \A t \in Slots \ {s} : calls'[t] = calls[t]
  BY <1>1, <1>2, <1>3, OneCall
<1>5. Todos' /\ Dims' /\ Phases'
  <2>1. \A t \in Slots : calls'[t] # Nothing =>
          /\ calls[t] # Nothing /\ calls'[t].of = calls[t].of
          /\ calls'[t].level = calls[t].level /\ calls'[t].todo = calls[t].todo
          /\ calls[t].of = "shutdown" => calls'[t].at = calls[t].at
    BY <1>1, <1>2, <1>4 DEF Applying
  <2> QED
    BY <2>1, <1>2, <1>4, SameCalls
<1>6. brightness' = IF calls[s].thread = "ok" THEN calls[s].level ELSE brightness
  OBVIOUS
<1>7. TypeOK'
  BY <1>1, <1>4, <1>6 DEF TypeOK, CallsType, Call
<1>8. \A t \in Slots : Applying(t)' <=> Applying(t) /\ t # s
  BY <1>1, <1>2, <1>4 DEF Applying
<1>9. Idle' /\ Errors'
  <2>1. Idle'
    BY <1>1, <1>8 DEF Idle
  <2>2. Errors'
    BY <1>1, <1>2, <1>4 DEF Errors, Applying
  <2> QED
    BY <2>1, <2>2
<1>10. ASSUME ~doubt' PROVE Alone' /\ Shows'
  <2>1. Alone /\ Shows
    BY <1>1, <1>10 DEF Honest
  <2>2. \A t \in Slots : ~Applying(t)'
    BY <1>1, <1>8, <2>1 DEF Alone
  <2>3. brightness' = panel
    BY <1>1, <1>6, <2>1 DEF Shows
  <2> QED
    BY <2>1, <2>2, <2>3 DEF Alone, Shows
<1> QED
  BY <1>5, <1>7, <1>9, <1>10 DEF DisplayBase, Honest

LEMMA AfterEmitKeepsBase ==
  ASSUME DisplayBase, NEW s \in Slots, AfterEmit(s)
  PROVE  DisplayBase'
<1> USE DEF AfterEmit, store
<1>1. /\ TypeOK /\ calls[s] # Nothing /\ calls[s].at = "emit" /\ ~Applying(s)
      /\ Idle /\ Errors /\ Honest
  BY DEF DisplayBase, Applying
<1>2. CASE calls[s].todo # Nothing
  <2>1. calls[s].of = "put" /\ calls[s].todo \in Levels /\ phase = "serving"
    BY <1>1, <1>2 DEF DisplayBase, Todos, Phases, Under
  <2>2. SetBrightness(s, calls[s].todo) /\ doubt' = (doubt \/ Moving) /\ countdown' = countdown
    BY <1>2, <2>1
  <2>3. /\ calls' \in CallsType /\ brightness' \in Level
        /\ nightMode' = FALSE /\ UNCHANGED <<reference, available>>
        /\ \A t \in Slots \ {s} : calls'[t] = calls[t]
        /\ calls'[s] # Nothing => calls'[s].of = "put" /\ calls'[s].todo = Nothing
        /\ Idle' /\ Errors' /\ Honest' /\ doubt' \in BOOLEAN
    BY <1>1, <2>1, <2>2, SetsBrightness
  <2>4. TypeOK'
    BY <1>1, <2>2, <2>3 DEF TypeOK, CallsType
  <2> QED
    BY <2>1, <2>2, <2>3, <2>4, PutCalls DEF DisplayBase
<1>3. CASE calls[s].todo = Nothing
  <2>1. /\ calls' = [calls EXCEPT ![s] = Nothing] /\ UNCHANGED <<store, doubt>>
        /\ countdown' = IF calls[s].of = "dim" THEN "over" ELSE countdown
    BY <1>3 DEF Finish
  <2>2. /\ calls' \in CallsType /\ calls'[s] = Nothing
        /\ \A t \in Slots \ {s} : calls'[t] = calls[t]
    BY <1>1, <2>1, OneCall
  <2>3. \A of \in {"put", "dim", "shutdown"}, t \in Slots : Under(t, of)' <=> Under(t, of) /\ t # s
    BY <2>2 DEF Under
  <2>4. \A t \in Slots : Applying(t)' <=> Applying(t)
    BY <1>1, <2>2 DEF Applying
  <2>5. TypeOK'
    BY <1>1, <2>1, <2>2 DEF TypeOK, CallsType
  <2>6. Todos'
    BY <2>2 DEF DisplayBase, Todos
  <2>7. Dims'
    <3>1. CASE calls[s].of = "dim"
      <4>1. Under(s, "dim") /\ countdown' = "over"
        BY <1>1, <2>1, <3>1 DEF Under
      <4>2. \A t \in Slots : ~Under(t, "dim")'
        BY <2>3, <4>1 DEF DisplayBase, Dims
      <4> QED
        BY <4>1, <4>2 DEF DisplayBase, Dims
    <3>2. CASE calls[s].of # "dim"
      BY <2>1, <2>3, <3>2 DEF DisplayBase, Dims
    <3> QED
      BY <3>1, <3>2
  <2>8. Phases'
    BY <2>1, <2>2, <2>3 DEF DisplayBase, Phases
  <2>9. Idle' /\ Errors'
    BY <1>1, <2>1, <2>2, <2>4 DEF Idle, Errors
  <2>10. Honest'
    <3>1. ASSUME ~doubt', available PROVE Shows'
      BY <1>1, <2>1, <2>2, <2>4, <3>1 DEF Honest, Shows, Applying
    <3> QED
      BY <1>1, <2>1, <2>4, <3>1 DEF Honest, Alone
  <2> QED
    BY <2>5, <2>6, <2>7, <2>8, <2>9, <2>10 DEF DisplayBase
<1> QED
  BY <1>2, <1>3

\* set_ambient_brightness: night mode, its reference and the phase stay.
LEMMA SetsAmbient ==
  ASSUME DisplayBase, NEW s \in Slots, calls[s] = Nothing, NEW of \in {"dim", "restore"},
         NEW level \in Level,
         SetAmbient(s, of, level) \/ (level = brightness /\ UNCHANGED <<store, calls>>),
         UNCHANGED <<panel, orphans, failures>>, doubt' = (doubt \/ Moving)
  PROVE  /\ calls' \in CallsType /\ brightness' \in Level
         /\ UNCHANGED <<reference, nightMode, available>>
         /\ \A t \in Slots \ {s} : calls'[t] = calls[t]
         /\ \/ level # brightness /\ calls'[s] # Nothing /\ calls'[s].of = of /\ calls'[s].todo = Nothing
            \/ level = brightness /\ UNCHANGED <<brightness, calls>>
         /\ Idle' /\ Errors' /\ Honest' /\ doubt' \in BOOLEAN
         /\ ~doubt' => ~doubt /\ ~Moving /\ Heading({level})'
<1>1. TypeOK /\ Idle /\ Errors /\ Honest /\ ~Applying(s)
  BY DEF DisplayBase, Applying
<1>2. CASE SetAmbient(s, of, level)
  <2> DEFINE todo == Nothing
  <2>1. /\ todo \in Level \cup {Nothing} /\ Apply(s, of, level, todo)
        /\ UNCHANGED <<reference, nightMode, available>> /\ level # brightness
        /\ of \in {"put", "dim", "restore", "shutdown"}
        /\ UNCHANGED <<available, panel, orphans, failures>> /\ doubt' = (doubt \/ Moving)
        /\ TypeOK /\ Idle /\ Errors /\ Honest /\ ~Applying(s)
    BY <1>1, <1>2 DEF SetAmbient
  <2> HIDE DEF todo
  <2>2. /\ calls' \in CallsType /\ brightness' \in Level
        /\ \A t \in Slots \ {s} : calls'[t] = calls[t]
        /\ calls'[s] # Nothing /\ calls'[s].of = of /\ calls'[s].todo = todo
        /\ Idle' /\ Errors' /\ doubt' \in BOOLEAN
        /\ ~doubt' => ~doubt /\ ~Moving /\ Alone' /\ (available => Shows') /\ Heading({level})'
    BY <2>1, Applies, SMTT(30)
  <2>3. Honest'
    BY <2>1, <2>2 DEF Honest
  <2> QED
    BY <2>1, <2>2, <2>3 DEF todo
<1>3. CASE level = brightness /\ UNCHANGED <<store, calls>>
  <2> USE <1>3 DEF store
  <2>1. doubt' \in BOOLEAN /\ (~doubt' => ~doubt /\ ~Moving)
    <3>1. doubt \in BOOLEAN
      BY <1>1 DEF TypeOK
    <3> QED
      BY <3>1, Zenon
  <2>2. Idle' /\ Errors'
    BY <1>1 DEF Idle, Errors, Applying
  <2>3. Honest'
    BY <1>1, <2>1 DEF Honest, Alone, Shows, Applying
  <2>4. ~doubt' => Heading({level})'
    BY <2>1 DEF Moving, Heading, Applying
  <2> QED
    BY <1>1, <2>1, <2>2, <2>3, <2>4 DEF TypeOK, CallsType
<1> QED
  BY <1>2, <1>3

LEMMA IdleDimKeepsBase ==
  ASSUME DisplayBase, NEW s \in Slots, IdleDim(s)
  PROVE  DisplayBase'
<1>1. /\ countdown = "sleeping" /\ calls[s] = Nothing /\ dimmed' = TRUE
      /\ doubt' = (doubt \/ Moving)
      /\ UNCHANGED <<panel, orphans, restores, phase, locked, failures>>
      /\ SetAmbient(s, "dim", DimTarget) \/ (DimTarget = brightness /\ UNCHANGED <<store, calls>>)
      /\ SetAmbient(s, "dim", DimTarget) => countdown' = "dimming"
      /\ DimTarget = brightness /\ UNCHANGED <<store, calls>> => countdown' = "over"
  BY DEF IdleDim, SetAmbient
<1>2. DimTarget \in Level /\ TypeOK
  BY DisplayAssumption DEF Level, DisplayBase
<1>3. /\ calls' \in CallsType /\ brightness' \in Level
      /\ UNCHANGED <<reference, nightMode, available>>
      /\ \A t \in Slots \ {s} : calls'[t] = calls[t]
      /\ \/ /\ DimTarget # brightness /\ calls'[s] # Nothing
            /\ calls'[s].of = "dim" /\ calls'[s].todo = Nothing
         \/ DimTarget = brightness /\ UNCHANGED <<brightness, calls>>
      /\ Idle' /\ Errors' /\ Honest' /\ doubt' \in BOOLEAN
  BY <1>1, <1>2, SetsAmbient
<1>4. /\ countdown' = IF DimTarget # brightness THEN "dimming" ELSE "over"
  BY <1>1, <1>3 DEF SetAmbient, store
<1>5. /\ phase # "exiting" /\ \A t \in Slots : ~Under(t, "dim")
  BY <1>1 DEF DisplayBase, Dims
<1>6. /\ \A of \in {"put", "shutdown"}, t \in Slots : Under(t, of)' => Under(t, of) /\ t # s
      /\ \A t \in Slots : Under(t, "dim")' => t = s /\ DimTarget # brightness
  BY <1>1, <1>3, <1>5 DEF Under
<1>7. TypeOK'
  BY <1>1, <1>2, <1>3, <1>4 DEF TypeOK, CallsType
<1>8. Todos'
  BY <1>1, <1>3 DEF DisplayBase, Todos
<1>9. Dims'
  BY <1>1, <1>4, <1>5, <1>6 DEF Dims
<1>10. Phases'
  BY <1>1, <1>3, <1>6 DEF DisplayBase, Phases
<1> QED
  BY <1>3, <1>7, <1>8, <1>9, <1>10 DEF DisplayBase

LEMMA RestoreKeepsBase ==
  ASSUME DisplayBase, NEW s \in Slots, Restore(s)
  PROVE  DisplayBase'
<1> DEFINE target == IF nightMode THEN NightOf(reference) ELSE BrightTarget
<1>1. /\ restores > 0 /\ restores' = restores - 1 /\ calls[s] = Nothing
      /\ doubt' = (doubt \/ Moving)
      /\ UNCHANGED <<panel, orphans, dimmed, countdown, phase, locked, failures>>
      /\ SetAmbient(s, "restore", target) \/ (target = brightness /\ UNCHANGED <<store, calls>>)
  BY DEF Restore
<1>2. target \in Level /\ TypeOK
  BY NightLevels, DisplayAssumption DEF Level, DisplayBase, TypeOK
<1> HIDE DEF target
<1>3. /\ calls' \in CallsType /\ brightness' \in Level
      /\ UNCHANGED <<reference, nightMode, available>>
      /\ \A t \in Slots \ {s} : calls'[t] = calls[t]
      /\ \/ calls'[s] # Nothing /\ calls'[s].of = "restore" /\ calls'[s].todo = Nothing
         \/ UNCHANGED calls
      /\ Idle' /\ Errors' /\ Honest' /\ doubt' \in BOOLEAN
  BY <1>1, <1>2, SetsAmbient
<1>4. \A of \in {"put", "dim", "shutdown"}, t \in Slots : Under(t, of)' <=> Under(t, of) /\ t # s
  BY <1>1, <1>3 DEF Under
<1>5. TypeOK'
  <2>1. restores' \in 0 .. MaxRestores
    BY <1>1, <1>2, DisplayAssumption DEF TypeOK
  <2> QED
    BY <1>1, <1>2, <1>3, <2>1 DEF TypeOK, CallsType
<1>6. Todos'
  BY <1>1, <1>3 DEF DisplayBase, Todos
<1>7. Dims'
  BY <1>1, <1>4 DEF DisplayBase, Dims
<1>8. Phases'
  BY <1>1, <1>3, <1>4 DEF DisplayBase, Phases
<1> QED
  BY <1>3, <1>5, <1>6, <1>7, <1>8 DEF DisplayBase

\* The countdown is cancelled, and with it the call it may be in.
LEMMA Cancels ==
  ASSUME DisplayBase, CancelCountdown, UNCHANGED <<brightness, available, panel, failures>>
  PROVE  /\ calls' \in CallsType /\ orphans' \subseteq Level
         /\ \A t \in Slots : calls'[t] = IF Under(t, "dim") THEN Nothing ELSE calls[t]
         /\ Idle' /\ Errors' /\ Honest' /\ doubt' \in BOOLEAN
         /\ ~doubt' => ~doubt /\ \A t \in Slots : Applying(t)' <=> Applying(t) /\ ~Under(t, "dim")
         /\ ~doubt' => \A t \in Slots : Applying(t) => ~Under(t, "dim")
<1>1. TypeOK /\ Idle /\ Errors /\ Honest /\ doubt \in BOOLEAN
  BY DEF DisplayBase, TypeOK
<1> DEFINE mine == {s \in Slots : Under(s, "dim")}
<1>2. /\ calls' = [s \in Slots |-> IF s \in mine THEN Nothing ELSE calls[s]]
      /\ orphans' = orphans \cup
                      {calls[s].level : s \in {t \in mine : Applying(t) /\ calls[t].thread = "running"}}
      /\ doubt' = (doubt \/ \E s \in mine : Applying(s))
  BY DEF CancelCountdown, Under
<1>3. /\ calls' \in CallsType
      /\ \A t \in Slots : calls'[t] = IF Under(t, "dim") THEN Nothing ELSE calls[t]
  BY <1>1, <1>2 DEF TypeOK, CallsType
<1>4. orphans' \subseteq Level
  BY <1>1, <1>2 DEF TypeOK, Call, Applying
<1>5. doubt' \in BOOLEAN /\ (~doubt' => ~doubt /\ \A s \in mine : ~Applying(s))
  BY <1>1, <1>2, Zenon
<1>6. \A t \in Slots : Applying(t)' <=> Applying(t) /\ ~Under(t, "dim")
  BY <1>3 DEF Applying
<1>7. Idle' /\ Errors'
  BY <1>1, <1>3, <1>6 DEF Idle, Errors
<1>8. ASSUME ~doubt' PROVE Alone' /\ (available => Shows')
  <2>1. orphans' = orphans /\ \A t \in Slots : Applying(t)' <=> Applying(t)
    BY <1>2, <1>5, <1>6, <1>8
  <2>2. Alone'
    BY <1>1, <1>5, <1>8, <2>1 DEF Honest, Alone
  <2>3. ASSUME available PROVE Shows'
    <3>1. Shows
      BY <1>1, <1>5, <1>8, <2>3 DEF Honest
    <3>2. \A t \in Slots : Applying(t) => calls'[t] = calls[t]
      BY <1>3, <1>5, <1>8
    <3> QED
      BY <2>1, <3>1, <3>2 DEF Shows
  <2> QED
    BY <2>2, <2>3
<1> QED
  BY <1>3, <1>4, <1>5, <1>6, <1>7, <1>8 DEF Honest

LEMMA SignalKeepsBase ==
  ASSUME DisplayBase, Signal
  PROVE  DisplayBase'
<1> USE DEF Signal, store
<1>1. /\ calls' \in CallsType /\ orphans' \subseteq Level
      /\ \A t \in Slots : calls'[t] = IF Under(t, "dim") THEN Nothing ELSE calls[t]
      /\ Idle' /\ Errors' /\ Honest' /\ doubt' \in BOOLEAN
  BY Cancels
<1>2. \A t \in Slots : /\ ~Under(t, "dim")'
                       /\ \A of \in {"put", "shutdown"} : Under(t, of)' => Under(t, of)
  BY <1>1 DEF Under
<1>3. restores' \in 0 .. MaxRestores
  BY DisplayAssumption DEF DisplayBase, TypeOK
<1>4. TypeOK'
  BY <1>1, <1>3 DEF DisplayBase, TypeOK, CallsType
<1>5. Todos'
  BY <1>1 DEF DisplayBase, Todos
<1>6. Dims'
  BY <1>2 DEF DisplayBase, Dims
<1>7. Phases'
  <2>1. \A t \in Slots : Under(t, "shutdown")' => calls'[t] = calls[t]
    BY <1>1 DEF Under
  <2> QED
    BY <1>2, <2>1 DEF DisplayBase, Phases
<1> QED
  BY <1>1, <1>4, <1>5, <1>6, <1>7 DEF DisplayBase

LEMMA ShutdownKeepsBase ==
  ASSUME DisplayBase, NEW s \in Slots, Shutdown(s)
  PROVE  DisplayBase'
<1> USE DEF Shutdown
<1>1. /\ TypeOK /\ Idle /\ Errors /\ Honest /\ ~Applying(s)
      /\ \A t \in Slots : ~Under(t, "put") /\ ~Under(t, "shutdown")
  BY DEF DisplayBase, Applying, Under, Phases
<1>2. CASE brightness # reference
  <2> DEFINE todo == Nothing
  <2>1. /\ todo \in Level \cup {Nothing} /\ reference \in Level
        /\ Apply(s, "shutdown", reference, todo)
        /\ UNCHANGED <<available, panel, orphans, failures, countdown>>
        /\ doubt' = (doubt \/ Moving) /\ phase' = "restoring"
        /\ "shutdown" \in {"put", "dim", "restore", "shutdown"}
    BY <1>1, <1>2 DEF TypeOK
  <2> HIDE DEF todo
  <2>2. /\ calls' \in CallsType /\ brightness' \in Level
        /\ \A t \in Slots \ {s} : calls'[t] = calls[t]
        /\ calls'[s] # Nothing /\ calls'[s].of = "shutdown" /\ calls'[s].level = reference
        /\ calls'[s].todo = todo /\ (available => calls'[s].at = "apply")
        /\ Idle' /\ Errors' /\ doubt' \in BOOLEAN
        /\ ~doubt' => ~doubt /\ ~Moving /\ Alone' /\ (available => Shows')
    BY <1>1, <2>1, Applies
  <2>3. Honest'
    BY <2>1, <2>2 DEF Honest
  <2>4. TypeOK'
    BY <1>1, <2>1, <2>2 DEF TypeOK, CallsType
  <2>5. Todos'
    BY <2>2 DEF DisplayBase, Todos, todo
  <2>6. /\ \A t \in Slots : Under(t, "dim")' => Under(t, "dim")
        /\ \A t \in Slots : ~Under(t, "put")' /\ (Under(t, "shutdown")' <=> t = s)
    BY <1>1, <2>2 DEF Under
  <2>7. Dims'
    BY <2>1, <2>6 DEF DisplayBase, Dims
  <2>8. Phases'
    BY <2>1, <2>2, <2>6 DEF Phases
  <2> QED
    BY <2>2, <2>3, <2>4, <2>5, <2>7, <2>8 DEF DisplayBase
<1>3. CASE brightness = reference
  <2>1. CancelCountdown /\ countdown' = "stopped" /\ phase' = "exiting" /\ UNCHANGED brightness
    BY <1>3
  <2>2. /\ calls' \in CallsType /\ orphans' \subseteq Level
        /\ \A t \in Slots : calls'[t] = IF Under(t, "dim") THEN Nothing ELSE calls[t]
        /\ Idle' /\ Errors' /\ Honest' /\ doubt' \in BOOLEAN
    BY <2>1, Cancels
  <2>3. \A t \in Slots : ~Under(t, "dim")' /\ ~Under(t, "put")' /\ ~Under(t, "shutdown")'
    BY <1>1, <2>2 DEF Under
  <2>4. TypeOK'
    BY <1>1, <2>1, <2>2 DEF TypeOK, CallsType
  <2>5. Todos'
    BY <2>2 DEF DisplayBase, Todos
  <2>6. Dims' /\ Phases'
    BY <2>1, <2>3 DEF Dims, Phases
  <2> QED
    BY <2>2, <2>4, <2>5, <2>6 DEF DisplayBase
<1> QED
  BY <1>2, <1>3

LEMMA AfterRestoreFullKeepsBase ==
  ASSUME DisplayBase, NEW s \in Slots, AfterRestoreFull(s)
  PROVE  DisplayBase'
<1>1. /\ TypeOK /\ Idle /\ Errors /\ Honest /\ doubt \in BOOLEAN
      /\ Under(s, "shutdown") /\ calls[s].thread \in {"ok", "failed"} /\ calls[s].level \in Level
      /\ UNCHANGED <<reference, nightMode, available, panel, dimmed, restores, locked, failures>>
      /\ countdown' = "stopped" /\ phase' = "exiting"
      /\ brightness' = IF calls[s].thread = "ok" THEN calls[s].level ELSE brightness
  BY DEF DisplayBase, AfterRestoreFull, Under, TypeOK, Call
<1>2. phase = "restoring" /\ (available => calls[s].at = "apply")
  BY <1>1 DEF DisplayBase, Phases
<1> DEFINE dims == {t \in Slots : Under(t, "dim")}
           rest == {t \in Slots \ {s} : calls[t] # Nothing /\ calls[t].of # "dim"}
<1>3. /\ calls' = [t \in Slots |-> IF t \in rest THEN calls[t] ELSE Nothing]
      /\ orphans' = orphans \cup
                      {calls[t].level : t \in {d \in dims : Applying(d) /\ calls[d].thread = "running"}}
      /\ doubt' = (doubt \/ \E d \in dims : Applying(d))
  BY DEF AfterRestoreFull, Under
<1>4. /\ calls' \in CallsType /\ calls'[s] = Nothing
      /\ \A t \in Slots \ {s} : calls'[t] = IF Under(t, "dim") THEN Nothing ELSE calls[t]
  BY <1>1, <1>3 DEF TypeOK, CallsType, Under
<1>5. orphans' \subseteq Level
  BY <1>1, <1>3 DEF TypeOK, Call, Applying
<1>6. doubt' \in BOOLEAN /\ (~doubt' => ~doubt /\ \A d \in dims : ~Applying(d))
  BY <1>1, <1>3, Zenon
<1>7. TypeOK'
  BY <1>1, <1>4, <1>5, <1>6 DEF TypeOK, CallsType
<1>8. \A t \in Slots : ~Under(t, "dim")' /\ ~Under(t, "put")' /\ ~Under(t, "shutdown")'
  BY <1>1, <1>2, <1>4 DEF DisplayBase, Phases, Under
<1>9. Todos'
  BY <1>4 DEF DisplayBase, Todos
<1>10. Dims' /\ Phases'
  BY <1>1, <1>2, <1>8 DEF DisplayBase, Dims, Phases
<1>11. \A t \in Slots : Applying(t)' => Applying(t) /\ t # s
  BY <1>4 DEF Applying
<1>12. Idle' /\ Errors'
  BY <1>1, <1>4, <1>11 DEF Idle, Errors
<1>13. ASSUME ~doubt' PROVE Alone' /\ (available => Shows')
  <2>1. orphans' = orphans /\ ~doubt
    BY <1>3, <1>6, <1>13
  <2>2. Alone'
    BY <1>1, <1>11, <2>1 DEF Honest, Alone
  <2>3. ASSUME available PROVE Shows'
    <3>1. Applying(s) /\ Alone /\ Shows
      BY <1>1, <1>2, <2>1, <2>3 DEF Honest, Applying, Under
    <3>2. \A t \in Slots : ~Applying(t)'
      BY <1>11, <3>1 DEF Alone
    <3>3. brightness' = panel
      BY <1>1, <3>1 DEF Shows
    <3> QED
      BY <1>1, <3>2, <3>3 DEF Shows
  <2> QED
    BY <2>2, <2>3
<1> QED
  BY <1>1, <1>7, <1>9, <1>10, <1>12, <1>13 DEF DisplayBase, Honest

LEMMA StillKeepsBase ==
  ASSUME DisplayBase, FlipLock \/ UNCHANGED vars
  PROVE  DisplayBase'
<1>1. /\ UNCHANGED <<store, panel, calls, orphans, policy, phase, failures, doubt>>
      /\ locked' \in BOOLEAN
  BY DEF FlipLock, vars, DisplayBase, TypeOK
<1> USE <1>1 DEF store, policy
<1>2. TypeOK'
  BY DEF DisplayBase, TypeOK
<1>3. Todos' /\ Dims' /\ Phases'
  BY DEF DisplayBase, Todos, Dims, Phases, Under
<1>4. Idle' /\ Errors' /\ Honest'
  BY DEF DisplayBase, Idle, Errors, Honest, Alone, Shows, Applying
<1> QED
  BY <1>2, <1>3, <1>4 DEF DisplayBase

LEMMA StepBase == DisplayBase /\ [Next]_vars => DisplayBase'
<1> SUFFICES ASSUME DisplayBase, [Next]_vars PROVE DisplayBase'
  OBVIOUS
<1>1. ASSUME NEW s \in Slots, NEW night \in BOOLEAN \cup {Nothing},
             NEW level \in Levels \cup {Nothing}, PutDisplay(s, night, level)
      PROVE  DisplayBase'
  BY <1>1, PutKeepsBase
<1>2. ASSUME NEW s \in Slots, Effector(s) PROVE DisplayBase'
  BY <1>2, EffectorKeepsBase
<1>3. ASSUME NEW level \in orphans, OrphanEffector(level) PROVE DisplayBase'
  BY <1>3, OrphanKeepsBase
<1>4. ASSUME NEW s \in Slots, AfterApply(s) PROVE DisplayBase'
  BY <1>4, AfterApplyKeepsBase
<1>5. ASSUME NEW s \in Slots, AfterEmit(s) PROVE DisplayBase'
  BY <1>5, AfterEmitKeepsBase
<1>6. ASSUME NEW s \in Slots, AfterRestoreFull(s) PROVE DisplayBase'
  BY <1>6, AfterRestoreFullKeepsBase
<1>7. ASSUME NEW s \in Slots, IdleDim(s) PROVE DisplayBase'
  BY <1>7, IdleDimKeepsBase
<1>8. ASSUME NEW s \in Slots, Restore(s) PROVE DisplayBase'
  BY <1>8, RestoreKeepsBase
<1>9. ASSUME NEW s \in Slots, Shutdown(s) PROVE DisplayBase'
  BY <1>9, ShutdownKeepsBase
<1>10. CASE Signal
  BY <1>10, SignalKeepsBase
<1>11. CASE FlipLock \/ UNCHANGED vars
  BY <1>11, StillKeepsBase
<1> QED
  BY <1>1, <1>2, <1>3, <1>4, <1>5, <1>6, <1>7, <1>8, <1>9, <1>10, <1>11
  DEF Next, Requests, Threads, Coroutines

\* DisplayStore and PresenceDisplayPolicy keep the invariant the theorems below
\* rest on.
THEOREM DisplayBaseAlways == Spec => []DisplayBase
<1>1. Init => DisplayBase
  BY InitBase
<1> QED
  BY <1>1, StepBase, PTL DEF Spec

\* DisplayStore, the policy and the calls in flight keep their types: a night
\* level computed by rounding, and every level a call carries, is a brightness.
THEOREM DisplayTypeCorrect == Spec => []TypeOK
<1>1. DisplayBase => TypeOK
  BY DEF DisplayBase
<1> QED
  BY <1>1, DisplayBaseAlways, PTL

\* PresenceDisplayPolicy: while the kiosk is up a panel that is not dimmed is
\* counting down, whatever point of a dim a signal arrives at.
THEOREM CountdownHolds == Spec => []CountdownUnlessDimmed
<1>1. DisplayBase => CountdownUnlessDimmed
  BY DEF DisplayBase, Dims, CountdownUnlessDimmed
<1> QED
  BY <1>1, DisplayBaseAlways, PTL

\* DisplayStore: with nothing under way the store's brightness is the panel's,
\* after any number of clean effector errors, unless something doubtful happened.
THEOREM StoreIsHonest == Spec => []HonestUnlessDoubtful
<1>1. DisplayBase => HonestUnlessDoubtful
  BY DEF DisplayBase, Honest, Shows, Quiet, Applying, HonestUnlessDoubtful
<1> QED
  BY <1>1, DisplayBaseAlways, PTL

-----------------------------------------------------------------------------
(***************************************************************************)
(* Never left dim.  The level the panel is heading for is not the idle     *)
(* one, unless the policy says so: an inductive invariant of the calm runs *)
(* of the system, in which no calls overlapped and nothing failed.         *)
(***************************************************************************)
\* The idle level is nobody's wish: what the configuration's defaults (idle 0,
\* restore 60, a night level of at least 1) and requests for other levels give.
IdleIsApart ==
  /\ DimTarget \notin Levels /\ DimTarget # BrightTarget
  /\ \A level \in Level \ {DimTarget} : NightOf(level) # DimTarget

Calm == ~doubt /\ failures = 0 /\ reference # DimTarget

\* Somebody is in front of the panel, and no restore is still to start.
Attended == phase = "serving" /\ ~dimmed /\ restores = 0

Light ==
  /\ Attended => Heading(Level \ {DimTarget})
  /\ nightMode => Heading({NightOf(reference), DimTarget})
  /\ \A s \in Slots : Applying(s) /\ Under(s, "restore") =>
       IF nightMode THEN brightness = DimTarget ELSE calls[s].level = BrightTarget
  /\ phase = "exiting" /\ available => Heading({reference, BrightTarget})

LightWhileCalm == Calm => Light

\* The panel goes on heading where it was heading.
Onward ==
  /\ \A s \in Slots : Applying(s)' => /\ Applying(s) /\ brightness' = brightness
                                      /\ calls'[s].level = calls[s].level
                                      /\ calls'[s].of = calls[s].of
  /\ (\A s \in Slots : ~Applying(s)') =>
       \/ (\A s \in Slots : ~Applying(s)) /\ brightness' = brightness
       \/ \E s \in Slots : Applying(s) /\ brightness' = calls[s].level

\* Nothing was moving, and now the panel is heading for the level.
Sets(level) == (\A s \in Slots : ~Applying(s)) /\ Heading({level})'

LEMMA OnwardKeepsLight ==
  ASSUME LightWhileCalm, UNCHANGED <<reference, nightMode, available>>,
         phase' = "exiting" => phase = "exiting",
         Calm' => Calm /\ Onward, Attended' => Attended
  PROVE  LightWhileCalm'
<1> SUFFICES ASSUME Calm' PROVE Light'
  BY DEF LightWhileCalm
<1>1. Light /\ Onward
  BY DEF LightWhileCalm
<1>2. \A L \in SUBSET Level : Heading(L) => Heading(L)'
  BY <1>1 DEF Onward, Heading
<1>3. Attended' => Heading(Level \ {DimTarget})'
  BY <1>1, <1>2 DEF Light
<1>4. nightMode' => Heading({NightOf(reference), DimTarget})'
  BY <1>1 DEF Light, Onward, Heading
<1>5. \A s \in Slots : Applying(s)' /\ Under(s, "restore")' =>
        IF nightMode' THEN brightness' = DimTarget ELSE calls'[s].level = BrightTarget
  BY <1>1 DEF Light, Onward, Under, Applying
<1>6. (phase = "exiting" /\ available)' => Heading({reference, BrightTarget})'
  BY <1>1 DEF Light, Onward, Heading
<1> QED
  BY <1>3, <1>4, <1>5, <1>6 DEF Light

\* A request's level, which is not the idle one.
LEMMA RequestKeepsLight ==
  ASSUME IdleIsApart, NEW s \in Slots, NEW level \in Level, phase' = "serving",
         \A t \in Slots \ {s} : calls'[t] = calls[t],
         calls'[s] # Nothing => calls'[s].of = "put",
         Calm' => level # DimTarget /\ (nightMode' => level = NightOf(reference')) /\ Sets(level)
  PROVE  LightWhileCalm'
<1> SUFFICES ASSUME Calm' PROVE Light'
  BY DEF LightWhileCalm
<1>1. /\ level # DimTarget /\ (nightMode' => level = NightOf(reference'))
      /\ \A t \in Slots : ~Applying(t)
      /\ \A t \in Slots : Applying(t)' => calls'[t].level = level
      /\ (\A t \in Slots : ~Applying(t)') => brightness' = level
  BY DEF Sets, Heading
<1>2. \A t \in Slots : ~(Applying(t)' /\ Under(t, "restore")')
  BY <1>1 DEF Applying, Under
<1>3. Attended' => Heading(Level \ {DimTarget})'
  BY <1>1 DEF Heading
<1>4. nightMode' => Heading({NightOf(reference), DimTarget})'
  BY <1>1 DEF Heading
<1> QED
  BY <1>2, <1>3, <1>4 DEF Light

LEMMA RequestApplies ==
  ASSUME TypeOK, Idle, Errors, Honest, NEW s \in Slots, ~Applying(s),
         NEW level \in Level, NEW todo \in Level \cup {Nothing},
         Apply(s, "put", level, todo), UNCHANGED <<available, panel, orphans, failures>>,
         doubt' = (doubt \/ Moving)
  PROVE  /\ \A t \in Slots \ {s} : calls'[t] = calls[t]
         /\ calls'[s].of = "put"
         /\ ~doubt' => ~Moving /\ Heading({level})'
BY Applies

LEMMA PutKeepsLight ==
  ASSUME IdleIsApart, DisplayBase, LightWhileCalm, NEW s \in Slots,
         NEW night \in BOOLEAN \cup {Nothing}, NEW level \in Levels \cup {Nothing},
         PutDisplay(s, night, level)
  PROVE  LightWhileCalm'
<1>1. /\ TypeOK /\ Idle /\ Errors /\ Honest /\ ~Applying(s) /\ calls[s] = Nothing
      /\ doubt' = (doubt \/ Moving) /\ phase' = "serving"
      /\ UNCHANGED <<panel, orphans, failures>>
  BY DEF PutDisplay, DisplayBase, Applying
<1>2. CASE SetNightMode(s, night, level)
  <2>0. night \in BOOLEAN
    BY <1>2, <1>1, DisplayAssumption DEF PutDisplay, SetNightMode, SetBrightness
  <2> PICK to \in Level : to = IF night THEN NightOf(brightness) ELSE reference
    BY <1>1, NightLevels DEF TypeOK
  <2>1. /\ to \in Level /\ Apply(s, "put", to, level) /\ UNCHANGED available
        /\ nightMode' = night /\ reference' = IF night THEN brightness ELSE reference
        /\ level \in Level \cup {Nothing} /\ night \in BOOLEAN
    BY <1>1, <1>2, <2>0, DisplayAssumption DEF SetNightMode, TypeOK, Level
  <2>2. Calm' => to # DimTarget /\ (nightMode' => to = NightOf(reference'))
    BY <1>1, <2>0, <2>1 DEF Calm, IdleIsApart, TypeOK
  <2>3. /\ \A t \in Slots \ {s} : calls'[t] = calls[t]
        /\ calls'[s].of = "put"
        /\ ~doubt' => ~Moving /\ Heading({to})'
    <3>1. /\ TypeOK /\ Idle /\ Errors /\ Honest /\ ~Applying(s) /\ to \in Level
          /\ level \in Level \cup {Nothing} /\ Apply(s, "put", to, level)
          /\ UNCHANGED <<available, panel, orphans, failures>> /\ doubt' = (doubt \/ Moving)
      BY <1>1, <2>1
    <3> QED
      BY <3>1, RequestApplies
  <2>4. Calm' => Sets(to)
    BY <2>3 DEF Calm, Sets, Moving
  <2> QED
    BY <1>1, <2>1, <2>2, <2>3, <2>4, RequestKeepsLight
<1>3. CASE level # Nothing /\ SetBrightness(s, level)
  <2>1. level \in Levels /\ level \in Level /\ level # DimTarget
    BY <1>3, DisplayAssumption DEF Level, IdleIsApart
  <2>2. /\ nightMode' = FALSE /\ \A t \in Slots \ {s} : calls'[t] = calls[t]
        /\ calls'[s] # Nothing => calls'[s].of = "put"
        /\ ~doubt' => ~Moving /\ Heading({level})'
    BY <1>1, <1>3, <2>1, SetsBrightness
  <2>3. Calm' => Sets(level)
    BY <2>2 DEF Calm, Sets, Moving
  <2> QED
    BY <1>1, <2>1, <2>2, <2>3, RequestKeepsLight
<1> QED
  BY <1>2, <1>3 DEF PutDisplay

LEMMA EffectorsKeepLight ==
  ASSUME DisplayBase, LightWhileCalm, NEW s \in Slots, Effector(s) \/ AfterApply(s)
  PROVE  LightWhileCalm'
<1>1. /\ TypeOK /\ Errors /\ Honest /\ Applying(s) /\ calls[s] \in Call
      /\ UNCHANGED <<reference, nightMode, available, phase, dimmed, restores>>
      /\ \A t \in Slots \ {s} : calls'[t] = calls[t]
  BY DEF DisplayBase, Effector, AfterApply, Applying, store, policy, TypeOK
<1>2. CASE Effector(s)
  <2>1. /\ calls'[s] # Nothing /\ calls'[s].at = "apply"
        /\ calls'[s].level = calls[s].level /\ calls'[s].of = calls[s].of
        /\ brightness' = brightness
    <3>1. PICK th \in {"ok", "failed"} : calls' = [calls EXCEPT ![s].thread = th]
      BY <1>2 DEF Effector
    <3>2. calls'[s] = [calls[s] EXCEPT !.thread = th]
      BY <1>1, <3>1 DEF TypeOK
    <3>3. calls'[s] \in Call /\ calls'[s].at = "apply"
      BY <1>1, <3>2 DEF Call, Applying
    <3> QED
      BY <1>1, <1>2, <3>2, <3>3, NothingAssumption DEF Effector, store, Call
  <2>2. \A t \in Slots : Applying(t)' <=> Applying(t)
    BY <1>1, <2>1 DEF Applying
  <2>3. Onward
    BY <1>1, <2>1, <2>2 DEF Onward
  <2>4. Calm' => Calm
    <3>1. failures \in Nat /\ doubt \in BOOLEAN
      BY <1>1, DisplayAssumption DEF TypeOK
    <3>2. failures' = 0 => failures = 0
      BY <1>2, <3>1 DEF Effector
    <3>3. doubt' = doubt \/ doubt' = (doubt \/ panel' # panel)
      BY <1>2 DEF Effector
    <3>4. ~doubt' => ~doubt
      BY <3>1, <3>3, Zenon
    <3> QED
      BY <1>1, <3>2, <3>4 DEF Calm
  <2> QED
    BY <1>1, <2>3, <2>4, OnwardKeepsLight DEF Attended
<1>3. CASE AfterApply(s)
  <2>1. /\ UNCHANGED <<failures, doubt>> /\ calls[s].thread \in {"ok", "failed"}
        /\ brightness' = IF calls[s].thread = "ok" THEN calls[s].level ELSE brightness
        /\ calls'[s].at = "emit"
    BY <1>1, <1>3 DEF AfterApply, Call, TypeOK
  <2>2. ASSUME Calm' PROVE Calm /\ Onward
    <3>1. Calm /\ Alone /\ calls[s].thread = "ok"
      BY <1>1, <2>1, <2>2 DEF Calm, Honest, Errors, Applying
    <3>2. \A t \in Slots : ~Applying(t)'
      BY <1>1, <2>1, <3>1 DEF Alone, Applying
    <3> QED
      BY <1>1, <2>1, <3>1, <3>2 DEF Onward
  <2> QED
    BY <1>1, <2>2, OnwardKeepsLight DEF Attended
<1> QED
  BY <1>2, <1>3

LEMMA StillKeepsLight ==
  ASSUME DisplayBase, LightWhileCalm, 
         \/ FlipLock \/ UNCHANGED vars
         \/ \E level \in orphans : OrphanEffector(level)
  PROVE  LightWhileCalm'
<1>1. UNCHANGED <<store, calls, policy, phase, doubt>>
  BY DEF FlipLock, OrphanEffector, vars
<1> USE <1>1 DEF store, policy
<1>2. Onward
  BY DEF Onward, Applying
<1>3. Calm' => Calm
  <2>1. ~doubt => orphans = {}
    BY DEF DisplayBase, Honest, Alone
  <2>2. ~doubt => UNCHANGED failures
    BY <2>1 DEF FlipLock, vars
  <2> QED
    BY <2>2 DEF Calm
<1> QED
  BY <1>2, <1>3, OnwardKeepsLight DEF Attended

LEMMA AfterEmitKeepsLight ==
  ASSUME IdleIsApart, DisplayBase, LightWhileCalm, NEW s \in Slots, AfterEmit(s)
  PROVE  LightWhileCalm'
<1>1. /\ TypeOK /\ ~Applying(s) /\ calls[s] # Nothing
      /\ UNCHANGED <<panel, orphans, dimmed, restores, phase, locked, failures>>
  BY DEF AfterEmit, DisplayBase, Applying
<1>2. CASE calls[s].todo # Nothing
  <2> PICK level \in Level : level = calls[s].todo
    BY <1>1, <1>2 DEF TypeOK, Call
  <2>1. /\ level \in Levels /\ level \in Level /\ level # DimTarget
        /\ Under(s, "put") /\ phase = "serving"
        /\ SetBrightness(s, level) /\ doubt' = (doubt \/ Moving)
    BY <1>1, <1>2, DisplayAssumption
    DEF AfterEmit, Level, IdleIsApart, DisplayBase, Todos, Phases, Under, TypeOK
  <2>2. /\ nightMode' = FALSE /\ \A t \in Slots \ {s} : calls'[t] = calls[t]
        /\ calls'[s] # Nothing => calls'[s].of = "put"
        /\ ~doubt' => ~Moving /\ Heading({level})'
    BY <1>1, <2>1, SetsBrightness
  <2>3. Calm' => Sets(level)
    BY <2>2 DEF Calm, Sets, Moving
  <2> QED
    BY <1>1, <2>1, <2>2, <2>3, RequestKeepsLight
<1>3. CASE calls[s].todo = Nothing
  <2>1. Finish(s) /\ UNCHANGED <<store, doubt>>
    BY <1>3 DEF AfterEmit
  <2>2. calls'[s] = Nothing /\ \A t \in Slots \ {s} : calls'[t] = calls[t]
    BY <1>1, <2>1 DEF Finish, TypeOK
  <2>3. Onward
    BY <1>1, <2>1, <2>2 DEF Onward, Applying, store
  <2> QED
    BY <1>1, <2>1, <2>3, OnwardKeepsLight DEF Attended, Calm, store
<1> QED
  BY <1>2, <1>3

LEMMA IdleDimKeepsLight ==
  ASSUME DisplayBase, LightWhileCalm, NEW s \in Slots, IdleDim(s)
  PROVE  LightWhileCalm'
<1>1. /\ calls[s] = Nothing /\ dimmed' = TRUE /\ doubt' = (doubt \/ Moving)
      /\ UNCHANGED <<panel, orphans, phase, failures>>
      /\ SetAmbient(s, "dim", DimTarget) \/ (DimTarget = brightness /\ UNCHANGED <<store, calls>>)
      /\ phase # "exiting" /\ DimTarget \in Level
  BY DisplayAssumption DEF IdleDim, DisplayBase, Dims, Level
<1>2. /\ UNCHANGED <<reference, nightMode, available>>
      /\ \A t \in Slots \ {s} : calls'[t] = calls[t]
      /\ calls'[s] # Nothing => calls'[s].of = "dim"
      /\ ~doubt' => ~doubt /\ ~Moving /\ Heading({DimTarget})'
  BY <1>1, SetsAmbient
<1> SUFFICES ASSUME Calm' PROVE Light'
  BY DEF LightWhileCalm
<1>3. (\A t \in Slots : ~Applying(t)) /\ Heading({DimTarget})'
  BY <1>2 DEF Calm, Moving
<1>4. \A t \in Slots : ~(Applying(t)' /\ Under(t, "restore")')
  BY <1>2, <1>3 DEF Applying, Under
<1>5. nightMode' => Heading({NightOf(reference), DimTarget})'
  BY <1>3 DEF Heading
<1> QED
  BY <1>1, <1>4, <1>5 DEF Light, Attended

LEMMA RestoreKeepsLight ==
  ASSUME IdleIsApart, DisplayBase, LightWhileCalm, NEW s \in Slots, Restore(s)
  PROVE  LightWhileCalm'
<1> PICK target \in Level : target = IF nightMode THEN NightOf(reference) ELSE BrightTarget
  BY NightLevels, DisplayAssumption DEF Level, DisplayBase, TypeOK
<1>1. /\ calls[s] = Nothing /\ doubt' = (doubt \/ Moving)
      /\ UNCHANGED <<panel, orphans, dimmed, phase, failures>>
      /\ SetAmbient(s, "restore", target) \/ (target = brightness /\ UNCHANGED <<store, calls>>)
  BY DEF Restore
<1>2. reference # DimTarget => target # DimTarget
  BY DEF DisplayBase, TypeOK, IdleIsApart
<1>3. target = IF nightMode THEN NightOf(reference) ELSE BrightTarget
  OBVIOUS
<1>4. /\ UNCHANGED <<reference, nightMode, available>>
      /\ \A t \in Slots \ {s} : calls'[t] = calls[t]
      /\ target # brightness \/ UNCHANGED <<brightness, calls>>
      /\ Idle' /\ (~doubt' => ~doubt /\ ~Moving /\ Heading({target})')
  BY <1>1, <1>2, SetsAmbient
<1>5. available => brightness' = brightness
  BY <1>1 DEF SetAmbient, Apply, store
<1> SUFFICES ASSUME Calm' PROVE Light'
  BY DEF LightWhileCalm
<1>6. /\ \A t \in Slots : ~Applying(t)
      /\ \A t \in Slots : Applying(t)' => t = s /\ calls'[t].level = target /\ target # brightness
      /\ (\A t \in Slots : ~Applying(t)') => brightness' = target
      /\ Light /\ reference # DimTarget
  BY <1>1, <1>4 DEF Calm, Moving, Heading, Applying, LightWhileCalm
<1>7. Attended' => Heading(Level \ {DimTarget})'
  BY <1>2, <1>6 DEF Heading
<1>8. nightMode' => Heading({NightOf(reference), DimTarget})'
  BY <1>3, <1>4, <1>6 DEF Heading
<1>9. (phase = "exiting" /\ available)' => Heading({reference, BrightTarget})'
  BY <1>1, <1>3, <1>4, <1>6 DEF Heading, DisplayBase, Phases
<1>10. ASSUME NEW t \in Slots, Applying(t)', Under(t, "restore")'
       PROVE  IF nightMode' THEN brightness' = DimTarget ELSE calls'[t].level = BrightTarget
  <2>1. CASE nightMode
    <3>1. brightness \in {NightOf(reference), DimTarget}
      BY <1>6, <2>1 DEF Light, Heading
    <3>2. available
      BY <1>4, <1>10 DEF Idle
    <3> QED
      BY <1>3, <1>4, <1>5, <1>6, <1>10, <2>1, <3>1, <3>2
  <2>2. CASE ~nightMode
    BY <1>3, <1>4, <1>6, <1>10, <2>2
  <2> QED
    BY <2>1, <2>2
<1> QED
  BY <1>7, <1>8, <1>9, <1>10 DEF Light

\* Cancelling a countdown whose call is not in _apply changes no heading.
LEMMA CancelGoesOnward ==
  ASSUME DisplayBase, CancelCountdown, UNCHANGED <<brightness, available, panel, failures>>
  PROVE  ~doubt' => ~doubt /\ Onward
<1>1. /\ \A t \in Slots : calls'[t] = IF Under(t, "dim") THEN Nothing ELSE calls[t]
      /\ ~doubt' => ~doubt /\ \A t \in Slots : Applying(t) => ~Under(t, "dim")
  BY Cancels
<1>2. \A t \in Slots : Applying(t)' => Applying(t) /\ calls'[t] = calls[t]
  BY <1>1 DEF Applying
<1>3. ~doubt' => \A t \in Slots : Applying(t) => Applying(t)'
  BY <1>1 DEF Applying
<1> QED
  BY <1>1, <1>2, <1>3 DEF Onward

LEMMA SignalKeepsLight ==
  ASSUME DisplayBase, LightWhileCalm, Signal
  PROVE  LightWhileCalm'
<1> USE DEF Signal, store
<1>1. ~doubt' => ~doubt /\ Onward
  BY CancelGoesOnward
<1>2. Attended' => Attended
  BY DEF Attended, DisplayBase, TypeOK
<1> QED
  BY <1>1, <1>2, OnwardKeepsLight DEF Calm

LEMMA ShutdownKeepsLight ==
  ASSUME DisplayBase, LightWhileCalm, NEW s \in Slots, Shutdown(s)
  PROVE  LightWhileCalm'
<1> USE DEF Shutdown
<1>1. /\ TypeOK /\ Idle /\ Errors /\ Honest /\ ~Applying(s) /\ calls[s] = Nothing
      /\ \A t \in Slots : ~Under(t, "put") /\ ~Under(t, "shutdown")
  BY DEF DisplayBase, Applying, Under, Phases
<1> SUFFICES ASSUME Calm' PROVE Light'
  BY DEF LightWhileCalm
<1>2. CASE brightness # reference
  <2> DEFINE todo == Nothing
  <2>1. /\ todo \in Level \cup {Nothing} /\ reference \in Level
        /\ Apply(s, "shutdown", reference, todo)
        /\ UNCHANGED <<available, panel, orphans, failures>>
        /\ doubt' = (doubt \/ Moving) /\ phase' = "restoring"
        /\ "shutdown" \in {"put", "dim", "restore", "shutdown"}
    BY <1>1, <1>2 DEF TypeOK
  <2> HIDE DEF todo
  <2>2. /\ \A t \in Slots \ {s} : calls'[t] = calls[t]
        /\ calls'[s].of = "shutdown"
        /\ ~doubt' => ~doubt /\ ~Moving
    BY <1>1, <2>1, Applies
  <2>3. \A t \in Slots : ~(Applying(t)' /\ Under(t, "restore")')
    BY <2>2 DEF Applying, Under, Calm, Moving
  <2> QED
    BY <2>1, <2>3 DEF Light, Attended
<1>3. CASE brightness = reference
  <2>1. CancelCountdown /\ phase' = "exiting" /\ UNCHANGED brightness
    BY <1>3
  <2>2. ~doubt /\ Onward
    BY <2>1, CancelGoesOnward DEF Calm
  <2>3. Light
    BY <2>2 DEF Calm, LightWhileCalm
  <2>4. \A t \in Slots : calls'[t] = IF Under(t, "dim") THEN Nothing ELSE calls[t]
    BY <2>1, Cancels
  <2>5. \A t \in Slots : Applying(t)' => Applying(t) /\ Under(t, "restore")
    BY <1>1, <2>4 DEF Applying, Under, TypeOK, Call
  <2>6. \A t \in Slots : Applying(t)' => calls'[t].level = BrightTarget
    BY <1>3, <2>2, <2>3, <2>5 DEF Onward, Light, Calm
  <2>7. (\A t \in Slots : ~Applying(t)') => brightness' = reference
    BY <1>3, <2>1
  <2>8. Heading({reference, BrightTarget})'
    BY <2>6, <2>7 DEF Heading
  <2> QED
    BY <2>1, <2>6, <2>8 DEF Light, Attended
<1> QED
  BY <1>2, <1>3

LEMMA AfterRestoreFullKeepsLight ==
  ASSUME DisplayBase, LightWhileCalm, NEW s \in Slots, AfterRestoreFull(s)
  PROVE  LightWhileCalm'
<1>1. /\ TypeOK /\ Idle /\ Errors /\ Honest /\ calls[s] # Nothing
      /\ Under(s, "shutdown") /\ calls[s].thread \in {"ok", "failed"}
      /\ UNCHANGED <<reference, nightMode, available, failures>> /\ phase' = "exiting"
      /\ brightness' = IF calls[s].thread = "ok" THEN calls[s].level ELSE brightness
  BY DEF DisplayBase, AfterRestoreFull, Under, TypeOK, Call
<1>2. /\ calls[s].level = reference /\ phase # "serving" /\ ~nightMode
      /\ available => calls[s].at = "apply"
  BY <1>1 DEF DisplayBase, Phases
<1> DEFINE rest == {t \in Slots \ {s} : calls[t] # Nothing /\ calls[t].of # "dim"}
           dims == {t \in Slots : calls[t] # Nothing /\ calls[t].of = "dim"}
<1>3. /\ calls' = [t \in Slots |-> IF t \in rest THEN calls[t] ELSE Nothing]
      /\ doubt' = (doubt \/ \E d \in dims : Applying(d))
  BY DEF AfterRestoreFull
<1>4. \A t \in Slots : Applying(t)' => Applying(t) /\ t # s
  BY <1>3 DEF Applying
<1>5. ~doubt' => ~doubt
  BY <1>1, <1>3, Zenon DEF TypeOK
<1> SUFFICES ASSUME Calm' PROVE Light'
  BY DEF LightWhileCalm
<1>6. ~doubt /\ Alone /\ calls[s].thread = "ok"
  BY <1>1, <1>5 DEF Calm, Honest, Errors
<1>7. brightness' = reference
  BY <1>1, <1>2, <1>6
<1>8. \A t \in Slots : ~Applying(t)'
  <2>1. CASE available
    BY <1>1, <1>2, <1>4, <1>6, <2>1 DEF Alone, Applying
  <2>2. CASE ~available
    BY <1>1, <1>4, <2>2 DEF Idle
  <2> QED
    BY <2>1, <2>2
<1> QED
  BY <1>1, <1>2, <1>7, <1>8 DEF Light, Attended, Heading

LEMMA StepLight ==
  IdleIsApart /\ DisplayBase /\ LightWhileCalm /\ [Next]_vars => LightWhileCalm'
<1> SUFFICES ASSUME IdleIsApart, DisplayBase, LightWhileCalm, [Next]_vars PROVE LightWhileCalm'
  OBVIOUS
<1>1. ASSUME NEW s \in Slots, NEW night \in BOOLEAN \cup {Nothing},
             NEW level \in Levels \cup {Nothing}, PutDisplay(s, night, level)
      PROVE  LightWhileCalm'
  BY <1>1, PutKeepsLight
<1>2. ASSUME NEW s \in Slots, Effector(s) \/ AfterApply(s) PROVE LightWhileCalm'
  BY <1>2, EffectorsKeepLight
<1>3. ASSUME NEW s \in Slots, AfterEmit(s) PROVE LightWhileCalm'
  BY <1>3, AfterEmitKeepsLight
<1>4. ASSUME NEW s \in Slots, AfterRestoreFull(s) PROVE LightWhileCalm'
  BY <1>4, AfterRestoreFullKeepsLight
<1>5. ASSUME NEW s \in Slots, IdleDim(s) PROVE LightWhileCalm'
  BY <1>5, IdleDimKeepsLight
<1>6. ASSUME NEW s \in Slots, Restore(s) PROVE LightWhileCalm'
  BY <1>6, RestoreKeepsLight
<1>7. ASSUME NEW s \in Slots, Shutdown(s) PROVE LightWhileCalm'
  BY <1>7, ShutdownKeepsLight
<1>8. CASE Signal
  BY <1>8, SignalKeepsLight
<1>9. CASE \/ FlipLock \/ UNCHANGED vars
           \/ \E level \in orphans : OrphanEffector(level)
  BY <1>9, StillKeepsLight
<1> QED
  BY <1>1, <1>2, <1>3, <1>4, <1>5, <1>6, <1>7, <1>8, <1>9
  DEF Next, Requests, Threads, Coroutines

\* The defaults of the configuration keep the idle level apart.
LEMMA DefaultsKeepApart ==
  ASSUME DimTarget = 0, DimTarget \notin Levels, BrightTarget # 0
  PROVE  IdleIsApart
BY NightLevels DEF IdleIsApart

\* DisplayStore and PresenceDisplayPolicy: with nothing under way, a panel with
\* somebody in front of it is not at the idle level, and after the shutdown it
\* shows its reference or the restore level, in every calm run of a household
\* that keeps the idle level for idling.
THEOREM AlwaysHandedBack == ASSUME IdleIsApart PROVE Spec => []NeverLeftDim
<1>1. Init => LightWhileCalm
  BY DisplayAssumption DEF Init, LightWhileCalm, Light, Calm, Heading, Applying, Level
<1>2. IdleIsApart
  OBVIOUS
<1>3. DisplayBase /\ LightWhileCalm /\ [Next]_vars => LightWhileCalm'
  BY <1>2, StepLight
<1>4. DisplayBase /\ LightWhileCalm => NeverLeftDim
  <2> SUFFICES ASSUME DisplayBase, LightWhileCalm, Quiet, Calm
               PROVE  /\ phase = "serving" /\ ~dimmed => brightness # DimTarget
                      /\ phase = "exiting" /\ available => panel \in {reference, BrightTarget}
    BY DEF NeverLeftDim, Calm
  <2>1. Light /\ \A s \in Slots : ~Applying(s)
    BY DEF LightWhileCalm, Quiet, Applying
  <2>2. available => brightness = panel
    BY <2>1 DEF DisplayBase, Honest, Shows, Calm
  <2> QED
    BY <2>1, <2>2 DEF Light, Attended, Heading, Quiet
<1> QED
  BY <1>1, <1>3, <1>4, DisplayBaseAlways, PTL DEF Spec
=============================================================================
