---------------------------- MODULE KitchenTimer ----------------------------
(***************************************************************************)
(* What the household is promised: one kitchen timer with a dial, that     *)
(* rings when the time left has run out, stands still while it is paused,  *)
(* and, while the display is locked, can only ring and be silenced.        *)
(* Timers implements this module; there is no task, no id and no clock     *)
(* time here.  Times are in ticks.  "steady" says that nobody has stepped  *)
(* the wall clock: only then are pauses and extensions exact, to Slack.    *)
(***************************************************************************)
EXTENDS Integers

CONSTANTS Shortest, Longest,  \* settings of the dial
          Additions,          \* what an extension may add
          Slack               \* rounding to whole seconds

VARIABLES phase, left, dial, locked, steady

vars == <<phase, left, dial, locked, steady>>

Settings == Shortest .. Longest

Near(a, b) == a - b <= Slack /\ b - a <= Slack

Off == phase = "none" /\ left = 0 /\ dial = 0

Init == Off /\ locked \in BOOLEAN /\ steady = TRUE

Set(d) ==
  /\ ~locked
  /\ phase' = "running" /\ dial' = d /\ left' = d
  /\ UNCHANGED <<locked, steady>>

Restart == phase # "none" /\ Set(dial)

Extend ==
  /\ ~locked
  /\ phase \in {"running", "fired"}
  /\ phase' = "running"
  /\ dial' \in Settings
  /\ left' \in (Shortest - Slack) .. (Longest + Slack) /\ Near(left', dial')
  /\ steady => \E a \in Additions :
                 left' = a + (IF phase = "running" THEN left ELSE 0)
  /\ UNCHANGED <<locked, steady>>

Hold ==
  /\ ~locked
  /\ phase = "running" /\ phase' = "paused"
  /\ left' \in Shortest .. dial
  /\ steady => left' \in {Shortest, dial} \/ Near(left', left)
  /\ UNCHANGED <<dial, locked, steady>>

Grow ==
  /\ ~locked
  /\ phase = "paused"
  /\ \E a \in Additions : left' = left + a
  /\ left' <= Longest /\ dial' = left'
  /\ UNCHANGED <<phase, locked, steady>>

Resume ==
  /\ ~locked
  /\ phase = "paused" /\ phase' = "running"
  /\ UNCHANGED <<left, dial, locked, steady>>

Cancel ==
  /\ phase # "none"
  /\ locked => phase = "fired"
  /\ Off' /\ UNCHANGED <<locked, steady>>

Ring ==
  /\ phase = "running" /\ left <= 0
  /\ phase' = "fired" /\ left' = 0
  /\ UNCHANGED <<dial, locked, steady>>

Pass ==
  /\ left' = IF phase = "running" THEN left - 1 ELSE left
  /\ UNCHANGED <<phase, dial, locked, steady>>

Forget == Off' /\ UNCHANGED <<locked, steady>>

Lock == locked' = ~locked /\ UNCHANGED <<phase, left, dial, steady>>

StepClock == steady' = FALSE /\ UNCHANGED <<phase, left, dial, locked>>

Next == \/ \E d \in Settings : Set(d)
        \/ Restart \/ Extend \/ Hold \/ Grow \/ Resume \/ Cancel
        \/ Ring \/ Pass \/ Forget \/ Lock \/ StepClock

\* A timer whose time is up rings, unless it is touched first.
Spec == Init /\ [][Next]_vars /\ WF_vars(Ring)
=============================================================================
