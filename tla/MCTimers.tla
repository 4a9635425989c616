------------------------------ MODULE MCTimers ------------------------------
(***************************************************************************)
(* A small household for TLC: two timer ids (one may replace the other),   *)
(* two task slots (one task may still be unwinding when the next one is    *)
(* armed), half-second ticks so that rounding happens, timers of one to    *)
(* three seconds on a clock that runs for two and a half and may be        *)
(* stepped once, by two seconds either way.                                *)
(***************************************************************************)
EXTENDS Timers

CONSTANTS t1, t2, k1, k2

MCIds == {t1, t2}
MCTasks == {k1, k2}
MCDurations == {1, 3}
MCAddSeconds == {1}
MCClockSteps == {-4, 4}
=============================================================================
