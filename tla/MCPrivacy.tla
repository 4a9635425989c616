----------------------------- MODULE MCPrivacy -----------------------------
(***************************************************************************)
(* Half-second ticks; two attempts, cooldowns of 1, 2 and then 3 s (the    *)
(* cap), an undo window of one second and one step of the wall clock, by   *)
(* two seconds either way: long enough for the third lock-out to pass.     *)
(***************************************************************************)
EXTENDS Privacy

MCClockSteps == {-4, 4}
=============================================================================
