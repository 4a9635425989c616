-------------------------------- MODULE Gates -------------------------------
(***************************************************************************)
(* The gate that api.py puts before every request that changes household   *)
(* data: _require_unlocked answers 423 while privacy mode is locked.  What *)
(* locks and unlocks it is Privacy's subject; here it changes at any time, *)
(* also between two steps of a request that has passed it.                 *)
(***************************************************************************)
VARIABLE locked  \* get_privacy_store().locked

RequireUnlocked == ~locked

ToggleLock == locked' = ~locked
=============================================================================
