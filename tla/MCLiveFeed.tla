----------------------------- MODULE MCLiveFeed -----------------------------
(***************************************************************************)
(* One screen with two connections, so that it may be back before the      *)
(* backend has noticed that it was gone, and a broadcast has two sockets   *)
(* to send to; two changes, so that their broadcasts may overlap; one      *)
(* connection that breaks, or a restart.                                   *)
(***************************************************************************)
EXTENDS LiveFeed, TLC

CONSTANTS s1, c1, c2

MCScreens == {s1}
MCConns == {c1, c2}
=============================================================================
