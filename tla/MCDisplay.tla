----------------------------- MODULE MCDisplay ------------------------------
(***************************************************************************)
(* Two calls at a time on a panel at 100%: idle level 20, restore level    *)
(* 80, a night level of one percent, and one level the household asks for. *)
(***************************************************************************)
EXTENDS Display, TLC

CONSTANTS s1, s2

MCSlots == {s1, s2}
MCSymmetry == Permutations(MCSlots)
MCLevels == {50}
=============================================================================
