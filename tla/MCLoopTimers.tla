---------------------------- MODULE MCLoopTimers ----------------------------
(***************************************************************************)
(* Instances of LoopTimers: the real clock with small or real wheels.       *)
(***************************************************************************)
EXTENDS LoopTimers, TLC

CONSTANTS e1, e2

EntrySymmetry == Permutations(Entries)
=============================================================================
