---------------------------- MODULE MCVibratorHal ----------------------------
(* Instances of VibratorHal for TLC: calls and callers are alike.           *)
EXTENDS VibratorHal, TLC

Alike == Permutations(Calls) \cup Permutations(Callers)
==============================================================================
