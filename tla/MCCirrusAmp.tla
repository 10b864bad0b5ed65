----------------------------- MODULE MCCirrusAmp -----------------------------
(* Instances of CirrusAmp for TLC: streams and failure detectors are alike. *)
EXTENDS CirrusAmp, TLC

Alike == Permutations(Streams) \cup Permutations(Detectors)
==============================================================================
