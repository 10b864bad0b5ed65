------------------------------- MODULE Switches -------------------------------
(***************************************************************************)
(* The two services that keep a switch in a driver's sysfs node, as they   *)
(* run next to each other on a device.                                     *)
(***************************************************************************)
EXTENDS SunlightSwitch, TouchRate

Init == SunInit /\ TouchInit

Next ==
  \/ SunNext /\ UNCHANGED touchVars
  \/ TouchNext /\ UNCHANGED sunVars

Spec == Init /\ [][Next]_<<sunVars, touchVars>>
==============================================================================
