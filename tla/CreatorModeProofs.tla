--------------------------- MODULE CreatorModeProofs ---------------------------
(***************************************************************************)
(* Theorems about CreatorMode: types; the modes and the setting agree      *)
(* after a setMode that was not disturbed; and, if the switch cannot be    *)
(* tapped under a warning, it shows the stored setting.                    *)
(***************************************************************************)
EXTENDS CreatorMode, TLAPS

\* What setMode has done so far, as long as the HAL it did it with lives.
SoFar ==
  /\ whole => step = "idle" /\ \A m \in Modes : mode[m] = Position(enable)
  /\ step \in {"color", "semc", "store"} => link[by] # "none"
  /\ step \in {"semc", "store"} => mode["color"] = target
  /\ step \in {"color", "semc", "store"} /\ link[by] = "live" => mode["sspp"] = target
  /\ step = "store" /\ link[by] = "live" => mode["semc"] = target

Settles == TypeOK /\ SoFar

LEMMA InitSettles == Init => Settles
  BY DEF Init, Settles, TypeOK, SoFar, NoLinks, Modes

LEMMA ModeSet ==
  ASSUME Settles, Apply PROVE Settles'
<1> USE DEF Settles, TypeOK, SoFar, Modes, settings, ui
<1>1. CASE step = "sspp" BY <1>1 DEF Apply, After
<1>2. CASE step = "color" BY <1>2 DEF Apply, After
<1>3. CASE step = "semc" BY <1>3 DEF Apply, After
<1>4. QED BY <1>1, <1>2, <1>3 DEF Apply

LEMMA NextSettles == Settles /\ [Next]_vars => Settles'
<1> SUFFICES ASSUME Settles, [Next]_vars PROVE Settles'
  OBVIOUS
<1> USE DEF Settles, TypeOK, SoFar, Modes, Position, SetMode, settings, ui, setter
<1>1. CASE User
  <2>1. CASE Open   BY <2>1 DEF Open
  <2>2. CASE Close  BY <2>2 DEF Close
  <2>3. CASE Tap
    <3>1. CASE SetMode(checked', "screen") BY <2>3, <3>1 DEF Tap
    <3>2. CASE UNCHANGED <<settings, mode, setter, whole>> BY <2>3, <3>2 DEF Tap
    <3>3. QED BY <2>3, <3>1, <3>2 DEF Tap
  <2>4. CASE Tick   BY <2>4 DEF Tick
  <2>5. CASE Ok     BY <2>5 DEF Ok
  <2>6. CASE Cancel BY <2>6 DEF Cancel
  <2>7. QED BY <1>1, <2>1, <2>2, <2>3, <2>4, <2>5, <2>6 DEF User
<1>2. CASE Boot
  <2>1. CASE boot' = "setting" /\ SetMode("on", "boot") BY <1>2, <2>1 DEF Boot
  <2>2. CASE boot' = "done" /\ UNCHANGED <<settings, mode, setter, whole>>
    BY <1>2, <2>2 DEF Boot
  <2>3. QED BY <1>2, <2>1, <2>2 DEF Boot
<1>3. CASE Apply  BY <1>3, ModeSet
<1>4. CASE Store  BY <1>4 DEF Store
<1>5. CASE Crash  BY <1>5 DEF Crash, Gone, NoLinks
<1>6. CASE HalDies BY <1>6 DEF HalDies, Forgotten
<1>7. CASE Killed BY <1>7 DEF Killed, Gone, NoLinks
<1>8. CASE Reboot BY <1>8 DEF Reboot, Gone, NoLinks, Forgotten
<1>9. CASE UNCHANGED vars BY <1>9 DEF vars
<1>10. QED BY <1>1, <1>2, <1>3, <1>4, <1>5, <1>6, <1>7, <1>8, <1>9 DEF Next, Continue

LEMMA AlwaysSettles == Spec => []Settles
<1>1. QED BY InitSettles, NextSettles, PTL DEF Spec

\* Every variable keeps its type (TypeOK).
THEOREM CreatorTypes == Spec => []TypeOK
<1>1. Settles => TypeOK BY DEF Settles
<1>2. QED BY <1>1, AlwaysSettles, PTL

\* After a setMode that ran to its end the three modes and the setting agree
\* (AllAgree), whatever earlier ones left behind and until a restart.
THEOREM ModesAgree == Spec => []AllAgree
<1>1. Settles => AllAgree BY DEF Settles, SoFar, AllAgree
<1>2. QED BY <1>1, AlwaysSettles, PTL

------------------------------------------------------------------------------
(* The switch.                                                             *)

\* Where the switch is while a warning is shown or setMode runs.
Shown ==
  /\ dialog => checked = "on" /\ ~enable /\ step = "idle"
  /\ checked # "none" /\ ~dialog /\ (step = "idle" \/ by = "boot") => checked = Position(enable)
  /\ step # "idle" /\ by = "screen" => checked = target
  /\ step # "idle" /\ by = "boot" => enable /\ target = "on"

LEMMA NextShown ==
  ASSUME ~QuickTaps PROVE Settles /\ Shown /\ [Next]_vars => Shown'
<1> SUFFICES ASSUME Settles, Shown, [Next]_vars PROVE Shown'
  OBVIOUS
<1> USE DEF Settles, TypeOK, Shown, Position, SetMode, settings, ui, setter
<1>1. CASE User
  <2>1. CASE Open   BY <2>1 DEF Open
  <2>2. CASE Close  BY <2>2 DEF Close
  <2>3. CASE Tap    BY <2>3 DEF Tap
  <2>4. CASE Tick   BY <2>4 DEF Tick
  <2>5. CASE Ok     BY <2>5 DEF Ok
  <2>6. CASE Cancel BY <2>6 DEF Cancel
  <2>7. QED BY <1>1, <2>1, <2>2, <2>3, <2>4, <2>5, <2>6 DEF User
<1>2. CASE Boot   BY <1>2 DEF Boot
<1>3. CASE Apply  BY <1>3 DEF Apply, After, Modes
<1>4. CASE Store  BY <1>4 DEF Store
<1>5. CASE Crash  BY <1>5 DEF Crash, Gone
<1>6. CASE HalDies BY <1>6 DEF HalDies
<1>7. CASE Killed BY <1>7 DEF Killed, Gone
<1>8. CASE Reboot BY <1>8 DEF Reboot, Gone
<1>9. CASE UNCHANGED vars BY <1>9 DEF vars
<1>10. QED BY <1>1, <1>2, <1>3, <1>4, <1>5, <1>6, <1>7, <1>8, <1>9 DEF Next, Continue

\* The switch shows the stored setting (SwitchTells), across warnings that
\* are cancelled or lost, boots, and processes and HALs that die.
THEOREM SwitchShows == ASSUME ~QuickTaps PROVE Spec => []SwitchTells
<1>1. Init => Shown BY DEF Init, Shown
<1>2. Settles /\ Shown /\ [Next]_vars => Shown' BY NextShown
<1>3. Shown => SwitchTells BY DEF Shown, SwitchTells
<1>4. QED BY <1>1, <1>2, <1>3, AlwaysSettles, PTL DEF Spec
==============================================================================
