----------------------------- MODULE CreatorMode -----------------------------
(***************************************************************************)
(* XperiaParts' creator mode: a switch on a settings screen, a warning     *)
(* before it is turned on, three display modes to set, one after the other *)
(* and with no way back, and a setting that is stored last and read at the *)
(* next boot.  Everything runs on the main thread of one process, which    *)
(* may be killed; the display HAL may die, and is started again.           *)
(***************************************************************************)

CONSTANT QuickTaps   \* may the switch be tapped before the warning has the focus?

ASSUME QuickTapsAssumption == QuickTaps \in BOOLEAN

VARIABLES
  enable,    \* cm_enable, in the secure settings
  hide,      \* creator_mode_dialog_disable, there too
  mode,      \* SEMC's two modes, which its HAL forgets, and Android's colour mode
  boot,      \* what has become of this boot's broadcast
  checked,   \* the position of the switch; "none" when there is no screen
  dialog,    \* the warning is shown
  link,      \* the connection to the HAL of either CreatorModeUtils object
  step,      \* how far setMode is
  target,    \* what it sets
  by,        \* on which object
  whole      \* history: the modes are those of one setMode from end to end

settings == <<enable, hide>>
ui == <<checked, dialog>>
setter == <<step, target, by>>
vars == <<settings, mode, boot, ui, link, setter, whole>>

Modes == {"sspp", "color", "semc"}
Forgotten == [mode EXCEPT !["sspp"] = "unset", !["semc"] = "unset"]
NoLinks == [o \in {"boot", "screen"} |-> "none"]
Position(on) == IF on THEN "on" ELSE "off"

TypeOK ==
  /\ enable \in BOOLEAN /\ hide \in BOOLEAN /\ dialog \in BOOLEAN /\ whole \in BOOLEAN
  /\ mode \in [Modes -> {"on", "off", "unset"}]
  /\ boot \in {"pending", "setting", "done", "broken"}
  /\ checked \in {"on", "off", "none"} /\ target \in {"on", "off"}
  /\ link \in [{"boot", "screen"} -> {"none", "live", "dead"}]
  /\ step \in Modes \cup {"idle", "store"} /\ by \in {"boot", "screen"}

Init ==
  /\ enable = FALSE /\ hide = FALSE /\ mode = [m \in Modes |-> "unset"]
  /\ boot = "pending" /\ checked = "none" /\ dialog = FALSE
  /\ link = NoLinks /\ step = "idle" /\ target = "off" /\ by = "boot" /\ whole = FALSE

SetMode(position, object) ==
  /\ step' = "sspp" /\ target' = position /\ by' = object /\ whole' = FALSE
  /\ UNCHANGED <<settings, mode>>

\* Mutant: what is enabled is not applied.
BootInverted ==
  /\ boot = "pending" /\ step = "idle" /\ UNCHANGED ui
  /\ \/ ~enable /\ boot' = "setting" /\ SetMode("on", "boot")
     \/ enable /\ boot' = "done" /\ UNCHANGED <<settings, mode, setter, whole>>
  /\ link' = [link EXCEPT !["boot"] = "none"]

\* onReceive, with an object of its own, and initialize.
Boot ==
  /\ boot = "pending" /\ step = "idle" /\ UNCHANGED ui
  /\ \/ enable /\ boot' = "setting" /\ SetMode("on", "boot")
     \/ ~enable /\ boot' = "done" /\ UNCHANGED <<settings, mode, setter, whole>>
  /\ link' = [link EXCEPT !["boot"] = "none"]

\* onCreatePreferences.
Open ==
  /\ step = "idle" /\ checked = "none" /\ checked' = Position(enable)
  /\ link' = [link EXCEPT !["screen"] = "none"]
  /\ UNCHANGED <<settings, mode, boot, dialog, setter, whole>>

\* The screen is left or turned: a warning goes with it, unanswered.
Close ==
  /\ step = "idle" /\ checked # "none" /\ checked' = "none" /\ dialog' = FALSE
  /\ UNCHANGED <<settings, mode, boot, link, setter, whole>>

\* onPreferenceChange.  The switch moves when it returns, whatever happens
\* to the warning.
Tap ==
  /\ step = "idle" /\ checked # "none" /\ (dialog => QuickTaps)
  /\ checked' = Position(checked = "off")
  /\ \/ /\ checked = "off" /\ ~hide /\ dialog' = TRUE
        /\ UNCHANGED <<settings, mode, setter, whole>>
     \/ (checked = "off" => hide) /\ SetMode(checked', "screen") /\ UNCHANGED dialog
  /\ UNCHANGED <<boot, link>>

\* The warning's check box is stored at once.
Tick ==
  /\ step = "idle" /\ dialog /\ hide' = ~hide
  /\ UNCHANGED <<enable, mode, boot, ui, link, setter, whole>>

Ok ==
  /\ step = "idle" /\ dialog /\ dialog' = FALSE /\ SetMode("on", "screen")
  /\ UNCHANGED <<boot, checked, link>>

\* Mutant: the switch stays where it is.
CancelStays ==
  /\ step = "idle" /\ dialog /\ dialog' = FALSE /\ hide' = FALSE
  /\ UNCHANGED <<enable, mode, boot, checked, link, setter, whole>>

Cancel ==
  /\ step = "idle" /\ dialog /\ dialog' = FALSE /\ hide' = FALSE
  /\ checked' = Position(checked = "off")
  /\ UNCHANGED <<enable, mode, boot, link, setter, whole>>

\* Mutant: SEMC's own colour mode is forgotten.
AfterTwo == [sspp |-> "color", color |-> "store", semc |-> "store"]

After == [sspp |-> "color", color |-> "semc", semc |-> "store"]

\* One of setMode's three calls.  The object looks for the HAL when it first
\* needs it; it does not look again when that one has died.
Apply ==
  /\ step \in Modes /\ (step = "color" \/ link[by] # "dead")
  /\ mode' = [mode EXCEPT ![step] = target] /\ step' = After[step]
  /\ link' = IF step = "color" THEN link ELSE [link EXCEPT ![by] = "live"]
  /\ UNCHANGED <<settings, boot, ui, target, by, whole>>

Store ==
  /\ step = "store" /\ step' = "idle"
  /\ enable' = (target = "on") /\ whole' = (link[by] = "live")
  /\ boot' = IF by = "boot" /\ boot = "setting" THEN "done" ELSE boot
  /\ UNCHANGED <<hide, mode, ui, link, target, by>>

HalDies ==
  /\ mode' = Forgotten /\ whole' = FALSE
  /\ link' = [o \in DOMAIN link |-> IF link[o] = "live" THEN "dead" ELSE link[o]]
  /\ boot' = IF boot = "setting" THEN "broken" ELSE boot
  /\ UNCHANGED <<settings, ui, setter>>

Gone ==
  /\ step' = "idle" /\ checked' = "none" /\ dialog' = FALSE /\ link' = NoLinks
  /\ UNCHANGED <<settings, target, by>>

\* The exception of a call to a HAL that has died ends the process.
Crash ==
  /\ step \in {"sspp", "semc"} /\ link[by] = "dead" /\ Gone
  /\ boot' = IF boot = "setting" THEN "broken" ELSE boot
  /\ UNCHANGED <<mode, whole>>

Killed ==
  /\ Gone /\ boot' = IF boot = "setting" THEN "broken" ELSE boot
  /\ UNCHANGED <<mode, whole>>

\* A power loss in the middle of Boot is Killed and then this.  Android keeps
\* its colour mode.
Reboot ==
  /\ boot # "setting" /\ Gone
  /\ boot' = "pending" /\ mode' = Forgotten /\ whole' = FALSE

User == Open \/ Close \/ Tap \/ Tick \/ Ok \/ Cancel
Continue == Apply \/ Store \/ Crash
Next == User \/ Boot \/ Continue \/ HalDies \/ Killed \/ Reboot

\* The main thread goes on with what it has begun, and handles its messages,
\* a broadcast among them, in the order they came: taps cannot keep it away.
Spec == Init /\ [][Next]_vars /\ WF_vars(Continue) /\ SF_vars(Boot)

\* Three modes and a setting are written one by one, from a screen or a
\* receiver.  Once one setMode has come to its end, and until the HAL or the
\* device restarts, all four agree, in spite of earlier ones that were cut
\* short.
AllAgree == whole => \A m \in Modes : mode[m] = Position(enable)

\* The switch shows the stored setting whenever it can be tapped: across
\* warnings that are cancelled or lost and processes that die half-way.
SwitchTells ==
  checked # "none" /\ step = "idle" /\ ~dialog => checked = Position(enable)

\* A boot with creator mode enabled applies it, and so repairs what was cut
\* short, unless the user turns it off first or the boot is disturbed.
BootApplies ==
  boot = "pending" /\ enable ~>
    \/ ~enable \/ boot = "broken"
    \/ boot = "done" /\ \A m \in Modes : mode[m] = "on"
==============================================================================
