------------------------------ MODULE TouchRate ------------------------------
(***************************************************************************)
(* The touch HAL's high polling rate (aidl/touch): a setting kept in the   *)
(* touch panel, on one binder thread.  A Samsung panel ("sec") has it in   *)
(* two modes, of which a low-rate one ("low") uses the first; an LXS panel *)
(* ("lxs") has one mode.  Nobody else sends the panel these commands.      *)
(***************************************************************************)

VARIABLES
  panel,        \* the panel: the build's, and ro.vendor.display.low_touch_rate
  stamina,      \* the panel's stamina_mode is not 0
  fast,         \* its rate_mode is greater than 0; touch_mode > 2 of an LXS
  touchOp,      \* what the client is asking for
  touchPc,      \* the thread's place
  failed,       \* the first of setEnabled's two commands failed
  touchAnswer   \* what the call that returned last was told

touchVars == <<panel, stamina, fast, touchOp, touchPc, failed, touchAnswer>>

\* A low-rate panel is taken to report a rate_mode: getEnabled would say
\* "off" for ever otherwise.  Stamina mode is off when a panel starts.
TouchInit ==
  /\ panel \in {"sec", "low", "lxs"}
  /\ stamina \in {FALSE, panel = "low"}
  /\ fast \in {TRUE, panel = "low"}
  /\ touchOp = "idle" /\ touchPc = "idle" /\ failed = FALSE /\ touchAnswer = "none"

TouchCall ==
  /\ touchPc = "idle" /\ touchOp' \in {"get", "on", "off"}
  /\ touchPc' = "begin" /\ failed' = FALSE
  /\ UNCHANGED <<panel, stamina, fast, touchAnswer>>

TouchReturn(a) ==
  /\ touchPc' = "idle" /\ touchOp' = "idle" /\ touchAnswer' = a
  /\ UNCHANGED <<panel, failed>>

\* Mutant: the stamina mode is read, but not looked at.
HighRateUnlessLow == fast

HighRate == fast /\ (panel = "lxs" \/ ~stamina)

\* getEnabled.  A stamina mode that cannot be read is an error; a rate that
\* cannot be read is "off".
TouchGet ==
  /\ touchPc = "begin" /\ touchOp = "get"
  /\ \/ TouchReturn(IF HighRate THEN "on" ELSE "off")
     \/ TouchReturn("off")
     \/ panel # "lxs" /\ TouchReturn("error")
  /\ UNCHANGED <<stamina, fast>>

\* setEnabled's only command, for a low-rate or an LXS panel.
TouchSetOne ==
  /\ touchPc = "begin" /\ touchOp \in {"on", "off"} /\ panel # "sec"
  /\ \/ /\ TouchReturn("ok")
        /\ IF panel = "low" THEN stamina' = (touchOp = "off") /\ UNCHANGED fast
                            ELSE fast' = (touchOp = "on") /\ UNCHANGED stamina
     \/ TouchReturn("error") /\ UNCHANGED <<stamina, fast>>

\* Its two commands for the others: the second is sent even if the first
\* failed.
TouchSetFirst ==
  /\ touchPc = "begin" /\ touchOp \in {"on", "off"} /\ panel = "sec"
  /\ touchPc' = "rate"
  /\ \/ stamina' = FALSE /\ failed' = FALSE
     \/ failed' = TRUE /\ UNCHANGED stamina
  /\ UNCHANGED <<panel, fast, touchOp, touchAnswer>>

TouchSetSecond ==
  /\ touchPc = "rate"
  /\ \/ TouchReturn(IF failed THEN "error" ELSE "ok") /\ fast' = (touchOp = "on")
     \/ TouchReturn("error") /\ UNCHANGED fast
  /\ UNCHANGED stamina

\* The service dies, which its client sees, and is started again.
TouchDies == touchPc # "idle" /\ TouchReturn("error") /\ UNCHANGED <<stamina, fast>>

TouchNext ==
  TouchCall \/ TouchGet \/ TouchSetOne \/ TouchSetFirst \/ TouchSetSecond \/ TouchDies

TouchSpec == TouchInit /\ [][TouchNext]_touchVars

TouchSwitch == INSTANCE Switch WITH
  Clients <- {"hal"}, MayDeny <- TRUE, on <- HighRate,
  op <- [c \in {"hal"} |-> touchOp], answer <- touchAnswer

\* Whatever command fails and wherever the service dies, the setting changes
\* only as a call asked, a call that succeeds has taken effect, and a get
\* never says "on" of a panel at the low rate.
TouchIsSwitch == TouchSwitch!Spec
==============================================================================
