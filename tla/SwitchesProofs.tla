---------------------------- MODULE SwitchesProofs ----------------------------
(***************************************************************************)
(* The two services of Switches each implement a Switch: sunlight          *)
(* enhancement for any number of binder threads, if the panel takes what   *)
(* is written; the touch rate for every panel, whatever fails.             *)
(***************************************************************************)
EXTENDS Switches, TLAPS

------------------------------------------------------------------------------
(* Sunlight enhancement.                                                   *)

\* A thread that is about to write was asked to set.
SunInv ==
  /\ hbm \in BOOLEAN
  /\ sunOp \in [Threads -> {"idle", "get", "on", "off"}]
  /\ sunPc \in [Threads -> {"idle", "read", "write"}]
  /\ \A t \in Threads : /\ sunPc[t] = "idle" => sunOp[t] = "idle"
                        /\ sunPc[t] = "read" => sunOp[t] # "idle"
                        /\ sunPc[t] = "write" => sunOp[t] \in {"on", "off"}

LEMMA SunStart == Init => SunInv /\ SunSwitch!Init
  BY DEF Init, SunInit, SunInv, SunSwitch!Init

LEMMA SunKeeps ==
  ASSUME SunInv, NEW t \in Threads, SunCall(t) \/ SunRead(t) \/ SunWrite(t)
  PROVE  SunInv'
<1> USE DEF SunInv, SunReturn
<1>1. CASE SunCall(t)  BY <1>1 DEF SunCall
<1>2. CASE SunRead(t)  BY <1>2 DEF SunRead, Brightness
<1>3. CASE SunWrite(t) BY <1>3, FlushAssumption DEF SunWrite
<1>4. QED BY <1>1, <1>2, <1>3

LEMMA SunStep ==
  ASSUME ~FlushFails, SunInv, NEW t \in Threads, SunCall(t) \/ SunRead(t) \/ SunWrite(t)
  PROVE  SunSwitch!Call(t) \/ SunSwitch!Return(t) \/ UNCHANGED <<hbm, sunOp, sunAnswer>>
<1> USE DEF SunInv, SunReturn, SunSwitch!Return, SunSwitch!Get, SunSwitch!Set, SunSwitch!Fail
<1>1. CASE SunCall(t)  BY <1>1 DEF SunCall, SunSwitch!Call
<1>2. CASE SunRead(t)  BY <1>2 DEF SunRead, Brightness, SunSwitch!Position
<1>3. CASE SunWrite(t) BY <1>3 DEF SunWrite
<1>4. QED BY <1>1, <1>2, <1>3

\* Reads and writes of any number of threads add up to one switch
\* (SunlightIsSwitch): every step of the service is one of Switch, or none.
THEOREM Sunlight == ASSUME ~FlushFails PROVE Spec => SunlightIsSwitch
<1>1. SunInv /\ [Next]_<<sunVars, touchVars>> => SunInv'
  <2> SUFFICES ASSUME SunInv, [Next]_<<sunVars, touchVars>> PROVE SunInv'
    OBVIOUS
  <2>1. CASE SunNext BY <2>1, SunKeeps DEF SunNext
  <2>2. CASE UNCHANGED sunVars BY <2>2 DEF sunVars, SunInv
  <2>3. QED BY <2>1, <2>2 DEF Next
<1>2. SunInv /\ [Next]_<<sunVars, touchVars>>
        => [SunSwitch!Next]_<<hbm, sunOp, sunAnswer>>
  <2> SUFFICES ASSUME SunInv, [Next]_<<sunVars, touchVars>>
               PROVE  SunSwitch!Next \/ UNCHANGED <<hbm, sunOp, sunAnswer>>
    OBVIOUS
  <2>1. CASE SunNext BY <2>1, SunStep DEF SunNext, SunSwitch!Next
  <2>2. CASE UNCHANGED sunVars BY <2>2 DEF sunVars
  <2>3. QED BY <2>1, <2>2 DEF Next
<1>3. QED BY SunStart, <1>1, <1>2, PTL DEF Spec, SunlightIsSwitch, SunSwitch!Spec

------------------------------------------------------------------------------
(* The touch rate.                                                         *)

\* Each panel's one mode that is not used keeps the value that does no harm.
TouchInv ==
  /\ panel \in {"sec", "low", "lxs"} /\ stamina \in BOOLEAN /\ fast \in BOOLEAN
  /\ panel = "sec" => ~stamina
  /\ panel = "low" => fast
  /\ touchOp \in {"idle", "get", "on", "off"} /\ touchPc \in {"idle", "begin", "rate"}
  /\ touchPc = "idle" => touchOp = "idle"
  /\ touchPc = "begin" => touchOp # "idle"
  /\ touchPc = "rate" => touchOp \in {"on", "off"} /\ panel = "sec"

LEMMA TouchStart == Init => TouchInv /\ TouchSwitch!Init
  BY DEF Init, TouchInit, TouchInv, TouchSwitch!Init, HighRate

LEMMA TouchKeeps == ASSUME TouchInv, TouchNext PROVE TouchInv'
<1> USE DEF TouchInv, TouchReturn
<1>1. CASE TouchCall      BY <1>1 DEF TouchCall
<1>2. CASE TouchGet       BY <1>2 DEF TouchGet
<1>3. CASE TouchSetOne
  <2>1. stamina' \in BOOLEAN /\ fast' \in BOOLEAN BY <1>3 DEF TouchSetOne
  <2>2. panel' # "sec" /\ (panel' = "low" => fast') BY <1>3 DEF TouchSetOne
  <2>3. QED BY <1>3, <2>1, <2>2 DEF TouchSetOne
<1>4. CASE TouchSetFirst
  <2>1. CASE stamina' = FALSE BY <1>4, <2>1 DEF TouchSetFirst
  <2>2. CASE UNCHANGED stamina BY <1>4, <2>2 DEF TouchSetFirst
  <2>3. QED BY <1>4, <2>1, <2>2 DEF TouchSetFirst
<1>5. CASE TouchSetSecond BY <1>5 DEF TouchSetSecond
<1>6. CASE TouchDies      BY <1>6 DEF TouchDies
<1>7. QED BY <1>1, <1>2, <1>3, <1>4, <1>5, <1>6 DEF TouchNext

touchOps == [c \in {"hal"} |-> touchOp]

LEMMA TouchStep ==
  ASSUME TouchInv, TouchNext
  PROVE  TouchSwitch!Next \/ UNCHANGED <<HighRate, touchOps, touchAnswer>>
<1>1. SUFFICES TouchSwitch!Call("hal") \/ TouchSwitch!Return("hal")
               \/ UNCHANGED <<HighRate, touchOps, touchAnswer>>
  BY DEF TouchSwitch!Next
<1> USE DEF TouchInv, TouchReturn, HighRate, touchOps, TouchSwitch!Return, TouchSwitch!Get,
            TouchSwitch!Set, TouchSwitch!Fail, TouchSwitch!Position
<1>2. CASE TouchCall      BY <1>2 DEF TouchCall, TouchSwitch!Call
<1>3. CASE TouchGet       BY <1>3 DEF TouchGet
<1>4. CASE TouchSetOne
  <2>1. CASE TouchReturn("error") /\ UNCHANGED <<stamina, fast>>
    BY <1>4, <2>1 DEF TouchSetOne
  <2>2. CASE TouchReturn("ok") /\ panel = "low" /\ stamina' = (touchOp = "off") /\ UNCHANGED fast
    <3>1. HighRate' = (touchOp = "on") BY <1>4, <2>2 DEF TouchSetOne
    <3>2. QED BY <1>4, <2>2, <3>1 DEF TouchSetOne
  <2>3. CASE TouchReturn("ok") /\ panel = "lxs" /\ fast' = (touchOp = "on") /\ UNCHANGED stamina
    <3>1. HighRate' = (touchOp = "on") BY <1>4, <2>3 DEF TouchSetOne
    <3>2. QED BY <1>4, <2>3, <3>1 DEF TouchSetOne
  <2>4. QED BY <1>4, <2>1, <2>2, <2>3 DEF TouchSetOne
<1>5. CASE TouchSetFirst  BY <1>5 DEF TouchSetFirst
<1>6. CASE TouchSetSecond BY <1>6 DEF TouchSetSecond
<1>7. CASE TouchDies      BY <1>7 DEF TouchDies
<1>8. QED BY <1>2, <1>3, <1>4, <1>5, <1>6, <1>7 DEF TouchNext

\* The panel's two modes and up to two commands add up to one switch
\* (TouchIsSwitch), whichever of them fails and wherever the service dies.
THEOREM Touch == Spec => TouchIsSwitch
<1>1. TouchInv /\ [Next]_<<sunVars, touchVars>> => TouchInv'
  <2> SUFFICES ASSUME TouchInv, [Next]_<<sunVars, touchVars>> PROVE TouchInv'
    OBVIOUS
  <2>1. CASE TouchNext BY <2>1, TouchKeeps
  <2>2. CASE UNCHANGED touchVars BY <2>2 DEF touchVars, TouchInv
  <2>3. QED BY <2>1, <2>2 DEF Next
<1>2. TouchInv /\ [Next]_<<sunVars, touchVars>>
        => [TouchSwitch!Next]_<<HighRate, touchOps, touchAnswer>>
  <2> SUFFICES ASSUME TouchInv, [Next]_<<sunVars, touchVars>>
               PROVE  TouchSwitch!Next \/ UNCHANGED <<HighRate, touchOps, touchAnswer>>
    OBVIOUS
  <2>1. CASE TouchNext BY <2>1, TouchStep
  <2>2. CASE UNCHANGED touchVars BY <2>2 DEF touchVars, HighRate, touchOps
  <2>3. QED BY <2>1, <2>2 DEF Next
<1>3. QED BY TouchStart, <1>1, <1>2, PTL DEF Spec, TouchIsSwitch, TouchSwitch!Spec, touchOps
==============================================================================
