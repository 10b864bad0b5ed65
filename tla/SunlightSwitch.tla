---------------------------- MODULE SunlightSwitch ----------------------------
(***************************************************************************)
(* LiveDisplay's sunlight enhancement (aidl/livedisplay), which switches   *)
(* the panel's high brightness mode: setEnabled reads hbm_mode, compares   *)
(* and writes it without a lock, on several binder threads.  Nobody else   *)
(* writes the node.                                                        *)
(***************************************************************************)

CONSTANTS Threads,     \* binder threads
          FlushFails   \* may the panel refuse what was written?

ASSUME FlushAssumption == FlushFails \in BOOLEAN

VARIABLES
  hbm,        \* hbm_mode is greater than 0
  sunOp,      \* what each thread is asked for
  sunPc,      \* its place
  sunAnswer   \* what the call that returned last was told

sunVars == <<hbm, sunOp, sunPc, sunAnswer>>

SunInit ==
  /\ hbm \in BOOLEAN /\ sunAnswer = "none"
  /\ sunOp = [t \in Threads |-> "idle"] /\ sunPc = [t \in Threads |-> "idle"]

SunCall(t) ==
  /\ sunPc[t] = "idle" /\ sunPc' = [sunPc EXCEPT ![t] = "read"]
  /\ \E o \in {"get", "on", "off"} : sunOp' = [sunOp EXCEPT ![t] = o]
  /\ UNCHANGED <<hbm, sunAnswer>>

SunReturn(t, a) ==
  /\ sunPc' = [sunPc EXCEPT ![t] = "idle"] /\ sunOp' = [sunOp EXCEPT ![t] = "idle"]
  /\ sunAnswer' = a

Brightness == IF hbm THEN "on" ELSE "off"

\* Mutant: setEnabled does not write when the value differs.
SunReadInverted(t) ==
  /\ sunPc[t] = "read" /\ UNCHANGED hbm
  /\ \/ SunReturn(t, "error")
     \/ sunOp[t] = "get" /\ SunReturn(t, Brightness)
     \/ sunOp[t] \notin {"get", Brightness} /\ SunReturn(t, "ok")
     \/ /\ sunOp[t] = Brightness
        /\ sunPc' = [sunPc EXCEPT ![t] = "write"] /\ UNCHANGED <<sunOp, sunAnswer>>

\* getEnabled, by itself or called by setEnabled, which is done when there
\* is nothing to change.
SunRead(t) ==
  /\ sunPc[t] = "read" /\ UNCHANGED hbm
  /\ \/ SunReturn(t, "error")
     \/ sunOp[t] = "get" /\ SunReturn(t, Brightness)
     \/ sunOp[t] = Brightness /\ SunReturn(t, "ok")
     \/ /\ sunOp[t] \notin {"get", Brightness}
        /\ sunPc' = [sunPc EXCEPT ![t] = "write"] /\ UNCHANGED <<sunOp, sunAnswer>>

\* The rest of setEnabled.  The stream is flushed when it is destroyed,
\* after its state was looked at: only a failure to open the node is seen.
SunWrite(t) ==
  /\ sunPc[t] = "write"
  /\ \/ SunReturn(t, "error") /\ UNCHANGED hbm
     \/ SunReturn(t, "ok") /\ hbm' = (sunOp[t] = "on")
     \/ FlushFails /\ SunReturn(t, "ok") /\ UNCHANGED hbm

SunNext == \E t \in Threads : SunCall(t) \/ SunRead(t) \/ SunWrite(t)

SunSpec == SunInit /\ [][SunNext]_sunVars

SunSwitch == INSTANCE Switch WITH
  Clients <- Threads, MayDeny <- FALSE, on <- hbm, op <- sunOp, answer <- sunAnswer

\* However the reads and writes of several threads interleave, the calls
\* behave as if made one after the other on one switch.
SunlightIsSwitch == SunSwitch!Spec
==============================================================================
