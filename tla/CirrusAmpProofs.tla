--------------------------- MODULE CirrusAmpProofs ---------------------------
(***************************************************************************)
(* Theorems about CirrusAmp, for any set of streams and failure detectors, *)
(* either kind of device, either build and any retry bound.  Streams may   *)
(* come at any time, also before the calibration thread runs.              *)
(***************************************************************************)
EXTENDS CirrusAmp, FiniteSetTheorems, TLAPS

Past == {"en_wake", "en_play", "dis_idle"}

------------------------------------------------------------------------------
(* Types.                                                                  *)

LEMMA LeftIsThere == Stereo => "L" \in Amps
  BY DEF Amps

\* A mixer access keeps the types of the amplifiers' controls.
LEMMA WakeTypes ==
  ASSUME TypeOK, NEW on \in BOOLEAN, WakeDone(on) \/ WakeFails(on)
  PROVE  wake' \subseteq Amps
  BY LeftIsThere DEF TypeOK, WakeDone, WakeFails

DspTypes ==
  /\ fw \in [Amps -> {"none", "Calibration", "Protection"}]
  /\ written \in [Amps -> {"none", "partial", "zero", "stored", "measured"}]
  /\ dspErr \subseteq Amps

LEMMA DownloadTypes ==
  ASSUME TypeOK, NEW a, NEW f \in {"none", "Calibration", "Protection"},
         Booted(a, f) \/ DownloadFails(a, f)
  PROVE  DspTypes'
<1>1. ASSUME NEW g \in {"none", "Calibration", "Protection"}, Booted(a, g)
      PROVE  DspTypes'
  BY <1>1 DEF TypeOK, Booted, DspTypes
<1>2. CASE UNCHANGED dsp
  BY <1>2 DEF TypeOK, dsp, DspTypes
<1>3. QED BY <1>1, <1>2 DEF DownloadFails

LEMMA FirstTry == 0 \in 0 .. MaxTries - 1
  BY BuildAssumption

\* A process that starts is well typed, on amplifiers that are.
LEMMA RebornTypes == ASSUME TypeOK, Reborn, UNCHANGED hw PROVE TypeOK'
  BY FirstTry DEF TypeOK, Reborn, hw, CalPlaces

LEMMA CalTypes == ASSUME TypeOK, CalThread PROVE TypeOK'
<1> USE FirstTry
    DEF CalFrame, CalFwFrame, Goto, FailTo, PlaySilence, StartLoading, FirstAmp,
        session, locks, thread, detector, dsp, hw, CalPlaces
<1>1. CASE CalBegin        BY <1>1 DEF TypeOK, CalBegin
<1>2. CASE CalFwMono
  <2>1. DspTypes' BY <1>2, DownloadTypes DEF CalFwMono
  <2>2. QED BY <1>2, <2>1 DEF TypeOK, DspTypes, CalFwMono
<1>3. CASE CalFwLeft
  <2>1. DspTypes' BY <1>3, DownloadTypes DEF CalFwLeft
  <2>2. QED BY <1>3, <2>1 DEF TypeOK, DspTypes, CalFwLeft
<1>4. CASE CalFwRight
  <2>1. DspTypes' BY <1>4, DownloadTypes DEF CalFwRight
  <2>2. isStereo' \in BOOLEAN BY <1>4 DEF TypeOK, CalFwRight
  <2>3. pcC' \in CalPlaces /\ cret' \in {"ok", "EINVAL", "EAGAIN", "EIO"} /\ UNCHANGED <<back, amp, tries>>
    BY <1>4 DEF TypeOK, CalFwRight
  <2>4. QED BY <1>4, <2>1, <2>2, <2>3 DEF TypeOK, DspTypes, CalFwRight
<1>5. CASE CalWake
  <2>1. wake' \subseteq Amps BY <1>5, WakeTypes DEF CalWake
  <2>2. QED BY <1>5, <2>1 DEF TypeOK, CalWake, WakeDone, WakeFails
<1>6. CASE CalAmbient      BY <1>6 DEF TypeOK, CalAmbient
<1>7. CASE CalRead         BY <1>7 DEF TypeOK, CalRead
<1>8. CASE CalRewake
  <2>1. wake' \subseteq Amps BY <1>8, WakeTypes DEF CalRewake
  <2>2. calOk' \in BOOLEAN BY <1>8 DEF TypeOK, CalRewake
  <2>3. /\ pcC' \in CalPlaces /\ cret' \in {"ok", "EINVAL", "EAGAIN", "EIO"} /\ UNCHANGED back
        /\ amp' \in {"L", "R", "M"} /\ tries' \in 0 .. MaxTries - 1
    BY <1>8 DEF TypeOK, CalRewake, WakeDone, WakeFails
  <2>4. QED BY <1>8, <2>1, <2>2, <2>3 DEF TypeOK, CalRewake
<1>9. CASE SilenceCheck    BY <1>9 DEF TypeOK, SilenceCheck
<1>10. CASE SilenceEnable  BY <1>10 DEF TypeOK, SilenceEnable
<1>11. CASE SilenceDisable BY <1>11 DEF TypeOK, SilenceDisable
<1>12. CASE SilenceEnd     BY <1>12 DEF TypeOK, SilenceEnd
<1>13. CASE LoadProtection
  <2>1. DspTypes' BY <1>13, DownloadTypes DEF LoadProtection
  <2>2. QED BY BuildAssumption, <1>13, <2>1 DEF TypeOK, DspTypes, LoadProtection
<1>14. CASE Verdict        BY <1>14 DEF TypeOK, Verdict
<1>15. CASE ApplyWake
  <2>1. wake' \subseteq Amps BY <1>15, WakeTypes DEF ApplyWake
  <2>2. QED BY <1>15, <2>1 DEF TypeOK, ApplyWake, WakeDone, WakeFails
<1>16. CASE Apply          BY <1>16 DEF TypeOK, Apply
<1>17. CASE Rest
  <2>1. wake' \subseteq Amps BY <1>17, WakeTypes DEF Rest
  <2>2. QED BY <1>17, <2>1 DEF TypeOK, Rest, WakeDone, WakeFails
<1>18. CASE CalEnd         BY <1>18 DEF TypeOK, CalEnd
<1>19. QED
  BY <1>1, <1>2, <1>3, <1>4, <1>5, <1>6, <1>7, <1>8, <1>9, <1>10, <1>11, <1>12,
     <1>13, <1>14, <1>15, <1>16, <1>17, <1>18 DEF CalThread

LEMMA StreamTypes == ASSUME TypeOK, NEW s \in Streams, Stream(s) PROVE TypeOK'
<1> USE FirstTry
    DEF StreamFrame, At, Return, session, locks, thread, detector, dsp, hw, TypeOK
<1>1. CASE EnableCall(s)   BY <1>1 DEF EnableCall
<1>2. CASE DisableCall(s)  BY <1>2 DEF DisableCall
<1>3. CASE EnableLock(s)   BY <1>3 DEF EnableLock
<1>4. CASE EnableCheck(s)  BY <1>4 DEF EnableCheck, NoteEarly
<1>5. CASE EnableWake(s)
  <2>1. wake' \subseteq Amps BY <1>5, WakeTypes DEF EnableWake
  <2>2. QED BY <1>5, <2>1 DEF EnableWake
<1>6. CASE EnablePlay(s)   BY <1>6 DEF EnablePlay, SpawnDetector
<1>7. CASE DisableLock(s)  BY <1>7 DEF DisableLock
<1>8. CASE DisableCheck(s) BY <1>8 DEF DisableCheck
<1>9. CASE DisableIdle(s)  BY <1>9 DEF DisableIdle
<1>10. QED
  BY <1>1, <1>2, <1>3, <1>4, <1>5, <1>6, <1>7, <1>8, <1>9 DEF Stream, InCall

LEMMA DetectorTypes == ASSUME TypeOK, NEW d \in Detectors, Detector(d) PROVE TypeOK'
<1> USE FirstTry
    DEF DetFrame, DetAt, DetRet, CheckFailed, session, thread, dsp, hw, TypeOK
<1>1. CASE DetectLock(d)      BY <1>1 DEF DetectLock
<1>2. CASE DetectDestroyed(d) BY <1>2, RebornTypes DEF DetectDestroyed
<1>3. CASE DetectWake(d)
  <2>1. wake' \subseteq Amps BY <1>3, WakeTypes DEF DetectWake
  <2>2. QED BY <1>3, <2>1 DEF DetectWake, WakeDone, WakeFails
<1>4. CASE DetectRead(d)      BY <1>4 DEF DetectRead
<1>5. CASE DetectOff(d)
  <2>1. wake' \subseteq Amps BY <1>5, WakeTypes DEF DetectOff
  <2>2. QED BY <1>5, <2>1 DEF DetectOff, WakeDone, WakeFails
<1>6. CASE DetectReset(d)     BY <1>6 DEF DetectReset
<1>7. CASE DetectAbort(d)     BY <1>7, RebornTypes DEF DetectAbort
<1>8. QED
  BY <1>1, <1>2, <1>3, <1>4, <1>5, <1>6, <1>7 DEF Detector

LEMMA MainTypes == ASSUME TypeOK, Main PROVE TypeOK'
<1> USE BuildAssumption DEF session, locks, thread, detector, hw, TypeOK, CalPlaces
<1>1. CASE CalibFails   BY <1>1 DEF CalibFails
<1>2. CASE AmpCalib
  <2>1. /\ isStereo' \in BOOLEAN /\ calOk' \in BOOLEAN /\ calValid' \subseteq Amps
        /\ cal' \in [Amps -> {"zero", "stored", "measured"}]
    <3>1. CASE CalibFromTA
      <4>1. isStereo' \in BOOLEAN /\ calOk' \in BOOLEAN
        BY <3>1, BuildAssumption DEF CalibFromTA
      <4>2. cal' \in [Amps -> {"zero", "stored", "measured"}] /\ calValid' \subseteq Amps
        BY <3>1 DEF CalibFromTA
      <4>3. QED BY <4>1, <4>2
    <3>2. CASE CalibFromFile
      <4>1. isStereo' \in BOOLEAN /\ calOk' \in BOOLEAN
        BY <3>2, BuildAssumption DEF CalibFromFile
      <4>2. cal' \in [Amps -> {"zero", "stored", "measured"}] /\ calValid' \subseteq Amps
        BY <3>2 DEF CalibFromFile
      <4>3. QED BY <4>1, <4>2
    <3>3. QED BY <1>2, <3>1, <3>2 DEF AmpCalib
  <2>2. QED BY <1>2, <2>1 DEF AmpCalib
<1>3. CASE Close        BY <1>3 DEF Close
<1>4. CASE JoinDetector BY <1>4 DEF JoinDetector
<1>5. CASE JoinCal      BY <1>5 DEF JoinCal
<1>6. CASE Restart      BY <1>6, RebornTypes DEF Restart
<1>7. QED BY <1>1, <1>2, <1>3, <1>4, <1>5, <1>6 DEF Main

\* Every variable keeps its type, on every device and in every build.
THEOREM TypeCorrect == Spec => []TypeOK
<1>1. ASSUME Init PROVE TypeOK
  <2>1. tries \in 0 .. MaxTries - 1 BY <1>1, FirstTry DEF Init
  <2>2. QED BY <1>1, <2>1 DEF Init, TypeOK, CalPlaces
<1>2. TypeOK /\ [Next]_vars => TypeOK'
  <2> SUFFICES ASSUME TypeOK, [Next]_vars PROVE TypeOK'
    OBVIOUS
  <2>1. CASE Main      BY <2>1, MainTypes
  <2>2. CASE CalThread BY <2>2, CalTypes
  <2>3. ASSUME NEW s \in Streams, Stream(s) PROVE TypeOK'
    BY <2>3, StreamTypes
  <2>4. ASSUME NEW d \in Detectors, Detector(d) PROVE TypeOK'
    BY <2>4, DetectorTypes
  <2>5. ASSUME NEW a \in Amps, DspFault(a) PROVE TypeOK'
    BY <2>5 DEF TypeOK, DspFault, session, locks, thread, detector, CalPlaces
  <2>6. CASE UNCHANGED vars
    BY <2>6 DEF vars, session, locks, thread, detector, hw, TypeOK, CalPlaces
  <2>7. QED BY <2>1, <2>2, <2>3, <2>4, <2>5, <2>6 DEF Next
<1>3. QED BY <1>1, <1>2, PTL DEF Spec

------------------------------------------------------------------------------
(* The end of calibration, under adev->lock.                               *)

\* The calibration thread is between its first and its last store to
\* handle.state.
Working == CalPlaces \ {"none", "begin", "done"}

\* In between, it leaves the state, the streams and the detectors alone.
LEMMA CalWorks ==
  ASSUME TypeOK, CalThread
  PROVE  \/ CalBegin \/ CalEnd
         \/ /\ pcC \in Working /\ pcC' \in Working
            /\ UNCHANGED <<st, mpc, pc, dpc, adevLock, early>>
            /\ \/ mutex' \in {None, mutex}
               \/ mutex = None /\ mutex' = Cal /\ pcC' = "sil_unlock"
            /\ pcC = "sil_unlock" => mutex' = None
<1> USE DEF CalFrame, CalFwFrame, Goto, FailTo, PlaySilence, StartLoading,
            locks, thread, detector, Working, CalPlaces
<1>1. CASE CalFwMono \/ CalFwLeft \/ CalFwRight
  BY <1>1 DEF CalFwMono, CalFwLeft, CalFwRight
<1>2. CASE CalWake \/ CalAmbient \/ CalRead \/ CalRewake
  BY <1>2 DEF CalWake, CalAmbient, CalRead, CalRewake
<1>3. CASE SilenceCheck \/ SilenceEnable \/ SilenceDisable \/ SilenceEnd
  BY <1>3 DEF SilenceCheck, SilenceEnable, SilenceDisable, SilenceEnd, TypeOK
<1>4. CASE LoadProtection \/ Verdict
  BY <1>4 DEF LoadProtection, Verdict
<1>5. CASE ApplyWake \/ Apply \/ Rest
  BY <1>5 DEF ApplyWake, Apply, Rest
<1>6. QED BY <1>1, <1>2, <1>3, <1>4, <1>5 DEF CalThread

\* A step of a thread of the audio HAL or of a failure detector that does not
\* end the process.
LEMMA OthersApart ==
  /\ \A s \in Streams : Stream(s) =>
       /\ UNCHANGED <<pcC, back, session, mpc>> /\ (early => early')
       /\ wake' = wake \/ pc[s] \in Past
  /\ \A d \in Detectors : Detector(d) =>
       \/ Reborn
       \/ UNCHANGED <<pcC, back, session, early, mpc>> /\ dpc[d] # "none"
<1>1. ASSUME NEW s \in Streams, Stream(s)
      PROVE  /\ UNCHANGED <<pcC, back, session, mpc>> /\ (early => early')
             /\ wake' = wake \/ pc[s] \in Past
  <2>1. UNCHANGED <<pcC, back, session, mpc>> /\ (wake' = wake \/ pc[s] \in Past)
    BY <1>1 DEF Stream, InCall, EnableCall, DisableCall, EnableLock, EnableCheck, EnableWake,
       EnablePlay, DisableLock, DisableCheck, DisableIdle, StreamFrame, hw, thread, Past
  <2>2. NoteEarly \/ early' = early
    BY <1>1 DEF Stream, InCall, EnableCall, DisableCall, EnableLock, EnableCheck, EnableWake,
       EnablePlay, DisableLock, DisableCheck, DisableIdle
  <2>3. NoteEarly => (early => early') BY DEF NoteEarly
  <2>4. early' = early => (early => early') OBVIOUS
  <2>5. QED BY <2>1, <2>2, <2>3, <2>4
<1>2. ASSUME NEW d \in Detectors, Detector(d)
      PROVE  Reborn \/ (UNCHANGED <<pcC, back, session, early, mpc>> /\ dpc[d] # "none")
  BY <1>2 DEF Detector, DetectLock, DetectDestroyed, DetectWake, DetectRead, DetectOff,
     DetectReset, DetectAbort, DetFrame, hw, thread
<1>3. QED BY <1>1, <1>2

\* adev->lock belongs to the stream that is in a call, and so no stream is in
\* one when calibration ends: after an error none is past its check.  Calls
\* are made between open and close.
Settled ==
  /\ mpc = "open" => pcC = "none" /\ st = "INIT"
  /\ mpc # "up" => \A s \in Streams : pc[s] = "off"
  /\ \A s \in Streams : (pc[s] \notin {"off", "on"}) <=> adevLock = s
  /\ st = "CALIBRATION_ERROR" =>
       /\ pcC = "done"
       /\ \A s \in Streams : pc[s] \notin Past

LEMMA RebornSettled == ASSUME Reborn PROVE Settled'
  BY ThreadAssumption DEF Reborn, Settled, Past

LEMMA SettledStep == ASSUME TypeOK, Settled, [Next]_vars PROVE Settled'
<1> USE ThreadAssumption DEF Settled, Past
<1>1. CASE CalThread
  <2>1. CASE CalBegin
    BY <2>1 DEF CalBegin, CalFrame, Goto, StartLoading, locks
  <2>2. CASE CalEnd
    BY <2>2 DEF CalEnd, CalFrame, Goto, locks
  <2>3. CASE /\ pcC \in Working /\ pcC' \in Working
             /\ UNCHANGED <<st, mpc, pc, adevLock>>
    BY <2>3 DEF Working
  <2>4. QED BY <1>1, <2>1, <2>2, <2>3, CalWorks
<1>2. ASSUME NEW s \in Streams, Stream(s) PROVE Settled'
  <2> USE DEF StreamFrame, At, Return, thread, locks, TypeOK
  <2>1. CASE EnableCall(s)   BY <2>1 DEF EnableCall
  <2>2. CASE DisableCall(s)  BY <2>2 DEF DisableCall
  <2>3. CASE EnableLock(s)   BY <2>3 DEF EnableLock
  <2>4. CASE EnableCheck(s)  BY <2>4 DEF EnableCheck, NoteEarly
  <2>5. CASE EnableWake(s)   BY <2>5 DEF EnableWake
  <2>6. CASE EnablePlay(s)   BY <2>6 DEF EnablePlay
  <2>7. CASE DisableLock(s)  BY <2>7 DEF DisableLock
  <2>8. CASE DisableCheck(s) BY <2>8 DEF DisableCheck
  <2>9. CASE DisableIdle(s)  BY <2>9 DEF DisableIdle
  <2>10. QED
    BY <1>2, <2>1, <2>2, <2>3, <2>4, <2>5, <2>6, <2>7, <2>8, <2>9 DEF Stream, InCall
<1>3. ASSUME NEW d \in Detectors, Detector(d) PROVE Settled'
  <2>1. CASE DetectDestroyed(d) \/ DetectAbort(d)
    BY <2>1, RebornSettled DEF DetectDestroyed, DetectAbort
  <2>2. CASE DetectLock(d) \/ DetectWake(d) \/ DetectRead(d) \/ DetectOff(d) \/ DetectReset(d)
    BY <2>2 DEF DetectLock, DetectWake, DetectRead, DetectOff, DetectReset, DetFrame
  <2>3. QED BY <1>3, <2>1, <2>2 DEF Detector
<1>4. CASE Main
  <2> USE DEF locks
  <2>1. CASE CalibFails \/ AmpCalib \/ Close \/ JoinDetector \/ JoinCal
    BY <2>1 DEF CalibFails, AmpCalib, Close, JoinDetector, JoinCal
  <2>2. CASE Restart BY <2>2, RebornSettled DEF Restart
  <2>3. QED BY <1>4, <2>1, <2>2 DEF Main
<1>5. ASSUME NEW a \in Amps, DspFault(a) PROVE Settled'
  BY <1>5 DEF DspFault, locks
<1>6. CASE UNCHANGED vars
  BY <1>6 DEF vars, locks
<1>7. QED BY <1>1, <1>2, <1>3, <1>4, <1>5, <1>6 DEF Next

LEMMA SettledAlways == Spec => [](TypeOK /\ Settled)
<1>1. Init => Settled
  BY ThreadAssumption DEF Init, Settled, Past
<1>2. QED BY <1>1, SettledStep, TypeCorrect, PTL DEF Spec

\* No step of any thread leaves CALIBRATION_ERROR, but for a new process.
THEOREM ErrorStays == Spec => ErrorIsFinal
<1>1. ASSUME TypeOK, Settled, [Next]_vars, st = "CALIBRATION_ERROR"
      PROVE  st' = "CALIBRATION_ERROR" \/ mpc' = "open"
  <2>1. CASE CalThread
    <3>1. ~CalBegin /\ ~CalEnd
      BY <1>1 DEF CalBegin, CalEnd, Settled
    <3>2. QED BY <1>1, <2>1, <3>1, CalWorks
  <2>2. ASSUME NEW s \in Streams, Stream(s) PROVE st' = st
    BY <1>1, <2>2 DEF Stream, InCall, EnableCall, DisableCall, EnableLock, EnableCheck,
       EnableWake, EnablePlay, DisableLock, DisableCheck, DisableIdle, Settled, Past
  <2>3. ASSUME NEW d \in Detectors, Detector(d) PROVE st' = st \/ mpc' = "open"
    BY <2>3 DEF Detector, DetectLock, DetectDestroyed, DetectWake, DetectRead, DetectOff,
       DetectReset, DetectAbort, DetFrame, Reborn
  <2>4. CASE Main
    BY <1>1, <2>4 DEF Main, CalibFails, AmpCalib, Close, JoinDetector, JoinCal, Restart, Reborn
  <2>5. ASSUME NEW a \in Amps, DspFault(a) PROVE st' = st
    BY <2>5 DEF DspFault
  <2>6. QED BY <1>1, <2>1, <2>2, <2>3, <2>4, <2>5 DEF Next, vars
<1>2. QED BY <1>1, SettledAlways, PTL DEF Spec, ErrorIsFinal

------------------------------------------------------------------------------
(* Before and after calibration, in a process no stream came early to.     *)

\* What holds of state, streams and detectors as calibration proceeds.
Quiet ==
  ~CalOver /\ ~early =>
    /\ st = IF pcC \in {"none", "begin"} THEN "INIT" ELSE "CALIBRATING"
    /\ \A s \in Streams : pc[s] \notin Past
    /\ \A d \in Detectors : dpc[d] = "none"

LEMMA RebornQuiet == ASSUME Reborn PROVE Quiet'
  BY DEF Reborn, Quiet, CalOver, Past

LEMMA QuietStep ==
  ASSUME TypeOK, Settled, Quiet, [Next]_vars
  PROVE  Quiet'
<1>1. CASE CalThread
  <2>1. CASE CalBegin
    BY <2>1 DEF CalBegin, CalFrame, Goto, StartLoading, detector, Quiet, CalOver, Past
  <2>2. CASE CalEnd
    BY <2>2 DEF CalEnd, CalFrame, Goto, detector, Quiet, CalOver, Past, TypeOK
  <2>3. CASE /\ pcC \in Working /\ pcC' \in Working
             /\ UNCHANGED <<st, mpc, pc, dpc, early>>
    BY <2>3 DEF Quiet, CalOver, Working
  <2>4. QED BY <1>1, <2>1, <2>2, <2>3, CalWorks
<1>2. ASSUME NEW s \in Streams, Stream(s) PROVE Quiet'
  <2> USE DEF StreamFrame, At, Return, thread, detector, Quiet, CalOver, Past, TypeOK
  <2>1. CASE EnableCall(s)   BY <2>1 DEF EnableCall
  <2>2. CASE DisableCall(s)  BY <2>2 DEF DisableCall
  <2>3. CASE EnableLock(s)   BY <2>3 DEF EnableLock
  <2>4. CASE EnableCheck(s)
    <3>1. CASE st \in {"CALIBRATING", "CALIBRATION_ERROR"}
      BY <2>4, <3>1 DEF EnableCheck, NoteEarly
    <3>2. CASE st \notin {"CALIBRATING", "CALIBRATION_ERROR"}
      <4>1. (CalOver \/ early \/ (st = "INIT" /\ pcC = "begin"))'
        BY <2>4, <3>2 DEF EnableCheck, NoteEarly, Settled
      <4>2. CalOver' \/ early'
        BY <2>4, <4>1 DEF EnableCheck, NoteEarly
      <4>3. QED BY <4>2
    <3>3. QED BY <3>1, <3>2
  <2>5. CASE EnableWake(s)   BY <2>5 DEF EnableWake
  <2>6. CASE EnablePlay(s)   BY <2>6 DEF EnablePlay, SpawnDetector
  <2>7. CASE DisableLock(s)  BY <2>7 DEF DisableLock
  <2>8. CASE DisableCheck(s) BY <2>8 DEF DisableCheck
  <2>9. CASE DisableIdle(s)  BY <2>9 DEF DisableIdle
  <2>10. QED
    BY <1>2, <2>1, <2>2, <2>3, <2>4, <2>5, <2>6, <2>7, <2>8, <2>9 DEF Stream, InCall
<1>3. ASSUME NEW d \in Detectors, Detector(d) PROVE Quiet'
  <2>1. CASE DetectDestroyed(d) \/ DetectAbort(d)
    BY <2>1, RebornQuiet DEF DetectDestroyed, DetectAbort
  <2>2. CASE DetectLock(d) \/ DetectWake(d) \/ DetectRead(d) \/ DetectOff(d) \/ DetectReset(d)
    <3>1. UNCHANGED <<st, mpc, pc, pcC, early>> /\ dpc[d] # "none"
      BY <2>2 DEF DetectLock, DetectWake, DetectRead, DetectOff, DetectReset, DetFrame
    <3>2. QED BY <3>1 DEF Quiet, CalOver
  <2>3. QED BY <1>3, <2>1, <2>2 DEF Detector
<1>4. CASE Main
  <2> USE DEF thread, detector, Quiet, CalOver
  <2>1. CASE CalibFails   BY <2>1 DEF CalibFails
  <2>2. CASE AmpCalib     BY <2>2 DEF AmpCalib, Settled
  <2>3. CASE Close        BY <2>3 DEF Close
  <2>4. CASE JoinDetector BY <2>4 DEF JoinDetector
  <2>5. CASE JoinCal      BY <2>5 DEF JoinCal
  <2>6. CASE Restart      BY <2>6, RebornQuiet DEF Restart
  <2>7. QED BY <1>4, <2>1, <2>2, <2>3, <2>4, <2>5, <2>6 DEF Main
<1>5. ASSUME NEW a \in Amps, DspFault(a) PROVE Quiet'
  BY <1>5 DEF DspFault, thread, detector, Quiet, CalOver
<1>6. CASE UNCHANGED vars
  BY <1>6 DEF vars, thread, detector, Quiet, CalOver
<1>7. QED BY <1>1, <1>2, <1>3, <1>4, <1>5, <1>6 DEF Next

\* The calibration thread is quiet, in every execution.
LEMMA QuietAlways == Spec => [](TypeOK /\ Settled /\ Quiet)
<1>1. Init => Quiet
  BY DEF Init, Quiet, CalOver, Past
<1>2. QED BY <1>1, QuietStep, SettledAlways, PTL DEF Spec

\* While calibration is pending nobody but the calibration thread drives
\* the amplifiers, unless a stream passed its check before CALIBRATING was
\* stored: in whatever order other calls come, that is the only way in.
THEOREM QuietCalibration == Spec => []QuietUnlessEarly
<1>1. TypeOK /\ Quiet => QuietUnlessEarly
  BY DEF Quiet, QuietUnlessEarly, QuietHAL, Past
<1>2. QED BY <1>1, QuietAlways, PTL

------------------------------------------------------------------------------
(* fb_prot_mutex.                                                          *)

\* Who owns fb_prot_mutex is between its lock and its unlock.  The converse
\* fails while calibration is pending: the mutex may be free although a
\* stream is inside.
Owner ==
  /\ \A s \in Streams : mutex = s => StreamHolds(s)
  /\ \A d \in Detectors : mutex = d => DetectorHolds(d)
  /\ mutex = Cal => pcC = "sil_unlock"
  /\ mutex = Destroyed => mpc = "closed"
  /\ mpc = "closed" => pcC \in {"none", "done"}

Inside ==
  CalOver /\ ~early =>
    /\ \A s \in Streams : StreamHolds(s) => mutex = s
    /\ \A d \in Detectors : DetectorHolds(d) => mutex = d

LEMMA RebornOwner == ASSUME Reborn PROVE Owner' /\ Inside'
  BY ThreadAssumption DEF Reborn, Owner, Inside, CalOver, StreamHolds, DetectorHolds

\* The converse holds again when calibration is over if nobody was let in
\* before.
LEMMA OwnerStep ==
  ASSUME TypeOK, Settled, Owner, [Next]_vars
  PROVE  Owner' /\ (Quiet /\ Inside => Inside')
<1> USE ThreadAssumption DEF Owner, Inside, Settled, CalOver, StreamHolds, DetectorHolds
<1> DEFINE Goal == Owner' /\ (Quiet /\ Inside => Inside')
<1>1. CASE CalThread
  <2>1. CASE CalBegin
    BY <2>1 DEF CalBegin, CalFrame, Goto, StartLoading, detector, locks
  <2>2. CASE CalEnd
    BY <2>2 DEF CalEnd, CalFrame, Goto, detector, locks, Quiet, TypeOK
  <2>3. CASE /\ pcC \in Working /\ pcC' \in Working
             /\ UNCHANGED <<st, mpc, pc, dpc, adevLock, early>>
             /\ \/ mutex' \in {None, mutex}
                \/ mutex = None /\ mutex' = Cal /\ pcC' = "sil_unlock"
             /\ pcC = "sil_unlock" => mutex' = None
    BY <2>3 DEF Working
  <2>4. QED BY <1>1, <2>1, <2>2, <2>3, CalWorks
<1>2. ASSUME NEW s \in Streams, Stream(s) PROVE Goal
  <2> USE DEF StreamFrame, At, Return, thread, detector, locks, TypeOK
  <2>1. CASE EnableCall(s)   BY <2>1 DEF EnableCall
  <2>2. CASE DisableCall(s)  BY <2>2 DEF DisableCall
  <2>3. CASE EnableLock(s)   BY <2>3 DEF EnableLock
  <2>4. CASE EnableCheck(s)  BY <2>4 DEF EnableCheck, NoteEarly
  <2>5. CASE EnableWake(s)   BY <2>5 DEF EnableWake
  <2>6. CASE EnablePlay(s)   BY <2>6 DEF EnablePlay, SpawnDetector
  <2>7. CASE DisableLock(s)  BY <2>7 DEF DisableLock
  <2>8. CASE DisableCheck(s) BY <2>8 DEF DisableCheck
  <2>9. CASE DisableIdle(s)  BY <2>9 DEF DisableIdle
  <2>10. QED
    BY <1>2, <2>1, <2>2, <2>3, <2>4, <2>5, <2>6, <2>7, <2>8, <2>9 DEF Stream, InCall
<1>3. ASSUME NEW d \in Detectors, Detector(d) PROVE Goal
  <2> USE DEF DetFrame, DetAt, CheckFailed, TypeOK
  <2>1. CASE DetectDestroyed(d) \/ DetectAbort(d)
    BY <2>1, RebornOwner DEF DetectDestroyed, DetectAbort
  <2>2. CASE DetectLock(d)  BY <2>2 DEF DetectLock
  <2>3. CASE DetectWake(d)  BY <2>3 DEF DetectWake, WakeDone, WakeFails
  <2>4. CASE DetectRead(d)  BY <2>4 DEF DetectRead
  <2>5. CASE DetectOff(d)   BY <2>5 DEF DetectOff, WakeDone, WakeFails
  <2>6. CASE DetectReset(d) BY <2>6 DEF DetectReset
  <2>7. QED BY <1>3, <2>1, <2>2, <2>3, <2>4, <2>5, <2>6 DEF Detector
<1>4. CASE Main
  <2> USE DEF locks, detector
  <2>1. CASE CalibFails   BY <2>1 DEF CalibFails, Quiet
  <2>2. CASE AmpCalib     BY <2>2 DEF AmpCalib
  <2>3. CASE Close        BY <2>3 DEF Close
  <2>4. CASE JoinDetector BY <2>4 DEF JoinDetector
  <2>5. CASE JoinCal      BY <2>5 DEF JoinCal
  <2>6. CASE Restart      BY <2>6, RebornOwner DEF Restart
  <2>7. QED BY <1>4, <2>1, <2>2, <2>3, <2>4, <2>5, <2>6 DEF Main
<1>5. ASSUME NEW a \in Amps, DspFault(a) PROVE Goal
  BY <1>5 DEF DspFault, locks, detector
<1>6. CASE UNCHANGED vars
  BY <1>6 DEF vars, locks, detector
<1>7. QED BY <1>1, <1>2, <1>3, <1>4, <1>5, <1>6 DEF Next

LEMMA InitOwner == ASSUME Init PROVE Owner /\ Inside
  BY ThreadAssumption DEF Init, Owner, Inside, CalOver, StreamHolds, DetectorHolds

\* Whoever owns fb_prot_mutex waits for no lock, nobody waits for it once it
\* is destroyed, and whoever owns adev->lock is in a call, where it waits for
\* fb_prot_mutex at most: no threads wait for each other in a circle.
OwnersRun ==
  /\ \A s \in Streams : mutex = s => pc[s] \in {"en_check", "en_wake", "en_play", "dis_check", "dis_idle"}
  /\ \A d \in Detectors : mutex = d => dpc[d] \in {"wake", "read", "off", "reset", "abort"}
  /\ mutex = Cal => pcC = "sil_unlock"
  /\ mutex = Destroyed => pcC \in {"none", "done"} /\ \A s \in Streams : pc[s] = "off"
  /\ \A s \in Streams : adevLock = s => pc[s] \notin {"on", "off"}

\* The amplifier HAL's locks do not deadlock, in spite of unlocks by threads
\* that do not own fb_prot_mutex and whether or not a stream comes before the
\* calibration thread.
THEOREM NoCircularWait == Spec => []OwnersRun
<1>1. Settled /\ Owner => OwnersRun
  BY DEF Settled, Owner, OwnersRun, StreamHolds, DetectorHolds
<1>2. QED BY <1>1, InitOwner, OwnerStep, SettledAlways, PTL DEF Spec

\* After a calibration to which no stream came early, the mutex belongs to
\* whoever is between lock and unlock, for any number of streams and failure
\* detectors.
THEOREM MutexIsSound == Spec => []MutexSound
<1>1. TypeOK /\ Quiet /\ Owner /\ Inside => MutexSound
  BY ThreadAssumption DEF TypeOK, Owner, Inside, MutexSound, CalOver
<1>2. QED BY <1>1, InitOwner, OwnerStep, QuietAlways, PTL DEF Spec

LEMMA AtMostOne ==
  ASSUME NEW S, NEW x, \A y \in S : y = x
  PROVE  Cardinality(S) = IF x \in S THEN 1 ELSE 0
<1>1. CASE x \in S
  <2>1. S = {x} BY <1>1
  <2>2. QED BY <1>1, <2>1, FS_Singleton
<1>2. CASE x \notin S
  <2>1. S = {} BY <1>2
  <2>2. QED BY <1>2, <2>1, FS_EmptySet
<1>3. QED BY <1>1, <1>2

\* The calibration thread's unlocks are the only way two threads can be
\* between lock and unlock of fb_prot_mutex: once it has ended, no two are,
\* unless a stream came early, whose failure detector may still be inside.
THEOREM Exclusion == Spec => [](CalOver /\ ~early => MutualExclusion)
<1>1. ASSUME MutexSound, CalOver, ~early PROVE MutualExclusion
  <2> DEFINE SH == {s \in Streams : StreamHolds(s)}
             DH == {d \in Detectors : DetectorHolds(d)}
  <2>1. (\A s \in SH : s = mutex) /\ (\A d \in DH : d = mutex)
    BY <1>1 DEF MutexSound
  <2>2. ~(mutex \in SH /\ mutex \in DH)
    BY ThreadAssumption
  <2>3. /\ Cardinality(SH) = IF mutex \in SH THEN 1 ELSE 0
        /\ Cardinality(DH) = IF mutex \in DH THEN 1 ELSE 0
    <3> HIDE DEF SH, DH
    <3> QED BY <2>1, AtMostOne
  <2>4. Cardinality(SH) + Cardinality(DH) <= 1
    <3> HIDE DEF SH, DH
    <3> QED BY <2>2, <2>3
  <2>5. pcC # "sil_unlock"
    BY <1>1 DEF CalOver
  <2>6. QED BY <2>4, <2>5 DEF MutualExclusion
<1>2. QED BY <1>1, MutexIsSound, PTL

------------------------------------------------------------------------------
(* CirrusAmp implements AmpControl.                                        *)

\* The audio HAL may rely on AmpControl, whenever its streams come: the matter
\* is settled once, nothing plays before that but what was let in before
\* CALIBRATING was stored, and a refusal lasts as long as the process.
THEOREM Implementation == Spec => ImplementsControl
<1> USE DEF Control!TypeOK, Control!vars
<1>1. Init => Control!Init
  BY DEF Init, Control!Init, CalOver
<1>2. ASSUME TypeOK, Settled, Settled', Quiet, Quiet', [Next]_vars
      PROVE  [Control!Next]_(Control!vars)
  <2> USE DEF Control!Next
  <2>1. CASE CalThread
    <3>1. CASE CalBegin
      BY <1>2, <3>1 DEF CalBegin, CalFrame, Goto, StartLoading, CalOver, Control!Calibrate
    <3>2. CASE CalEnd
      BY <1>2, <3>2 DEF CalEnd, CalFrame, Goto, CalOver, Control!Settle
    <3>3. CASE pcC \in Working /\ pcC' \in Working /\ UNCHANGED <<st, mpc, early>>
      BY <3>3 DEF Working, CalOver
    <3>4. QED BY <1>2, <2>1, <3>1, <3>2, <3>3, CalWorks
  <2>2. ASSUME NEW s \in Streams, Stream(s) PROVE [Control!Next]_(Control!vars)
    <3>1. UNCHANGED <<mpc, pcC>>
      BY <2>2 DEF Stream, InCall, EnableCall, DisableCall, EnableLock, EnableCheck,
         EnableWake, EnablePlay, DisableLock, DisableCheck, DisableIdle, StreamFrame
    <3>2. CASE EnableCheck(s)
      <4>1. UNCHANGED st /\ (early' = early \/ (early' = TRUE /\ pcC = "begin"))
        BY <1>2, <3>2 DEF EnableCheck, NoteEarly, TypeOK
      <4>2. QED BY <3>1, <4>1 DEF CalOver, Control!LetIn
    <3>3. ~EnableCheck(s) => early' = early
      BY <2>2 DEF Stream, InCall, EnableCall, DisableCall, EnableLock, EnableWake, EnablePlay,
         DisableLock, DisableCheck, DisableIdle
    <3>4. CASE ~EnableCheck(s) /\ pc[s] \in Past
      <4>1. st # "CALIBRATION_ERROR" /\ st' # "CALIBRATION_ERROR" /\ (CalOver \/ early)
        BY <1>2, <2>2, <3>4 DEF Quiet, Settled, Past, Stream, InCall, EnableCall, DisableCall,
           EnableLock, EnableCheck, EnableWake, EnablePlay, DisableLock, DisableCheck, DisableIdle
      <4>2. QED BY <3>1, <3>3, <3>4, <4>1 DEF CalOver, Control!Switch
    <3>5. CASE ~EnableCheck(s) /\ pc[s] \notin Past
      <4>1. st' = st
        BY <2>2, <3>5 DEF Past, Stream, InCall, EnableCall, DisableCall, EnableLock, EnableCheck,
           EnableWake, EnablePlay, DisableLock, DisableCheck, DisableIdle
      <4>2. QED BY <3>1, <3>3, <3>5, <4>1 DEF CalOver
    <3>6. QED BY <3>2, <3>4, <3>5
  <2>3. ASSUME NEW d \in Detectors, Detector(d) PROVE [Control!Next]_(Control!vars)
    <3>1. CASE UNCHANGED <<st, mpc, pcC, early>>
      BY <3>1 DEF CalOver
    <3>2. CASE Reborn
      BY <3>2 DEF Reborn, CalOver, Control!NewProcess
    <3>3. QED
      BY <2>3, <3>1, <3>2 DEF Detector, DetectLock, DetectDestroyed, DetectWake,
         DetectRead, DetectOff, DetectReset, DetectAbort, DetFrame
  <2>4. CASE Main
    <3> USE DEF CalOver
    <3>1. CASE CalibFails
      BY <1>2, <3>1 DEF CalibFails, Settled, Control!Settle
    <3>2. CASE AmpCalib
      BY <1>2, <3>2 DEF AmpCalib, Settled
    <3>3. CASE Close \/ JoinDetector \/ JoinCal
      BY <3>3 DEF Close, JoinDetector, JoinCal
    <3>4. CASE Restart
      BY <3>4 DEF Restart, Reborn, Control!NewProcess
    <3>5. QED BY <2>4, <3>1, <3>2, <3>3, <3>4 DEF Main
  <2>5. ASSUME NEW a \in Amps, DspFault(a) PROVE [Control!Next]_(Control!vars)
    BY <2>5 DEF DspFault, CalOver
  <2>6. CASE UNCHANGED vars
    BY <2>6 DEF vars, CalOver
  <2>7. QED BY <1>2, <2>1, <2>2, <2>3, <2>4, <2>5, <2>6 DEF Next
<1>3. QED BY <1>1, <1>2, QuietAlways, PTL DEF Spec, ImplementsControl, Control!Spec

------------------------------------------------------------------------------
(* What the Protection firmwares hold when audio is let through.           *)

Silence == {"sil_check", "sil_enable", "sil_lock", "sil_unlock"}

Loaded == \A a \in Amps : fw[a] = "Protection"
Blank == \A a \in Amps : written[a] = "none"
Full == \A a \in Amps : written[a] = cal[a]
WillApply == ~isStereo \/ calValid = Amps
Applied == Loaded /\ IF WillApply THEN Full ELSE Blank

\* The calibration thread, with no error so far, has written what it is
\* going to write.
Ending ==
  \/ pcC = "rest"
  \/ pcC \in Silence /\ back = "end" /\ cret = "ok"
  \/ pcC = "end" /\ cret = "ok"
  \/ Usable

\* A failure detector has reset the DSP and is about to abort the process.
Doomed == \E d \in Detectors : dpc[d] = "abort"

\* What the calibration thread has found out at each of its places, and,
\* unless the process is doomed, what it has done to the DSP.
Progress ==
  /\ pcC \in {"load", "apply"} => IF isStereo THEN amp \in {"L", "R"} ELSE amp = "M"
  /\ pcC = "load" /\ amp = "L" => "R" \in Amps
  /\ pcC \in {"verdict", "app_wake", "apply"} => View = Amps
  /\ pcC \in {"app_wake", "apply", "rest"} => WillApply
  /\ pcC = "done" => st \in {"IDLE", "PLAYBACK", "CALIBRATION_ERROR"}
  /\ ~Doomed =>
       /\ pcC = "load" /\ amp = "L" => fw["R"] = "Protection" /\ written["R"] = "none"
       /\ pcC \in {"verdict", "app_wake", "apply"} => Loaded
       /\ pcC \in {"verdict", "app_wake"} => Blank
       /\ pcC = "apply" /\ amp = "L" => written["R"] = cal["R"]
       /\ Ending => Applied

LEMMA Pairs ==
  /\ "R" \in Amps \/ "L" \in Amps => Amps = {"L", "R"}
  /\ "M" \in Amps => Amps = {"M"}
  /\ View = IF isStereo THEN {"L", "R"} ELSE {"M"}
  BY DEF Amps, View

LEMMA RebornProgress == ASSUME Reborn PROVE Progress'
  BY DEF Reborn, Progress, Ending, Usable, Silence

LEMMA CalProgress == ASSUME TypeOK, Progress, CalThread PROVE Progress'
<1>1. Doomed' = Doomed
  BY CalWorks DEF CalBegin, CalEnd, CalFrame, detector, Doomed
<1> USE <1>1
    DEF CalFrame, CalFwFrame, Goto, FailTo, PlaySilence, StartLoading, FirstAmp,
        Progress, Ending, Usable, Silence, detector
<1>2. CASE CalBegin BY <1>2 DEF CalBegin, session
<1>3. CASE CalFwMono \/ CalFwLeft \/ CalFwRight
  BY <1>3 DEF CalFwMono, CalFwLeft, CalFwRight
<1>4. CASE CalWake \/ CalAmbient \/ CalRead
  BY <1>4 DEF CalWake, CalAmbient, CalRead
<1>5. CASE CalRewake BY <1>5 DEF CalRewake
<1>6. CASE SilenceCheck \/ SilenceEnable \/ SilenceDisable \/ SilenceEnd
  BY <1>6 DEF SilenceCheck, SilenceEnable, SilenceDisable, SilenceEnd, session, hw,
     Applied, Loaded, Full, Blank, WillApply, TypeOK
<1>7. CASE LoadProtection
  BY <1>7, Pairs DEF LoadProtection, Booted, DownloadFails, session, dsp, Loaded, Blank, View, TypeOK
<1>8. CASE Verdict
  BY <1>8 DEF Verdict, session, hw, Applied, Loaded, Full, Blank, WillApply, View
<1>9. CASE ApplyWake
  BY <1>9 DEF ApplyWake, session, dsp, Applied, Loaded, Full, Blank, WillApply, View
<1>10. CASE Apply
  BY <1>10, Pairs DEF Apply, session, Applied, Loaded, Full, Blank, WillApply, View, TypeOK
<1>11. CASE Rest
  BY <1>11 DEF Rest, session, dsp, Applied, Loaded, Full, Blank, WillApply, View
<1>12. CASE CalEnd
  BY <1>12 DEF CalEnd, session, hw, Applied, Loaded, Full, Blank, WillApply, View, Doomed
<1>13. QED
  BY <1>2, <1>3, <1>4, <1>5, <1>6, <1>7, <1>8, <1>9, <1>10, <1>11, <1>12 DEF CalThread

\* What other threads leave alone, or do to the DSP of a doomed process,
\* keeps Progress.
LEMMA OtherProgress ==
  ASSUME Progress, UNCHANGED <<pcC, thread, session>>,
         Doomed' \/ (UNCHANGED dsp /\ ~Doomed /\ (Usable' => Usable)),
         pcC = "done" => st' \in {"IDLE", "PLAYBACK", "CALIBRATION_ERROR"}
  PROVE  Progress'
BY DEF Progress, Ending, Silence, thread, session, dsp, Applied, Loaded, Full, Blank,
   WillApply, View

LEMMA ProgressStep == ASSUME TypeOK, Settled, Progress, [Next]_vars PROVE Progress'
<1>1. CASE CalThread BY <1>1, CalProgress
<1>2. ASSUME NEW s \in Streams, Stream(s) PROVE Progress'
  <2>1. UNCHANGED <<pcC, thread, session, dsp>>
    BY <1>2 DEF Stream, InCall, EnableCall, DisableCall, EnableLock, EnableCheck, EnableWake,
       EnablePlay, DisableLock, DisableCheck, DisableIdle, StreamFrame, hw, dsp
  <2>2. /\ st' = st \/ (pc[s] \in Past /\ st' \in {"IDLE", "PLAYBACK"})
        /\ \A d \in Detectors : dpc'[d] = "abort" <=> dpc[d] = "abort"
    BY <1>2 DEF Stream, InCall, EnableCall, DisableCall, EnableLock, EnableCheck, EnableWake,
       EnablePlay, SpawnDetector, DisableLock, DisableCheck, DisableIdle, Past, detector, TypeOK
  <2>3. Usable' => Usable
    BY <2>1, <2>2 DEF Usable, Settled, Progress
  <2>4. pcC = "done" => st' \in {"IDLE", "PLAYBACK", "CALIBRATION_ERROR"}
    BY <2>2 DEF Progress
  <2>5. Doomed' <=> Doomed BY <2>2 DEF Doomed
  <2>6. QED BY <2>1, <2>3, <2>4, <2>5, OtherProgress
<1>3. ASSUME NEW d \in Detectors, Detector(d) PROVE Progress'
  <2>1. CASE DetectDestroyed(d) \/ DetectAbort(d)
    BY <2>1, RebornProgress DEF DetectDestroyed, DetectAbort
  <2>2. CASE DetectLock(d) \/ DetectWake(d) \/ DetectRead(d) \/ DetectOff(d)
    <3>1. UNCHANGED <<pcC, thread, session, dsp, st>>
      BY <2>2 DEF DetectLock, DetectWake, DetectRead, DetectOff, DetFrame, hw, dsp
    <3>2. \A e \in Detectors : dpc'[e] = "abort" <=> dpc[e] = "abort"
      BY <2>2 DEF DetectLock, DetectWake, DetectRead, DetectOff, DetAt, CheckFailed,
         WakeDone, WakeFails, TypeOK
    <3>3. QED BY <3>1, <3>2, OtherProgress DEF Usable, Progress, Doomed
  <2>3. CASE DetectReset(d)
    <3>1. dpc'[d] = "abort" /\ UNCHANGED <<pcC, thread, session, st>>
      BY <2>3 DEF DetectReset, DetAt, DetFrame, TypeOK
    <3>2. Doomed' BY <3>1 DEF Doomed
    <3>3. QED BY <3>1, <3>2, OtherProgress DEF Progress
  <2>4. QED BY <1>3, <2>1, <2>2, <2>3 DEF Detector
<1>4. CASE Main
  <2>1. CASE CalibFails \/ Close \/ JoinDetector \/ JoinCal
    <3>1. UNCHANGED <<st, pcC, thread, session, dsp, dpc>>
      BY <2>1 DEF CalibFails, Close, JoinDetector, JoinCal, hw, dsp, detector
    <3>2. QED BY <3>1, OtherProgress DEF Usable, Progress, Doomed
  <2>2. CASE AmpCalib
    BY <2>2 DEF AmpCalib, Progress, Ending, Usable, Silence
  <2>3. CASE Restart BY <2>3, RebornProgress DEF Restart
  <2>4. QED BY <1>4, <2>1, <2>2, <2>3 DEF Main
<1>5. ASSUME NEW a \in Amps, DspFault(a) PROVE Progress'
  BY <1>5 DEF DspFault, Progress, Ending, Usable, Silence, thread, session, detector,
     Applied, Loaded, Full, Blank, WillApply, View, Doomed
<1>6. CASE UNCHANGED vars
  BY <1>6, OtherProgress DEF vars, hw, dsp, detector, Usable, Progress, Doomed
<1>7. QED BY <1>1, <1>2, <1>3, <1>4, <1>5, <1>6 DEF Next

LEMMA ProgressAlways == Spec => [](TypeOK /\ Settled /\ Progress)
<1>1. Init => Progress
  BY DEF Init, Progress, Ending, Usable, Silence
<1>2. QED BY <1>1, ProgressStep, SettledAlways, PTL DEF Spec

\* Audio is let through only with the Protection firmware on every amplifier.
THEOREM ProtectedPlayback == Spec => []PlaybackProtected
<1>1. Progress => PlaybackProtected
  BY DEF Progress, Ending, Applied, Loaded, PlaybackProtected, Doomed, Usable
<1>2. QED BY <1>1, ProgressAlways, PTL

\* Audio is let through with all calibrations applied, or (stereo, not all
\* valid) with none.
THEOREM AllOrNothing == Spec => []CalibrationApplied
<1>1. Progress => CalibrationApplied
  BY DEF Progress, Ending, Applied, WillApply, Full, Blank, CalibrationApplied, Doomed, Usable
<1>2. QED BY <1>1, ProgressAlways, PTL

------------------------------------------------------------------------------
(* What the session record holds, and what a fresh calibration relies on.  *)

\* Between the first step of a calibration and the last, the silence in
\* between included.
Asleep == pcC \in Silence /\ back = "cal_read"
Measuring ==
  \/ Asleep
  \/ pcC \in {"calfw_M", "calfw_L", "calfw_R", "cal_wake", "cal_ambient", "cal_read", "cal_rewake"}

\* Where nothing was measured yet, unless by another process.
Unmeasured == pcC \in {"none", "begin"} \/ (Measuring /\ pcC # "cal_rewake")

Fresh == \E a \in Amps : cal[a] = "measured"

\* Where the record comes from: cal_valid and, in the build that measures,
\* cal_ok vouch for what is in it, and a mono device takes itself for one
\* whenever it measures.
Record ==
  /\ calValid \subseteq {a \in Amps : cal[a] # "zero"}
  /\ calOk /\ ~FromTA => \A a \in Amps : cal[a] # "zero"
  /\ Unmeasured => ~Fresh
  /\ pcC = "cal_rewake" => \A a \in Amps : cal[a] = "measured"
  /\ mpc = "open" => ~isStereo /\ ~calOk
  /\ pcC = "begin" /\ ~calOk => ~isStereo
  /\ (Measuring \/ Fresh) /\ isStereo => Stereo
  /\ pcC \in {"app_wake", "apply"} => calOk \/ isStereo

LEMMA RebornRecord == ASSUME Reborn PROVE Record'
  BY DEF Reborn, Record, Unmeasured, Measuring, Asleep, Silence, Fresh

\* The calibration thread fills the record as it goes.
LEMMA CalRecord == ASSUME TypeOK, Settled, Record, CalThread PROVE Record'
<1> USE DEF CalFrame, CalFwFrame, Goto, FailTo, PlaySilence, StartLoading, session, dsp, hw,
            Record, Unmeasured, Measuring, Asleep, Silence, Fresh
<1>0. pcC # "none" => mpc # "open" BY DEF Settled
<1>1. CASE CalBegin   BY <1>1 DEF CalBegin
<1>2. CASE CalFwMono \/ CalFwLeft
  BY <1>2 DEF CalFwMono, CalFwLeft
<1>3. CASE CalFwRight
  <2>1. isStereo' => isStereo \/ Stereo BY <1>3 DEF CalFwRight, Booted, Amps
  <2>2. UNCHANGED <<calOk, cal, calValid, mpc, back>> /\ pcC = "calfw_R" /\ pcC' \in {"cal_wake", "end"}
    BY <1>3 DEF CalFwRight
  <2>3. ~Fresh /\ ~Fresh' /\ (isStereo' => Stereo) BY <2>1, <2>2
  <2>4. QED BY <1>0, <2>2, <2>3
<1>4. CASE CalWake    BY <1>4 DEF CalWake, WakeDone
<1>5. CASE CalAmbient BY <1>5 DEF CalAmbient
<1>6. CASE CalRead    BY <1>6 DEF CalRead
<1>7. CASE CalRewake
  <2>1. /\ UNCHANGED <<isStereo, cal, calValid, mpc, back>> /\ pcC = "cal_rewake"
        /\ pcC' = "load" \/ (pcC' = "end" /\ calOk' = calOk)
    BY <1>7 DEF CalRewake
  <2>2. QED BY <1>0, <2>1
<1>8. CASE SilenceCheck \/ SilenceEnable \/ SilenceDisable \/ SilenceEnd
  BY <1>8 DEF SilenceCheck, SilenceEnable, SilenceDisable, SilenceEnd, TypeOK
<1>9. CASE LoadProtection BY <1>9 DEF LoadProtection
<1>10. CASE Verdict    BY <1>10 DEF Verdict
<1>11. CASE ApplyWake \/ Apply \/ Rest
  <2>1. /\ UNCHANGED <<session, mpc>> /\ pcC \in {"app_wake", "apply", "rest"}
        /\ \/ pcC' = "apply" /\ pcC # "rest"
           \/ pcC' = "rest"
           \/ pcC' = "sil_check" /\ back' = "end"
    BY <1>11 DEF ApplyWake, Apply, Rest
  <2>2. QED BY <2>1
<1>12. CASE CalEnd     BY <1>12 DEF CalEnd
<1>13. QED
  BY <1>1, <1>2, <1>3, <1>4, <1>5, <1>6, <1>7, <1>8, <1>9, <1>10, <1>11, <1>12 DEF CalThread

\* Other threads leave the record alone.
LEMMA OtherRecord ==
  ASSUME Record, UNCHANGED <<pcC, back, session>>, mpc' = "open" => mpc = "open"
  PROVE  Record'
  BY DEF Record, Unmeasured, Measuring, Asleep, Silence, Fresh, session

LEMMA RecordStep == ASSUME TypeOK, Settled, Record, [Next]_vars PROVE Record'
<1>1. CASE CalThread BY <1>1, CalRecord
<1>2. ASSUME NEW s \in Streams, Stream(s) PROVE Record'
  BY <1>2, OthersApart, OtherRecord
<1>3. ASSUME NEW d \in Detectors, Detector(d) PROVE Record'
  BY <1>3, OthersApart, OtherRecord, RebornRecord
<1>4. CASE Main
  <2>1. CASE CalibFails \/ Close \/ JoinDetector \/ JoinCal
    <3>1. UNCHANGED <<pcC, back, session>> /\ mpc' # "open"
      BY <2>1 DEF CalibFails, Close, JoinDetector, JoinCal, hw, thread
    <3>2. QED BY <3>1, OtherRecord
  <2>2. CASE AmpCalib
    <3>1. mpc' = "up" /\ pcC' = "begin" /\ mpc = "open" BY <2>2 DEF AmpCalib
    <3>2. pcC = "none" BY <3>1 DEF Settled
    <3>3. CASE CalibFromTA
      BY <3>1, <3>3 DEF CalibFromTA, Record, Unmeasured, Measuring, Asleep,
         Silence, Fresh
    <3>4. CASE CalibFromFile
      BY <3>1, <3>2, <3>4 DEF CalibFromFile, session, Record, Unmeasured,
         Measuring, Asleep, Silence, Fresh
    <3>5. QED BY <2>2, <3>3, <3>4 DEF AmpCalib
  <2>3. CASE Restart BY <2>3, RebornRecord DEF Restart
  <2>4. QED BY <1>4, <2>1, <2>2, <2>3 DEF Main
<1>5. ASSUME NEW a \in Amps, DspFault(a) PROVE Record'
  BY <1>5, OtherRecord DEF DspFault, thread
<1>6. CASE UNCHANGED vars
  BY <1>6, OtherRecord DEF vars, hw, thread
<1>7. QED BY <1>1, <1>2, <1>3, <1>4, <1>5, <1>6 DEF Next

LEMMA RecordAlways == Spec => [](TypeOK /\ Settled /\ Progress /\ Record)
<1>1. Init => Record
  BY DEF Init, Record, Unmeasured, Measuring, Asleep, Silence, Fresh
<1>2. QED BY <1>1, RecordStep, ProgressAlways, PTL DEF Spec

\* Until Protection is loaded the calibration thread keeps what it forced
\* awake, and gives up calibrating when it cannot.
LEMMA CalAwake ==
  ASSUME TypeOK, Record, AwakeUntilProtected, CalThread PROVE AwakeUntilProtected'
<1> USE DEF CalFrame, CalFwFrame, Goto, FailTo, PlaySilence, StartLoading, session, hw,
            AwakeUntilProtected
<1>1. CASE CalBegin
  BY <1>1 DEF CalBegin, Record, Unmeasured, Fresh
<1>2. CASE CalWake \/ CalAmbient \/ CalRead \/ CalRewake
  BY <1>2 DEF CalWake, CalAmbient, CalRead, CalRewake, WakeDone
<1>3. CASE SilenceCheck \/ SilenceEnable \/ SilenceDisable \/ SilenceEnd
  BY <1>3 DEF SilenceCheck, SilenceEnable, SilenceDisable, SilenceEnd, TypeOK
<1>4. CASE LoadProtection
  BY <1>4 DEF LoadProtection
<1>5. CASE pcC' \in {"calfw_L", "calfw_R", "cal_wake", "app_wake", "apply", "rest", "end", "done"}
  BY <1>5
<1>6. CASE back' = "end" /\ pcC' \in Silence
  BY <1>6 DEF Silence
<1>7. QED
  BY <1>1, <1>2, <1>3, <1>4, <1>5, <1>6 DEF CalThread, CalFwMono, CalFwLeft, CalFwRight, Verdict,
     ApplyWake, Apply, Rest, CalEnd, Silence

LEMMA AwakeStep ==
  ASSUME TypeOK, Settled, Quiet, Record, AwakeUntilProtected, [Next]_vars
  PROVE  AwakeUntilProtected'
<1> USE DEF AwakeUntilProtected
<1>1. CASE CalThread BY <1>1, CalAwake
<1>2. ASSUME UNCHANGED <<pcC, back, session>>, early => early',
             wake' = wake \/ early \/ pcC \in {"none", "done"}
      PROVE  AwakeUntilProtected'
  BY <1>2 DEF session
<1>3. ASSUME NEW s \in Streams, Stream(s) PROVE AwakeUntilProtected'
  BY <1>2, <1>3, OthersApart DEF Quiet, CalOver
<1>4. ASSUME NEW d \in Detectors, Detector(d) PROVE AwakeUntilProtected'
  <2>1. CASE Reborn BY <2>1 DEF Reborn
  <2>2. QED BY <1>2, <1>4, <2>1, OthersApart DEF Quiet, CalOver
<1>5. CASE Main
  <2>1. CASE pcC' \in {"none", "begin"} BY <2>1
  <2>2. QED
    BY <1>2, <1>5, <2>1 DEF Main, CalibFails, AmpCalib, Close, JoinDetector, JoinCal, Restart,
       Reborn, hw, thread
<1>6. ASSUME NEW a \in Amps, DspFault(a) PROVE AwakeUntilProtected'
  BY <1>2, <1>6 DEF DspFault, thread
<1>7. CASE UNCHANGED vars
  BY <1>2, <1>7 DEF vars, hw, thread
<1>8. QED BY <1>1, <1>3, <1>4, <1>5, <1>6, <1>7 DEF Next

\* In every build and on every device a freshly calibrated amplifier is kept
\* awake until Protection is loaded, in a process no stream came early to.
THEOREM StaysAwake == Spec => []AwakeUntilProtected
<1>1. Init => AwakeUntilProtected
  BY DEF Init, AwakeUntilProtected
<1>2. QED BY <1>1, AwakeStep, QuietAlways, RecordAlways, PTL DEF Spec

\* What one amplifier was just measured to need is what its firmware gets.
THEOREM FreshIsApplied == ASSUME ~Stereo PROVE Spec => []FreshCalibrationApplied
<1>1. Progress /\ Record => FreshCalibrationApplied
  BY DEF Progress, Doomed, Usable, Ending, Applied, WillApply, Full, Record, Fresh,
         FreshCalibrationApplied
<1>2. QED BY <1>1, RecordAlways, PTL

\* Zeroes are not written to a firmware, except where one amplifier's data
\* come from the TA partition.
THEOREM NeverZero ==
  ASSUME Stereo \/ ~FromTA PROVE Spec => []ZeroNeverWritten
<1>1. ASSUME TypeOK, Progress, Record, pcC = "apply" PROVE amp \in Amps /\ cal[amp] # "zero"
  <2>1. amp \in View /\ View = Amps /\ WillApply /\ (calOk \/ isStereo)
    BY <1>1 DEF Progress, Record, View
  <2>2. isStereo = Stereo BY <1>1, <2>1, BuildAssumption DEF View, Amps, TypeOK
  <2>3. CASE Stereo
    BY <1>1, <2>1, <2>2, <2>3 DEF WillApply, Record
  <2>4. CASE ~Stereo
    BY <1>1, <2>1, <2>2, <2>4 DEF Record
  <2>5. QED BY <2>3, <2>4
<1>2. ASSUME TypeOK, Progress, Record, ZeroNeverWritten, [Next]_vars PROVE ZeroNeverWritten'
  <2> USE DEF ZeroNeverWritten
  <2>1. ASSUME NEW a, NEW f, Booted(a, f) \/ UNCHANGED written PROVE ZeroNeverWritten'
    BY <1>2, <2>1 DEF Booted, TypeOK
  <2>2. CASE CalThread
    <3>1. CASE Apply
      BY <1>1, <1>2, <3>1 DEF Apply, TypeOK
    <3>2. CASE CalFwMono \/ CalFwLeft \/ CalFwRight \/ LoadProtection
      BY <2>1, <3>2 DEF CalFwMono, CalFwLeft, CalFwRight, LoadProtection, DownloadFails, dsp
    <3>3. CASE ~Apply /\ ~(CalFwMono \/ CalFwLeft \/ CalFwRight \/ LoadProtection)
      <4>1. UNCHANGED written
        BY <2>2, <3>3 DEF CalThread, CalBegin, CalWake, CalAmbient, CalRead, CalRewake, SilenceCheck,
           SilenceEnable, SilenceDisable, SilenceEnd, Verdict, ApplyWake, Rest, CalEnd, hw, dsp
      <4>2. QED BY <1>2, <4>1
    <3>4. QED BY <3>1, <3>2, <3>3
  <2>3. ASSUME NEW s \in Streams, Stream(s) PROVE UNCHANGED written
    BY <2>3 DEF Stream, InCall, EnableCall, DisableCall, EnableLock, EnableCheck, EnableWake,
       EnablePlay, DisableLock, DisableCheck, DisableIdle, hw, dsp
  <2>4. ASSUME NEW d \in Detectors, Detector(d) PROVE ZeroNeverWritten'
    <3>1. CASE DetectReset(d) BY <1>2, <3>1 DEF DetectReset
    <3>2. CASE ~DetectReset(d)
      <4>1. UNCHANGED written
        BY <2>4, <3>2 DEF Detector, DetectLock, DetectDestroyed, DetectWake, DetectRead, DetectOff,
           DetectAbort, hw, dsp
      <4>2. QED BY <1>2, <4>1
    <3>3. QED BY <3>1, <3>2
  <2>5. CASE Main
    BY <1>2, <2>5 DEF Main, CalibFails, AmpCalib, Close, JoinDetector, JoinCal, Restart, hw
  <2>6. ASSUME NEW a \in Amps, DspFault(a) PROVE UNCHANGED written
    BY <2>6 DEF DspFault
  <2>7. QED BY <1>2, <2>2, <2>3, <2>4, <2>5, <2>6 DEF Next, vars, hw
<1>3. Init => ZeroNeverWritten
  BY DEF Init, ZeroNeverWritten
<1>4. QED BY <1>2, <1>3, RecordAlways, PTL DEF Spec

------------------------------------------------------------------------------
(* No thread runs for ever.                                                *)

\* How many steps the calibration thread has left at most, over every retry
\* and both silences,
CalLeft ==
  CASE pcC = "begin"       -> 22 + 2 * MaxTries
    [] pcC = "calfw_M"     -> 21 + 2 * MaxTries
    [] pcC = "calfw_L"     -> 20 + 2 * MaxTries
    [] pcC = "calfw_R"     -> 19 + 2 * MaxTries
    [] pcC = "cal_wake"    -> 18 + 2 * MaxTries
    [] pcC = "cal_ambient" -> 17 + 2 * MaxTries
    [] pcC = "sil_check"   -> IF back = "end" THEN 5 ELSE 16 + 2 * MaxTries
    [] pcC = "sil_enable"  -> IF back = "end" THEN 4 ELSE 15 + 2 * MaxTries
    [] pcC = "sil_lock"    -> IF back = "end" THEN 3 ELSE 14 + 2 * MaxTries
    [] pcC = "sil_unlock"  -> IF back = "end" THEN 2 ELSE 13 + 2 * MaxTries
    [] pcC = "cal_read"    -> 12 + 2 * MaxTries
    [] pcC = "cal_rewake"  -> 11 + 2 * MaxTries
    [] pcC = "load"        -> 10 + (IF amp = "R" THEN 2 * MaxTries ELSE MaxTries) - tries
    [] pcC = "verdict"     -> 10
    [] pcC = "app_wake"    -> 9
    [] pcC = "apply"       -> IF amp = "R" THEN 8 ELSE 7
    [] pcC = "rest"        -> 6
    [] pcC = "end"         -> 1
    [] OTHER               -> 0

\* a call of amp_enable_devices,
CallLeft(s) ==
  CASE pc[s] = "en_lock"                 -> 4
    [] pc[s] \in {"en_check", "dis_lock"} -> 3
    [] pc[s] \in {"en_wake", "dis_check"} -> 2
    [] pc[s] \in {"en_play", "dis_idle"}  -> 1
    [] OTHER                              -> 0

\* and a failure detector, which checks twice.
DetLeft(d) ==
  CASE dpc[d] = "lock"  -> 9
    [] dpc[d] = "wake"  -> IF dtry[d] = 1 THEN 8 ELSE 5
    [] dpc[d] = "read"  -> IF dtry[d] = 1 THEN 7 ELSE 4
    [] dpc[d] = "off"   -> IF dtry[d] = 1 THEN 6 ELSE 3
    [] dpc[d] = "reset" -> 2
    [] dpc[d] = "abort" -> 1
    [] OTHER            -> 0

\* A thread's own steps use up what it has left, and nobody gives it more
\* but who starts it: amp_calib, the audio HAL, or a stream that plays.
ThreadsAdvance ==
  /\ IF CalThread THEN CalLeft' \in 0 .. CalLeft - 1 ELSE CalLeft' > CalLeft => AmpCalib
  /\ \A s \in Streams :
       IF InCall(s) THEN CallLeft(s)' \in 0 .. CallLeft(s) - 1
                    ELSE CallLeft(s)' > CallLeft(s) => EnableCall(s) \/ DisableCall(s)
  /\ \A d \in Detectors :
       IF Detector(d) THEN DetLeft(d)' \in 0 .. DetLeft(d) - 1
                      ELSE DetLeft(d)' > DetLeft(d) => dpc[d] = "none" /\ dpc'[d] = "lock"

LEMMA CalLeftType == ASSUME TypeOK PROVE CalLeft \in Nat
<1>1. MaxTries \in Nat /\ MaxTries > 0 BY BuildAssumption
<1>2. PICK n \in Nat : n = tries BY <1>1 DEF TypeOK
<1>3. pcC = "load" => CalLeft \in Nat BY <1>1, <1>2 DEF CalLeft, TypeOK
<1>4. pcC # "load" => CalLeft \in Nat BY <1>1 DEF CalLeft
<1>5. QED BY <1>3, <1>4

LEMMA CalAdvances == ASSUME TypeOK, CalThread PROVE CalLeft' < CalLeft
<1>1. MaxTries \in Nat /\ MaxTries > 0 /\ tries \in Nat /\ tries < MaxTries
  BY BuildAssumption DEF TypeOK
<1> USE DEF Goto, FailTo, PlaySilence, StartLoading, FirstAmp
<1>2. CASE CalBegin BY <1>1, <1>2 DEF CalBegin, CalLeft
<1>3. CASE CalFwMono \/ CalFwLeft \/ CalFwRight
  BY <1>1, <1>3 DEF CalFwMono, CalFwLeft, CalFwRight, CalLeft
<1>4. CASE CalWake \/ CalAmbient \/ CalRead
  <2>1. \/ pcC = "cal_wake" /\ pcC' \in {"cal_ambient", "end"}
        \/ pcC = "cal_ambient" /\ pcC' = "sil_check" /\ back' = "cal_read"
        \/ pcC = "cal_ambient" /\ pcC' = "end"
        \/ pcC = "cal_read" /\ pcC' \in {"cal_rewake", "end"}
    BY <1>4 DEF CalWake, CalAmbient, CalRead
  <2>2. QED BY <1>1, <2>1 DEF CalLeft
<1>5. CASE CalRewake
  <2>1. pcC = "cal_rewake" /\ (pcC' = "end" \/ (pcC' = "load" /\ tries' = 0))
    BY <1>5 DEF CalRewake
  <2>2. QED BY <1>1, <2>1 DEF CalLeft
<1>6. CASE SilenceCheck \/ SilenceEnable \/ SilenceDisable \/ SilenceEnd
  BY <1>1, <1>6 DEF SilenceCheck, SilenceEnable, SilenceDisable, SilenceEnd, CalLeft, TypeOK
<1>7. CASE LoadProtection
  <2>1. /\ pcC = "load"
        /\ \/ amp = "R" /\ amp' = "L" /\ pcC' = "load" /\ tries' = 0
           \/ amp' = amp /\ pcC' = "load" /\ tries' = tries + 1
           \/ pcC' \in {"verdict", "end"}
    BY <1>7 DEF LoadProtection
  <2>2. QED BY <1>1, <2>1 DEF CalLeft
<1>8. CASE Verdict \/ ApplyWake \/ Apply \/ Rest
  <2>1. \/ pcC = "verdict" /\ pcC' \in {"app_wake", "end"}
        \/ pcC \in {"verdict", "app_wake", "apply", "rest"} /\ pcC' = "sil_check" /\ back' = "end"
        \/ pcC = "app_wake" /\ pcC' = "apply"
        \/ pcC = "apply" /\ amp = "R" /\ pcC' = "apply" /\ amp' = "L"
        \/ pcC = "apply" /\ pcC' = "rest"
    BY <1>8 DEF Verdict, ApplyWake, Apply, Rest
  <2>2. QED BY <2>1 DEF CalLeft
<1>9. CASE CalEnd BY <1>9 DEF CalEnd, CalLeft
<1>10. QED
  BY <1>2, <1>3, <1>4, <1>5, <1>6, <1>7, <1>8, <1>9 DEF CalThread

\* Calibrations, calls and failure detections take a bounded number of steps,
\* whatever the mixer, the other threads and the retries do to them.
THEOREM NoThreadLoops == Spec => [][ThreadsAdvance]_vars
<1>1. ASSUME TypeOK, CalLeft \in Nat, CalLeft' \in Nat, [Next]_vars
      PROVE  IF CalThread THEN CalLeft' \in 0 .. CalLeft - 1 ELSE CalLeft' > CalLeft => AmpCalib
  <2>2. CalThread => CalLeft' < CalLeft BY <1>1, CalAdvances
  <2>3. ~CalThread => AmpCalib \/ CalLeft' = CalLeft \/ CalLeft' = 0
    <3>1. UNCHANGED <<pcC, thread>> => CalLeft' = CalLeft BY DEF thread, CalLeft
    <3>2. Reborn => CalLeft' = 0 BY DEF Reborn, CalLeft
    <3>3. ASSUME NEW s \in Streams, Stream(s) PROVE UNCHANGED <<pcC, thread>>
      BY <3>3 DEF Stream, InCall, EnableCall, DisableCall, EnableLock, EnableCheck, EnableWake,
         EnablePlay, DisableLock, DisableCheck, DisableIdle, StreamFrame
    <3>4. ASSUME NEW d \in Detectors, Detector(d) PROVE Reborn \/ UNCHANGED <<pcC, thread>>
      BY <3>4 DEF Detector, DetectLock, DetectDestroyed, DetectWake, DetectRead, DetectOff,
         DetectReset, DetectAbort, DetFrame
    <3>5. Main => AmpCalib \/ Reborn \/ UNCHANGED <<pcC, thread>>
      BY DEF Main, CalibFails, Close, JoinDetector, JoinCal, Restart
    <3>6. ASSUME NEW a \in Amps, DspFault(a) PROVE UNCHANGED <<pcC, thread>>
      BY <3>6 DEF DspFault
    <3>7. QED BY <1>1, <3>1, <3>2, <3>3, <3>4, <3>5, <3>6 DEF Next, vars
  <2>4. QED BY <1>1, <2>2, <2>3
<1>2. ASSUME TypeOK, [Next]_vars, NEW s \in Streams
      PROVE  IF InCall(s) THEN CallLeft(s)' \in 0 .. CallLeft(s) - 1
             ELSE CallLeft(s)' > CallLeft(s) => EnableCall(s) \/ DisableCall(s)
  <2>1. CallLeft(s) \in Nat /\ CallLeft(s)' \in Nat BY DEF CallLeft
  <2>2. ASSUME InCall(s) PROVE CallLeft(s)' < CallLeft(s)
    <3>1. \/ pc[s] = "en_lock" /\ pc'[s] = "en_check"
          \/ pc[s] = "en_check" /\ pc'[s] \in {"en_wake", "on"}
          \/ pc[s] = "en_wake" /\ pc'[s] = "en_play"
          \/ pc[s] = "en_play" /\ pc'[s] = "on"
          \/ pc[s] = "dis_lock" /\ pc'[s] = "dis_check"
          \/ pc[s] = "dis_check" /\ pc'[s] \in {"dis_idle", "off"}
          \/ pc[s] = "dis_idle" /\ pc'[s] = "off"
      BY <1>2, <2>2 DEF InCall, EnableLock, EnableCheck, EnableWake, EnablePlay, DisableLock,
         DisableCheck, DisableIdle, At, Return, TypeOK
    <3>2. QED BY <3>1 DEF CallLeft
  <2>3. ~InCall(s) => EnableCall(s) \/ DisableCall(s) \/ CallLeft(s)' = CallLeft(s) \/ CallLeft(s)' = 0
    <3>1. pc'[s] = pc[s] => CallLeft(s)' = CallLeft(s) BY DEF CallLeft
    <3>2. Reborn => CallLeft(s)' = 0 BY DEF Reborn, CallLeft
    <3>3. ASSUME NEW t \in Streams, Stream(t), t # s PROVE pc'[s] = pc[s]
      BY <1>2, <3>3 DEF Stream, InCall, EnableCall, DisableCall, EnableLock, EnableCheck, EnableWake,
         EnablePlay, DisableLock, DisableCheck, DisableIdle, At, Return, TypeOK
    <3>4. Stream(s) => InCall(s) \/ EnableCall(s) \/ DisableCall(s) BY DEF Stream
    <3>5. ASSUME NEW d \in Detectors, Detector(d) PROVE Reborn \/ UNCHANGED pc
      BY <3>5 DEF Detector, DetectLock, DetectDestroyed, DetectWake, DetectRead, DetectOff,
         DetectReset, DetectAbort, DetFrame
    <3>6. Main => Reborn \/ UNCHANGED pc
      BY DEF Main, CalibFails, AmpCalib, Close, JoinDetector, JoinCal, Restart
    <3>7. CalThread => UNCHANGED pc
      BY <1>2, CalWorks DEF CalBegin, CalEnd, CalFrame
    <3>8. ASSUME NEW a \in Amps, DspFault(a) PROVE UNCHANGED pc
      BY <3>8 DEF DspFault
    <3>9. QED BY <1>2, <3>1, <3>2, <3>3, <3>4, <3>5, <3>6, <3>7, <3>8 DEF Next, vars
  <2>4. QED BY <2>1, <2>2, <2>3
<1>3. ASSUME TypeOK, [Next]_vars, NEW d \in Detectors
      PROVE  IF Detector(d) THEN DetLeft(d)' \in 0 .. DetLeft(d) - 1
             ELSE DetLeft(d)' > DetLeft(d) => dpc[d] = "none" /\ dpc'[d] = "lock"
  <2>1. DetLeft(d) \in Nat /\ DetLeft(d)' \in Nat BY DEF DetLeft
  <2>2. Reborn => DetLeft(d)' = 0 BY DEF Reborn, DetLeft
  <2>3. ASSUME Detector(d) PROVE DetLeft(d)' < DetLeft(d)
    <3>1. CASE DetectDestroyed(d) \/ DetectAbort(d)
      <4>1. DetLeft(d) > 0 BY <3>1 DEF DetectDestroyed, DetectAbort, DetLeft
      <4>2. QED BY <2>2, <3>1, <4>1 DEF DetectDestroyed, DetectAbort
    <3>2. dpc[d] \in {"none", "lock", "wake", "read", "off", "reset", "abort"} /\ dtry[d] \in {1, 2}
      BY <1>3 DEF TypeOK
    <3>3. CASE DetectLock(d) \/ DetectRead(d) \/ DetectReset(d)
      <4>1. \/ dpc[d] = "lock" /\ dpc'[d] = "wake"
            \/ dpc[d] = "read" /\ dpc'[d] = "off" /\ dtry'[d] = dtry[d]
            \/ dpc[d] = "reset" /\ dpc'[d] = "abort"
        BY <1>3, <3>3 DEF DetectLock, DetectRead, DetectReset, DetAt, TypeOK
      <4>2. QED BY <3>2, <4>1 DEF DetLeft
    <3>4. CASE DetectWake(d) \/ DetectOff(d)
      <4>1. \/ dpc[d] = "wake" /\ dpc'[d] = "read" /\ dtry'[d] = dtry[d]
            \/ dpc[d] = "off" /\ dpc'[d] = "none"
            \/ dpc[d] \in {"wake", "off"} /\ dtry[d] = 1 /\ dpc'[d] = "wake" /\ dtry'[d] = 2
            \/ dpc[d] \in {"wake", "off"} /\ dpc'[d] = "reset"
        <5>1. CASE CheckFailed(d)
          BY <1>3, <3>4, <5>1 DEF DetectWake, DetectOff, CheckFailed, DetAt, TypeOK
        <5>2. CASE ~CheckFailed(d)
          BY <1>3, <3>4, <5>2 DEF DetectWake, DetectOff, DetAt, TypeOK
        <5>3. QED BY <5>1, <5>2
      <4>2. QED BY <3>2, <4>1 DEF DetLeft
    <3>5. QED BY <2>3, <3>1, <3>3, <3>4 DEF Detector
  <2>4. ~Detector(d) =>
          (dpc[d] = "none" /\ dpc'[d] = "lock") \/ DetLeft(d)' = DetLeft(d) \/ DetLeft(d)' = 0
    <3>1. dpc'[d] = dpc[d] /\ dtry'[d] = dtry[d] => DetLeft(d)' = DetLeft(d) BY DEF DetLeft
    <3>2. ASSUME NEW e \in Detectors, Detector(e), e # d
          PROVE  Reborn \/ (dpc'[d] = dpc[d] /\ dtry'[d] = dtry[d])
      BY <1>3, <3>2 DEF Detector, DetectLock, DetectDestroyed, DetectWake, DetectRead, DetectOff,
         DetectReset, DetectAbort, CheckFailed, DetAt, TypeOK
    <3>3. ASSUME NEW s \in Streams, Stream(s)
          PROVE  \/ dpc[d] = "none" /\ dpc'[d] = "lock"
                 \/ dpc'[d] = dpc[d] /\ dtry'[d] = dtry[d]
      BY <1>3, <3>3 DEF Stream, InCall, EnableCall, DisableCall, EnableLock, EnableCheck, EnableWake,
         EnablePlay, SpawnDetector, DisableLock, DisableCheck, DisableIdle, detector, TypeOK
    <3>4. Main => Reborn \/ UNCHANGED detector
      BY DEF Main, CalibFails, AmpCalib, Close, JoinDetector, JoinCal, Restart
    <3>5. CalThread => UNCHANGED <<dpc, dtry>>
      BY DEF CalThread, CalBegin, CalFwMono, CalFwLeft, CalFwRight, CalWake, CalAmbient, CalRead,
         CalRewake, SilenceCheck, SilenceEnable, SilenceDisable, SilenceEnd, LoadProtection, Verdict,
         ApplyWake, Apply, Rest, CalEnd, CalFwFrame, CalFrame, detector
    <3>6. ASSUME NEW a \in Amps, DspFault(a) PROVE UNCHANGED detector
      BY <3>6 DEF DspFault
    <3>7. QED BY <1>3, <2>2, <3>1, <3>2, <3>3, <3>4, <3>5, <3>6 DEF Next, vars, detector
  <2>5. QED BY <2>1, <2>3, <2>4
<1>4. TypeOK => CalLeft \in Nat BY CalLeftType
<1>5. TypeOK /\ CalLeft \in Nat /\ (CalLeft \in Nat)' /\ [Next]_vars => ThreadsAdvance
  BY <1>1, <1>2, <1>3 DEF ThreadsAdvance
<1>6. QED BY <1>4, <1>5, TypeCorrect, PTL DEF Spec
==============================================================================
