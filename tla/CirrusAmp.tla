------------------------------ MODULE CirrusAmp ------------------------------
(***************************************************************************)
(* The Cirrus Logic CS35L41 amplifier HAL (amplifier/audio_amplifier.c):   *)
(* the calibration thread that amp_calib creates, the threads of the audio *)
(* HAL ("streams") that enable and disable the amplifier's output, and the *)
(* failure-detection threads that each IDLE -> PLAYBACK change creates,    *)
(* sharing one session record (handle), its mutex, and the amplifiers.     *)
(*                                                                         *)
(* A step is what a thread does between two points where another thread's  *)
(* step can matter.  A mixer access is one step with a success and a       *)
(* failure outcome; the writes of a left/right pair are one step, whose    *)
(* failure may leave the left one done.                                    *)
(***************************************************************************)
EXTENDS Naturals, FiniteSets

CONSTANTS Streams,        \* audio HAL users of a sound device
          Detectors,      \* failure-detection threads that may be alive at once
          Cal,            \* the calibration thread
          None,           \* no thread: the owner of a free mutex
          Destroyed,      \* the "owner" of a destroyed mutex
          Stereo,         \* TRUE iff the device has two amplifiers, L and R
          FromTA,         \* GET_SPEAKER_CALIBRATIONS_FROM_TA is defined
          Faulty,         \* amplifiers whose DSP may raise an error
          MaxTries        \* max_retries of the Protection downloads

ASSUME ThreadAssumption ==
  /\ Streams \cap Detectors = {}
  /\ {Cal, None, Destroyed} \cap (Streams \cup Detectors) = {}
  /\ Cal # None /\ Cal # Destroyed /\ None # Destroyed

ASSUME BuildAssumption ==
  /\ Stereo \in BOOLEAN /\ FromTA \in BOOLEAN
  /\ Faulty \subseteq {"L", "R", "M"} /\ MaxTries \in Nat \ {0}

VARIABLES
  st,         \* handle.state
  mutex,      \* owner of handle.fb_prot_mutex
  isStereo,   \* handle.is_stereo
  calOk,      \* handle.spkl.cal_ok and handle.spkr.cal_ok
  cal,        \* handle.spk[lr]: what calibration data the record holds
  calValid,   \* the amplifiers with handle.spk[lr].cal_valid set
  lastDet,    \* handle.failure_detect_thread
  adevLock,   \* owner of adev->lock
  usecases,   \* adev->usecase_list, by the thread each entry belongs to
  mpc,        \* the thread that opens, calibrates and closes the module
  pc,         \* each stream's place in amp_enable_devices
  pcC,        \* the calibration thread's place
  back,       \* where cirrus_play_silence returns to
  amp,        \* amplifier the calibration thread is working on
  tries,      \* failed downloads of the current Protection firmware
  cret,       \* the calibration thread's ret
  dpc,        \* each failure-detection thread's place
  dret,       \* its ret
  dtry,       \* which of the two checks it is making
  wake,       \* the amplifiers with "Hibernate Force Wake" set
  fw,         \* firmware booted on each amplifier's DSP
  written,    \* calibration written to each Protection firmware
  dspErr,     \* the amplifiers whose CSPL_ERRORNO is not 0
  early       \* history, not in the code: in this process a stream got past
              \* its check between pthread_create and CALIBRATING

session  == <<isStereo, calOk, cal, calValid>>
locks    == <<mutex, adevLock>>
thread   == <<back, amp, tries, cret>>
detector == <<dpc, dret, dtry, lastDet>>
dsp      == <<fw, written, dspErr>>
hw       == <<wake, fw, written, dspErr>>
vars == <<st, session, locks, usecases, mpc, pc, pcC, thread, detector, hw, early>>

\* The amplifiers of the device, and those the session believes it has.
Amps == IF Stereo THEN {"L", "R"} ELSE {"M"}
View == IF isStereo THEN {"L", "R"} ELSE {"M"}
FirstAmp == IF isStereo THEN "R" ELSE "M"

------------------------------------------------------------------------------
(* The amplifiers, as the mixer controls show them.                        *)

\* cirrus_set_force_wake(on) succeeds.  Controls of the wrong kind (mono
\* names on a stereo device, or the reverse) do not exist.
WakeDone(on) == View = Amps /\ wake' = IF on THEN Amps ELSE {}

\* cirrus_set_force_wake(on) fails, perhaps after L and before R.
WakeFails(on) ==
  \/ UNCHANGED wake
  \/ isStereo /\ Stereo /\ wake' = IF on THEN wake \cup {"L"} ELSE wake \ {"L"}

\* cirrus_exec_fw_download(type, a) leaves firmware f on a's DSP.  The DSP is
\* assumed to shut down within the 100 ms that the code waits for it: a wait
\* that runs out is taken for success.
Booted(a, f) ==
  /\ a \in Amps
  /\ fw' = [fw EXCEPT ![a] = f]
  /\ written' = [written EXCEPT ![a] = "none"]
  /\ dspErr' = dspErr \ {a}

\* It fails before the DSP was shut down, before the new firmware ran, or
\* because the running firmware's CSPL_ENABLE could not be read back.
DownloadFails(a, type) == UNCHANGED dsp \/ Booted(a, "none") \/ Booted(a, type)

\* The DSP raises CSPL_ERRORNO.
DspFault(a) ==
  /\ a \in Faulty /\ fw[a] = "Protection" /\ a \notin dspErr
  /\ dspErr' = dspErr \cup {a}
  /\ UNCHANGED <<st, session, locks, usecases, mpc, pc, pcC, thread, detector,
                 wake, fw, written, early>>

------------------------------------------------------------------------------
(* The process: module open, amp_calib, amp_dev_close.                     *)

\* The process dies and init starts it again: the session is a new one, the
\* amplifiers stay as they are.
Reborn ==
  /\ st' = "INIT" /\ mutex' = None /\ adevLock' = None
  /\ isStereo' = FALSE /\ calOk' = FALSE
  /\ cal' = [a \in Amps |-> "zero"] /\ calValid' = {}
  /\ usecases' = {} /\ mpc' = "open" /\ lastDet' = None
  /\ pc' = [s \in Streams |-> "off"]
  /\ pcC' = "none" /\ back' = "end" /\ amp' = "M" /\ tries' = 0 /\ cret' = "ok"
  /\ dpc' = [d \in Detectors |-> "none"] /\ dret' = [d \in Detectors |-> "ok"]
  /\ dtry' = [d \in Detectors |-> 1]
  /\ early' = FALSE

\* A device that was just powered on.
Init ==
  /\ st = "INIT" /\ mutex = None /\ adevLock = None
  /\ isStereo = FALSE /\ calOk = FALSE
  /\ cal = [a \in Amps |-> "zero"] /\ calValid = {}
  /\ usecases = {} /\ mpc = "open" /\ lastDet = None
  /\ pc = [s \in Streams |-> "off"]
  /\ pcC = "none" /\ back = "end" /\ amp = "M" /\ tries = 0 /\ cret = "ok"
  /\ dpc = [d \in Detectors |-> "none"] /\ dret = [d \in Detectors |-> "ok"]
  /\ dtry = [d \in Detectors |-> 1]
  /\ wake = {} /\ fw = [a \in Amps |-> "none"]
  /\ written = [a \in Amps |-> "none"] /\ dspErr = {}
  /\ early = FALSE

\* The TA wrapper library or one of its symbols is missing: -EINVAL, and no
\* calibration thread.
CalibFails ==
  /\ mpc = "open" /\ mpc' = "up"
  /\ UNCHANGED <<st, session, locks, usecases, pc, pcC, thread, detector, hw, early>>

\* Calibrations come from the TA partition: a unit that is empty or cannot
\* be read leaves zeroes.  The device counts as stereo when "DSP Booted"
\* cannot be read, which may happen on a mono device too.
CalibFromTA ==
  /\ FromTA
  /\ \E data \in [Amps -> {"zero", "stored"}] :
       /\ cal' = data
       /\ calValid' = {a \in Amps : data[a] # "zero"}
  /\ calOk' = TRUE
  /\ isStereo' \in {Stereo, TRUE}

\* Calibrations come from the file an earlier run saved, if it is good.
\* cal_valid is what was saved, and nothing sets it in this build.
CalibFromFile ==
  /\ ~FromTA
  /\ \/ /\ calOk' = TRUE /\ isStereo' = Stereo
        /\ cal' = [a \in Amps |-> "stored"] /\ UNCHANGED calValid
     \/ UNCHANGED session

AmpCalib ==
  /\ mpc = "open" /\ mpc' = "up"
  /\ CalibFromTA \/ CalibFromFile
  /\ pcC' = "begin"
  /\ UNCHANGED <<st, locks, usecases, pc, thread, detector, hw, early>>

\* amp_dev_close: join the last failure detector, join the calibration
\* thread, destroy the mutex (which fails while the mutex is held).  The
\* audio HAL closes the device when no stream is left.
Close ==
  /\ mpc = "up" /\ \A s \in Streams : pc[s] = "off"
  /\ mpc' = "join_det"
  /\ UNCHANGED <<st, session, locks, usecases, pc, pcC, thread, detector, hw, early>>

JoinDetector ==
  /\ mpc = "join_det"
  /\ lastDet # None => dpc[lastDet] = "none"
  /\ mpc' = "join_cal"
  /\ UNCHANGED <<st, session, locks, usecases, pc, pcC, thread, detector, hw, early>>

JoinCal ==
  /\ mpc = "join_cal" /\ pcC \in {"none", "done"}
  /\ mpc' = "closed"
  /\ mutex' = IF mutex = None THEN Destroyed ELSE mutex
  /\ UNCHANGED <<st, session, adevLock, usecases, pc, pcC, thread, detector, hw, early>>

\* The process exits with what it left running, and is started again.
Restart == mpc = "closed" /\ Reborn /\ UNCHANGED hw

------------------------------------------------------------------------------
(* cirrus_do_calibration, the calibration thread.                          *)

Goto(p) == pcC' = p /\ UNCHANGED <<back, amp, tries, cret>>
FailTo(p) == pcC' = p /\ cret' = "EINVAL" /\ UNCHANGED <<back, amp, tries>>
PlaySilence(to, ret) == pcC' = "sil_check" /\ back' = to /\ cret' = ret /\ UNCHANGED <<amp, tries>>
StartLoading == pcC' = "load" /\ amp' = FirstAmp /\ tries' = 0 /\ UNCHANGED <<back, cret>>

\* What no step of the calibration thread changes.
CalFrame == UNCHANGED <<mpc, pc, detector, early>>

CalBegin ==
  /\ pcC = "begin"
  /\ st' = "CALIBRATING"
  /\ IF calOk THEN StartLoading ELSE Goto("calfw_M")
  /\ UNCHANGED <<session, locks, usecases, hw>> /\ CalFrame

\* cirrus_do_fw_calibration_download: the mono controls; if that fails, both
\* L and R, whose results are added up.
CalFwFrame == UNCHANGED <<st, calOk, cal, calValid, locks, usecases, wake>> /\ CalFrame

CalFwMono ==
  /\ pcC = "calfw_M"
  /\ \/ Booted("M", "Calibration") /\ Goto("cal_wake")
     \/ DownloadFails("M", "Calibration") /\ Goto("calfw_L")
  /\ UNCHANGED isStereo /\ CalFwFrame

CalFwLeft ==
  /\ pcC = "calfw_L"
  /\ \/ Booted("L", "Calibration") /\ Goto("calfw_R")
     \/ DownloadFails("L", "Calibration") /\ FailTo("calfw_R")
  /\ UNCHANGED isStereo /\ CalFwFrame

CalFwRight ==
  /\ pcC = "calfw_R"
  /\ \/ Booted("R", "Calibration") /\ cret = "ok" /\ isStereo' = TRUE /\ Goto("cal_wake")
     \/ Booted("R", "Calibration") /\ cret # "ok" /\ UNCHANGED isStereo /\ Goto("end")
     \/ DownloadFails("R", "Calibration") /\ UNCHANGED isStereo /\ FailTo("end")
  /\ CalFwFrame

\* Mutant: a failure to force the wakeup is only logged.
CalWakeUnchecked ==
  /\ pcC = "cal_wake"
  /\ (WakeDone(TRUE) \/ WakeFails(TRUE)) /\ Goto("cal_ambient")
  /\ UNCHANGED <<st, session, locks, usecases, dsp>> /\ CalFrame

\* cirrus_mono_calibration and cirrus_stereo_calibration.
CalWake ==
  /\ pcC = "cal_wake"
  /\ \/ WakeDone(TRUE) /\ Goto("cal_ambient")
     \/ WakeFails(TRUE) /\ FailTo("end")
  /\ UNCHANGED <<st, session, locks, usecases, dsp>> /\ CalFrame

\* The ambient value.  The mono call passes the cal_ambient array, the stereo
\* call the array's length, 4: what the DSP makes of it is not modelled.
CalAmbient ==
  /\ pcC = "cal_ambient"
  /\ PlaySilence("cal_read", cret) \/ FailTo("end")
  /\ UNCHANGED <<st, session, locks, usecases, hw>> /\ CalFrame

\* Read status, checksum and resistance of every amplifier.  The status
\* read back may say that the calibration failed.
CalRead ==
  /\ pcC = "cal_read"
  /\ \/ cal' = [a \in Amps |-> "measured"] /\ Goto("cal_rewake")
     \/ UNCHANGED cal /\ FailTo("end")
  /\ UNCHANGED <<st, isStereo, calOk, calValid, locks, usecases, hw>> /\ CalFrame

\* Stay awake until Protection is loaded; cal_ok; the calibration is saved,
\* and a failure to save it is only logged.
CalRewake ==
  /\ pcC = "cal_rewake"
  /\ \/ WakeDone(TRUE) /\ calOk' = TRUE /\ StartLoading
     \/ WakeFails(TRUE) /\ UNCHANGED calOk /\ FailTo("end")
  /\ UNCHANGED <<st, isStereo, cal, calValid, locks, usecases, dsp>> /\ CalFrame

\* cirrus_play_silence: refused with -EAGAIN while the audio HAL has a use
\* case.  Only the final silence's result is added to ret.
SilenceCheck ==
  /\ pcC = "sil_check"
  /\ IF usecases # {}
       THEN /\ pcC' = back
            /\ cret' = IF back = "end" /\ cret = "ok" THEN "EAGAIN" ELSE cret
            /\ UNCHANGED <<back, amp, tries, usecases>>
       ELSE /\ usecases' = {Cal}
            /\ Goto("sil_enable")
  /\ UNCHANGED <<st, session, locks, hw>> /\ CalFrame

\* enable_snd_device calls cs35l41_enable_output back on this thread, which
\* unlocks a mutex it did not lock: a non-recursive mutex becomes free,
\* whoever holds it.
SilenceEnable ==
  /\ pcC = "sil_enable" /\ Goto("sil_lock")
  /\ mutex' = None
  /\ UNCHANGED <<st, session, adevLock, usecases, hw>> /\ CalFrame

\* The silence is written, or not, and disable_snd_device calls
\* cs35l41_disable_output back on this thread.
SilenceDisable ==
  /\ pcC = "sil_lock" /\ mutex = None
  /\ mutex' = Cal /\ pcC' = "sil_unlock"
  /\ cret' \in IF back = "end" /\ cret = "ok" THEN {"ok", "EIO"} ELSE {cret}
  /\ UNCHANGED <<st, session, adevLock, usecases, back, amp, tries, hw>> /\ CalFrame

SilenceEnd ==
  /\ pcC = "sil_unlock" /\ Goto(back)
  /\ mutex' = None
  /\ usecases' = usecases \ {Cal}
  /\ UNCHANGED <<st, session, adevLock, hw>> /\ CalFrame

\* Mutants: one try too many; the result of the last try is not looked at;
\* tries are not counted.
LoadOnceMore ==
  /\ pcC = "load"
  /\ \/ Booted(amp, "Protection") /\ Goto("verdict")
     \/ /\ DownloadFails(amp, "Protection")
        /\ IF tries < MaxTries THEN tries' = tries + 1 /\ UNCHANGED <<pcC, back, amp, cret>>
                               ELSE FailTo("end")
  /\ UNCHANGED <<st, session, locks, usecases, wake>> /\ CalFrame

LoadUnchecked ==
  /\ pcC = "load"
  /\ Booted(amp, "Protection") \/ DownloadFails(amp, "Protection")
  /\ IF amp = "R" THEN amp' = "L" /\ UNCHANGED pcC ELSE pcC' = "verdict" /\ UNCHANGED amp
  /\ tries' = 0 /\ UNCHANGED <<back, cret>>
  /\ UNCHANGED <<st, session, locks, usecases, wake>> /\ CalFrame

LoadForEver ==
  /\ pcC = "load"
  /\ \/ Booted(amp, "Protection") /\ Goto("verdict")
     \/ DownloadFails(amp, "Protection") /\ Goto("load")
  /\ UNCHANGED <<st, session, locks, usecases, wake>> /\ CalFrame

\* cirrus_do_fw_mono_download and cirrus_do_fw_stereo_download: Protection
\* on R and then L, each tried MaxTries times.
LoadProtection ==
  /\ pcC = "load"
  /\ \/ /\ Booted(amp, "Protection")
        /\ IF amp = "R" THEN amp' = "L" /\ UNCHANGED pcC ELSE pcC' = "verdict" /\ UNCHANGED amp
        /\ tries' = 0 /\ UNCHANGED <<back, cret>>
     \/ /\ DownloadFails(amp, "Protection")
        /\ IF tries + 1 < MaxTries THEN tries' = tries + 1 /\ UNCHANGED <<pcC, back, amp, cret>>
                                   ELSE FailTo("end")
  /\ UNCHANGED <<st, session, locks, usecases, wake>> /\ CalFrame

\* Mutant: one valid calibration of two is enough.
VerdictOneOfTwo ==
  /\ pcC = "verdict"
  /\ Goto(IF calValid # {} THEN "app_wake" ELSE "end")
  /\ UNCHANGED <<st, session, locks, usecases, hw>> /\ CalFrame

\* Stereo: get out with success unless both calibrations are valid.  Mono:
\* get out with an error unless calibrations were obtained.
Verdict ==
  /\ pcC = "verdict"
  /\ IF isStereo
       THEN Goto(IF calValid = Amps THEN "app_wake" ELSE "end")
       ELSE IF calOk THEN Goto("app_wake") ELSE FailTo("end")
  /\ UNCHANGED <<st, session, locks, usecases, hw>> /\ CalFrame

ApplyWake ==
  /\ pcC = "app_wake"
  /\ \/ WakeDone(TRUE) /\ pcC' = "apply" /\ amp' = FirstAmp /\ UNCHANGED <<back, tries, cret>>
     \/ WakeFails(TRUE) /\ PlaySilence("end", "EINVAL")
  /\ UNCHANGED <<st, session, locks, usecases, dsp>> /\ CalFrame

\* Mutant: the result of the final silence replaces the error.
ApplyForgiving ==
  /\ pcC = "apply"
  /\ \/ written' = [written EXCEPT ![amp] = cal[amp]]
     \/ UNCHANGED written \/ written' = [written EXCEPT ![amp] = "partial"]
  /\ PlaySilence("end", "ok")
  /\ UNCHANGED <<st, session, locks, usecases, wake, fw, dspErr>> /\ CalFrame

\* CAL_R, then the status and the checksum, under either of their names.
Apply ==
  /\ pcC = "apply"
  /\ \/ /\ written' = [written EXCEPT ![amp] = cal[amp]]
        /\ IF amp = "R" THEN amp' = "L" /\ UNCHANGED pcC ELSE pcC' = "rest" /\ UNCHANGED amp
        /\ UNCHANGED <<back, tries, cret>>
     \/ /\ UNCHANGED written \/ written' = [written EXCEPT ![amp] = "partial"]
        /\ PlaySilence("end", "EINVAL")
  /\ UNCHANGED <<st, session, locks, usecases, wake, fw, dspErr>> /\ CalFrame

Rest ==
  /\ pcC = "rest"
  /\ \/ WakeDone(FALSE) /\ PlaySilence("end", "ok")
     \/ WakeFails(FALSE) /\ PlaySilence("end", "EINVAL")
  /\ UNCHANGED <<st, session, locks, usecases, dsp>> /\ CalFrame

\* The verdict on the calibration, under adev->lock.
CalEnd ==
  /\ pcC = "end" /\ adevLock = None
  /\ st' = IF cret = "ok" THEN "IDLE" ELSE "CALIBRATION_ERROR"
  /\ Goto("done")
  /\ UNCHANGED <<session, locks, usecases, hw>> /\ CalFrame

------------------------------------------------------------------------------
(* amp_enable_devices(device, TRUE), on an audio HAL thread.  The audio    *)
(* HAL makes the call with adev->lock held and its use case in the list.   *)

StreamFrame == UNCHANGED <<session, mpc, pcC, thread>>
At(s, p) == pc' = [pc EXCEPT ![s] = p]

\* Both locks are given back: fb_prot_mutex whoever it belongs to.
Return(s, p) == At(s, p) /\ mutex' = None /\ adevLock' = None

EnableCall(s) ==
  /\ pc[s] = "off" /\ mpc = "up"
  /\ adevLock = None /\ adevLock' = s
  /\ usecases' = usecases \cup {s}
  /\ At(s, "en_lock")
  /\ UNCHANGED <<st, mutex, detector, hw, early>> /\ StreamFrame

EnableLock(s) ==
  /\ pc[s] = "en_lock" /\ mutex = None
  /\ mutex' = s /\ At(s, "en_check")
  /\ UNCHANGED <<st, adevLock, usecases, detector, hw, early>> /\ StreamFrame

\* A check made before the calibration thread's first store reads INIT.
NoteEarly == early' = (early \/ (st = "INIT" /\ pcC = "begin"))

\* Mutants: one of the two states is allowed; the early return keeps the
\* mutex.
EnableCheckError(s) ==
  /\ pc[s] = "en_check"
  /\ IF st = "CALIBRATION_ERROR" THEN Return(s, "on") ELSE At(s, "en_wake") /\ UNCHANGED locks
  /\ NoteEarly /\ UNCHANGED <<st, usecases, detector, hw>> /\ StreamFrame

EnableCheckCalibrating(s) ==
  /\ pc[s] = "en_check"
  /\ IF st = "CALIBRATING" THEN Return(s, "on") ELSE At(s, "en_wake") /\ UNCHANGED locks
  /\ NoteEarly /\ UNCHANGED <<st, usecases, detector, hw>> /\ StreamFrame

EnableCheckKeepsMutex(s) ==
  /\ pc[s] = "en_check"
  /\ IF st \in {"CALIBRATING", "CALIBRATION_ERROR"}
       THEN At(s, "on") /\ adevLock' = None /\ UNCHANGED mutex
       ELSE At(s, "en_wake") /\ UNCHANGED locks
  /\ NoteEarly /\ UNCHANGED <<st, usecases, detector, hw>> /\ StreamFrame

\* Forbidden while calibrating and after an error; the caller is not told.
\* INIT is not forbidden: until the calibration thread runs, a stream passes.
EnableCheck(s) ==
  /\ pc[s] = "en_check"
  /\ IF st \in {"CALIBRATING", "CALIBRATION_ERROR"}
       THEN Return(s, "on")
       ELSE At(s, "en_wake") /\ UNCHANGED locks
  /\ NoteEarly /\ UNCHANGED <<st, usecases, detector, hw>> /\ StreamFrame

\* The result of cirrus_set_force_wake is ignored.
EnableWake(s) ==
  /\ pc[s] = "en_wake" /\ At(s, "en_play")
  /\ WakeDone(TRUE) \/ WakeFails(TRUE)
  /\ UNCHANGED <<st, locks, usecases, detector, dsp, early>> /\ StreamFrame

\* A failure-detection thread starts if the state is IDLE; pthread_create
\* may fail, and the result is ignored.
SpawnDetector ==
  \/ \E d \in Detectors :
       /\ dpc[d] = "none" /\ dpc' = [dpc EXCEPT ![d] = "lock"]
       /\ lastDet' = d
       /\ UNCHANGED <<dret, dtry>>
  \/ UNCHANGED detector

EnablePlay(s) ==
  /\ pc[s] = "en_play"
  /\ IF st = "IDLE" THEN SpawnDetector ELSE UNCHANGED detector
  /\ st' = "PLAYBACK"
  /\ Return(s, "on")
  /\ UNCHANGED <<usecases, hw, early>> /\ StreamFrame

(* amp_enable_devices(device, FALSE).                                      *)

DisableCall(s) ==
  /\ pc[s] = "on" /\ adevLock = None
  /\ adevLock' = s /\ At(s, "dis_lock")
  /\ UNCHANGED <<st, mutex, usecases, detector, hw, early>> /\ StreamFrame

DisableLock(s) ==
  /\ pc[s] = "dis_lock" /\ mutex = None
  /\ mutex' = s /\ At(s, "dis_check")
  /\ UNCHANGED <<st, adevLock, usecases, detector, hw, early>> /\ StreamFrame

\* Mutant: the state unconditionally goes back to IDLE.
DisableUnchecked(s) ==
  /\ pc[s] = "dis_check"
  /\ At(s, "dis_idle")
  /\ UNCHANGED <<st, locks, usecases, detector, hw, early>> /\ StreamFrame

DisableCheck(s) ==
  /\ pc[s] = "dis_check"
  /\ IF st # "PLAYBACK"
       THEN Return(s, "off") /\ usecases' = usecases \ {s}
       ELSE At(s, "dis_idle") /\ UNCHANGED <<locks, usecases>>
  /\ UNCHANGED <<st, detector, hw, early>> /\ StreamFrame

DisableIdle(s) ==
  /\ pc[s] = "dis_idle"
  /\ st' = "IDLE"
  /\ Return(s, "off") /\ usecases' = usecases \ {s}
  /\ UNCHANGED <<detector, hw, early>> /\ StreamFrame

------------------------------------------------------------------------------
(* cirrus_failure_detect_thread.                                           *)

DetFrame == UNCHANGED <<st, session, adevLock, usecases, mpc, pc, pcC, thread, lastDet, early>>
DetAt(d, p) == dpc' = [dpc EXCEPT ![d] = p]

DetectLock(d) ==
  /\ dpc[d] = "lock" /\ mutex = None
  /\ mutex' = d /\ DetAt(d, "wake")
  /\ UNCHANGED <<dret, dtry, hw>> /\ DetFrame

\* A destroyed mutex: bionic aborts the process.
DetectDestroyed(d) ==
  /\ dpc[d] = "lock" /\ mutex = Destroyed
  /\ Reborn /\ UNCHANGED hw

DetRet(d, r) == dret' = [dret EXCEPT ![d] = r]

\* Mutant: a failed check is repeated without end.
CheckAgain(d) == DetAt(d, "wake") /\ DetRet(d, "EINVAL") /\ UNCHANGED dtry

\* A check that fails is made once more after a sleep; the second failure
\* is fatal.
CheckFailed(d) ==
  /\ DetAt(d, IF dtry[d] = 1 THEN "wake" ELSE "reset")
  /\ dtry' = [dtry EXCEPT ![d] = 2]
  /\ DetRet(d, "EINVAL")

\* cirrus_check_error_state, three mixer accesses: wake up,
DetectWake(d) ==
  /\ dpc[d] = "wake"
  /\ \/ WakeDone(TRUE) /\ DetAt(d, "read") /\ DetRet(d, "ok") /\ UNCHANGED dtry
     \/ WakeFails(TRUE) /\ CheckFailed(d)
  /\ UNCHANGED <<mutex, dsp>> /\ DetFrame

\* read CSPL_ERRORNO of each amplifier up to the first failure or error,
DetectRead(d) ==
  /\ dpc[d] = "read" /\ DetAt(d, "off")
  /\ \/ dspErr = {} /\ DetRet(d, "ok")
     \/ dspErr # {} /\ DetRet(d, "EREMOTEIO")
     \/ DetRet(d, "EINVAL")
  /\ UNCHANGED <<mutex, dtry, hw>> /\ DetFrame

\* and let go of the wakeup, whose result replaces what the read found.
DetectOff(d) ==
  /\ dpc[d] = "off"
  /\ \/ /\ WakeDone(FALSE)
        /\ DetAt(d, "none") /\ DetRet(d, "ok") /\ dtry' = [dtry EXCEPT ![d] = 1]
        /\ mutex' = None
     \/ WakeFails(FALSE) /\ CheckFailed(d) /\ UNCHANGED mutex
  /\ UNCHANGED dsp /\ DetFrame

\* CCM Reset of every amplifier that has the control and takes it, which
\* stops its firmware.
DetectReset(d) ==
  /\ dpc[d] = "reset" /\ DetAt(d, "abort")
  /\ \E A \in SUBSET Amps :
       /\ fw' = [a \in Amps |-> IF a \in A THEN "none" ELSE fw[a]]
       /\ written' = [a \in Amps |-> IF a \in A THEN "none" ELSE written[a]]
       /\ dspErr' = dspErr \ A
  /\ UNCHANGED <<mutex, dret, dtry, wake>> /\ DetFrame

DetectAbort(d) == dpc[d] = "abort" /\ Reborn /\ UNCHANGED hw

------------------------------------------------------------------------------
CalThread ==
  \/ CalBegin \/ CalFwMono \/ CalFwLeft \/ CalFwRight \/ CalWake \/ CalAmbient
  \/ CalRead \/ CalRewake \/ SilenceCheck \/ SilenceEnable \/ SilenceDisable \/ SilenceEnd
  \/ LoadProtection \/ Verdict \/ ApplyWake \/ Apply \/ Rest \/ CalEnd

\* A call that has begun, up to its return.
InCall(s) ==
  \/ EnableLock(s) \/ EnableCheck(s) \/ EnableWake(s) \/ EnablePlay(s)
  \/ DisableLock(s) \/ DisableCheck(s) \/ DisableIdle(s)

Stream(s) == EnableCall(s) \/ DisableCall(s) \/ InCall(s)

Detector(d) ==
  \/ DetectLock(d) \/ DetectDestroyed(d) \/ DetectWake(d) \/ DetectRead(d)
  \/ DetectOff(d) \/ DetectReset(d) \/ DetectAbort(d)

Main == CalibFails \/ AmpCalib \/ Close \/ JoinDetector \/ JoinCal \/ Restart

Next ==
  \/ Main \/ CalThread
  \/ \E s \in Streams : Stream(s)
  \/ \E d \in Detectors : Detector(d)
  \/ \E a \in Amps : DspFault(a)

Spec == Init /\ [][Next]_vars

------------------------------------------------------------------------------
(* Fairness, one condition per thread.  Strong, because a thread that      *)
(* waits for a mutex others take and give back is to get it some time;     *)
(* a thread is at one place at a time, so elsewhere it says no more than   *)
(* that a thread that can run does.  Nothing obliges the audio HAL to      *)
(* call, to stop a stream or to close the device, or the DSP to fail.      *)

Fairness ==
  /\ SF_vars(CalThread)
  /\ \A s \in Streams : SF_vars(InCall(s))
  /\ \A d \in Detectors : SF_vars(Detector(d))

FairSpec == Spec /\ Fairness

------------------------------------------------------------------------------
(* Properties.                                                             *)

CalPlaces == {"none", "begin", "calfw_M", "calfw_L", "calfw_R", "cal_wake",
  "cal_ambient", "cal_read", "cal_rewake", "sil_check", "sil_enable", "sil_lock",
  "sil_unlock", "load", "verdict", "app_wake", "apply", "rest", "end", "done"}

\* Types: the session record, the locks, every thread's place and the
\* amplifiers' controls hold the values the code gives them.
TypeOK ==
  /\ st \in {"INIT", "CALIBRATING", "CALIBRATION_ERROR", "IDLE", "PLAYBACK"}
  /\ mutex \in Streams \cup Detectors \cup {Cal, None, Destroyed}
  /\ adevLock \in Streams \cup {None}
  /\ usecases \subseteq Streams \cup {Cal}
  /\ isStereo \in BOOLEAN /\ calOk \in BOOLEAN
  /\ cal \in [Amps -> {"zero", "stored", "measured"}]
  /\ calValid \subseteq Amps
  /\ mpc \in {"open", "up", "join_det", "join_cal", "closed"}
  /\ pc \in [Streams -> {"off", "en_lock", "en_check", "en_wake", "en_play", "on",
                         "dis_lock", "dis_check", "dis_idle"}]
  /\ pcC \in CalPlaces /\ back \in {"cal_read", "end"}
  /\ amp \in {"L", "R", "M"} /\ tries \in 0 .. MaxTries - 1
  /\ cret \in {"ok", "EINVAL", "EAGAIN", "EIO"}
  /\ dpc \in [Detectors -> {"none", "lock", "wake", "read", "off", "reset", "abort"}]
  /\ dret \in [Detectors -> {"ok", "EREMOTEIO", "EINVAL"}]
  /\ dtry \in [Detectors -> {1, 2}]
  /\ lastDet \in Detectors \cup {None}
  /\ wake \subseteq Amps /\ dspErr \subseteq Amps
  /\ fw \in [Amps -> {"none", "Calibration", "Protection"}]
  /\ written \in [Amps -> {"none", "partial", "zero", "stored", "measured"}]
  /\ early \in BOOLEAN

\* The calibration thread's work is over, or amp_calib never started it.
CalOver == pcC = "done" \/ (pcC = "none" /\ mpc # "open")

StreamHolds(s) == pc[s] \in {"en_check", "en_wake", "en_play", "dis_check", "dis_idle"}
DetectorHolds(d) == dpc[d] \in {"wake", "read", "off", "reset", "abort"}

\* No audio HAL thread is past the check of cs35l41_enable_output, no output
\* counts as playing, no failure detection exists.
QuietHAL ==
  /\ \A s \in Streams : pc[s] \notin {"en_wake", "en_play", "dis_idle"}
  /\ \A d \in Detectors : dpc[d] = "none"
  /\ st # "PLAYBACK"

\* From the store of CALIBRATING to the verdict nobody but the calibration
\* thread drives the DSP (amplifier/audio_amplifier.c:1330: "If we are still
\* in calibration phase, we cannot play audio...").
NoPlaybackInCalibration == pcC \notin {"none", "begin", "done"} => QuietHAL

\* The only way to break that is to get past the check before CALIBRATING is
\* stored: else nobody drives the DSP from amp_calib to the verdict, whatever
\* calls come meanwhile, what they read before the store included.
QuietUnlessEarly == ~CalOver /\ ~early => QuietHAL

\* Once calibration is over fb_prot_mutex belongs to exactly the thread that
\* is between its lock and unlock calls, in spite of the calibration
\* thread's unlocks of a mutex that others held; and amp_dev_close destroys
\* it only when nobody holds it.  A stream that came early may leave a
\* failure detector inside that does not own it.
MutexSound ==
  CalOver /\ ~early =>
    /\ mutex # Cal
    /\ \A s \in Streams : StreamHolds(s) <=> mutex = s
    /\ \A d \in Detectors : DetectorHolds(d) <=> mutex = d

\* No two threads are between lock and unlock of fb_prot_mutex at a time.
MutualExclusion ==
  /\ Cardinality({s \in Streams : StreamHolds(s)}) +
     Cardinality({d \in Detectors : DetectorHolds(d)}) <= 1
  /\ pcC = "sil_unlock" => \A s \in Streams : ~StreamHolds(s)

\* Calibration succeeded, and no failure detector has reset the DSP on its
\* way to abort().
Usable ==
  /\ pcC = "done" /\ st \in {"IDLE", "PLAYBACK"}
  /\ \A d \in Detectors : dpc[d] # "abort"

\* When the HAL lets audio through after calibrating, every amplifier runs
\* the Protection firmware, however many streams, downloads and failure
\* detections came before.
PlaybackProtected == Usable => \A a \in Amps : fw[a] = "Protection"

\* When the HAL lets audio through, either every amplifier's Protection
\* firmware has the calibration in that amplifier's record, or (stereo, not
\* all of them valid) none has any: never one speaker of two, never half of
\* a record.
CalibrationApplied ==
  Usable => IF ~isStereo \/ calValid = Amps
              THEN \A a \in Amps : written[a] = cal[a]
              ELSE \A a \in Amps : written[a] = "none"

\* A failed calibration is final: while the process lives no stream's
\* enable or disable, whatever it read before, takes the state out of
\* CALIBRATION_ERROR.
ErrorIsFinal ==
  [][st = "CALIBRATION_ERROR" => st' = "CALIBRATION_ERROR" \/ mpc' = "open"]_vars

\* From before the silence is played until Protection is loaded, a freshly
\* calibrated amplifier is kept awake
\* (amplifier/audio_amplifier.c:835: "It HAS TO stay awake until
\* Protection is loaded!!!"), unless a stream came early: then a failure
\* detector may take the wakeup away.
AwakeUntilProtected ==
  ~early /\ \/ pcC \in {"cal_ambient", "cal_read", "cal_rewake"}
            \/ pcC \in {"sil_check", "sil_enable", "sil_lock", "sil_unlock"} /\ back = "cal_read"
            \/ pcC \in {"load", "verdict"} /\ \E a \in Amps : cal[a] = "measured"
  => wake = Amps

\* A calibration measured by this process reaches the Protection firmware.
FreshCalibrationApplied ==
  Usable => \A a \in Amps : cal[a] = "measured" => written[a] = "measured"

\* Zeroes, as an empty TA partition yields, are never written to a
\* Protection firmware as a calibration.
ZeroNeverWritten == \A a \in Amps : written[a] # "zero"

\* A failure detector that read a DSP error does not end before it checked
\* again.
ErrorIsCheckedAgain ==
  [][\A d \in Detectors : dpc[d] = "off" /\ dret[d] = "EREMOTEIO" => dpc'[d] # "none"]_vars

\* A calibration thread ends, so that amp_dev_close can join it, or the
\* failure detector of a stream that came early ends the process.
CalibrationTerminates == pcC = "begin" ~> pcC = "done" \/ mpc = "open"

\* Every call of amp_enable_devices returns to the audio HAL.
CallsReturn == \A s \in Streams : pc[s] \notin {"on", "off"} ~> pc[s] \in {"on", "off"}

\* Every failure-detection thread gets its turn and ends, by itself or with
\* the process.
DetectorsEnd == \A d \in Detectors : dpc[d] # "none" ~> dpc[d] = "none"

\* The HAL implements AmpControl: calibration is pending from the store of
\* CALIBRATING on, and it settles when the calibration thread stores its
\* verdict, or when amp_calib fails and leaves the output to the audio HAL.
Control == INSTANCE AmpControl WITH
  phase <- IF ~CalOver THEN IF pcC \in {"none", "begin"} THEN "new" ELSE "pending"
           ELSE IF st = "CALIBRATION_ERROR" THEN "refused" ELSE "usable",
  playing <- st = "PLAYBACK"

ImplementsControl == Control!Spec
==============================================================================
