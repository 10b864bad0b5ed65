--------------------------- MODULE CirrusFwDownload ---------------------------
(***************************************************************************)
(* cirrus_exec_fw_download (amplifier/audio_amplifier.c) step by step, on  *)
(* one amplifier's DSP, which carries out what its mixer controls are told *)
(* in its own time.  CirrusAmp takes the whole of it as one step (Booted   *)
(* and DownloadFails).                                                     *)
(*                                                                         *)
(* Every mixer access may fail, and ends the download if it does.  No      *)
(* caller asks for the reset (do_reset is 0).                              *)
(***************************************************************************)
EXTENDS Naturals

CONSTANTS MaxWaits,  \* reads of a control before a wait gives up: 10
          MaxRetry   \* CIRRUS_FIRMWARE_MAX_RETRY: 30

ASSUME BoundAssumption == MaxWaits \in Nat \ {0} /\ MaxRetry \in Nat

Firmware == {"Calibration", "Protection"}
Controls == {"DSP Booted", "DSP1 Preload Switch"}

VARIABLES
  pc,        \* place in cirrus_exec_fw_download
  fw_type,   \* the firmware asked for
  waits,     \* cirrus_mixer_wait_for_setting: i
  retry,     \* reads of CSPL_ENABLE that did not show the firmware
  result,    \* what the last download returned
  gaveUp,    \* history: has a wait of this download run out?
  running,   \* the firmware the DSP runs
  fresh,     \* history: was it loaded by this download?
  preload,   \* DSP1 Preload Switch
  stopping,  \* the controls set to 0 that the DSP has not obeyed yet
  selected,  \* DSP1 Firmware
  loading,   \* the firmware the driver is loading
  sent       \* history: was that load asked for by this download?

code == <<pc, fw_type, waits, retry, result, gaveUp>>
dsp  == <<running, fresh, preload, stopping, selected, loading, sent>>
vars == <<code, dsp>>

\* An earlier process may have left a firmware running.
Init ==
  /\ pc = "idle" /\ fw_type = "Protection" /\ waits = 0 /\ retry = 0
  /\ result = "none" /\ gaveUp = FALSE
  /\ running \in Firmware \cup {"none"} /\ preload = (running # "none")
  /\ fresh = FALSE /\ stopping = {} /\ selected = "Protection"
  /\ loading = "none" /\ sent = FALSE

------------------------------------------------------------------------------
(* The DSP and its driver.                                                 *)

\* What a read of a control of the list shows: is it still 1?
Reads(ctl) == IF ctl = "DSP Booted" THEN running # "none" ELSE preload

\* The DSP shuts down; the switch also ends a load.
Stops(ctl) ==
  /\ ctl \in stopping
  /\ running' = "none" /\ fresh' = FALSE
  /\ IF ctl = "DSP Booted" THEN stopping' = stopping \ {ctl} /\ UNCHANGED <<preload, loading, sent>>
                           ELSE stopping' = {} /\ preload' = FALSE /\ loading' = "none" /\ sent' = FALSE
  /\ UNCHANGED <<code, selected>>

\* A load ends with the firmware running; if its file is missing, it never
\* does.
Boots ==
  /\ loading # "none"
  /\ running' = loading /\ fresh' = sent
  /\ loading' = "none" /\ sent' = FALSE
  /\ UNCHANGED <<code, preload, stopping, selected>>

Driver == Boots \/ \E ctl \in Controls : Stops(ctl)

------------------------------------------------------------------------------
(* The download.                                                           *)

Call ==
  /\ pc = "idle" /\ pc' = "booted"
  /\ fw_type' \in Firmware
  /\ waits' = 0 /\ retry' = 0 /\ result' = "none" /\ gaveUp' = FALSE
  /\ fresh' = FALSE /\ sent' = FALSE
  /\ UNCHANGED <<running, preload, stopping, selected, loading>>

Return(r) == pc' = "idle" /\ result' = r /\ UNCHANGED <<fw_type, waits, retry, gaveUp>>
Goto(p) == pc' = p /\ UNCHANGED <<fw_type, waits, retry, result, gaveUp>>

\* A control is read or set, and that fails.
Fails == pc # "idle" /\ pc # "poll" /\ Return("error") /\ UNCHANGED dsp

\* A control is set to 0, at p, for a wait at q.
Clear(ctl, p, q) ==
  /\ pc = p /\ pc' = q /\ waits' = 0
  /\ stopping' = IF Reads(ctl) THEN stopping \cup {ctl} ELSE stopping
  /\ UNCHANGED <<fw_type, retry, result, gaveUp, running, fresh, preload, selected, loading, sent>>

\* Mutant: it is not waited for.
WaitNot(ctl, p, q) ==
  /\ pc = p /\ Goto(q) /\ UNCHANGED dsp

\* cirrus_mixer_wait_for_setting(ctl, 0, MaxWaits).  A wait that runs out
\* returns the value it read, which is not an error.
Wait(ctl, p, q) ==
  /\ pc = p /\ UNCHANGED <<fw_type, retry, result, dsp>>
  /\ \/ ~Reads(ctl) /\ pc' = q /\ UNCHANGED <<waits, gaveUp>>
     \/ /\ Reads(ctl) /\ waits' = waits + 1
        /\ IF waits' < MaxWaits THEN UNCHANGED <<pc, gaveUp>> ELSE pc' = q /\ gaveUp' = TRUE

ShutDown ==
  \/ Clear("DSP Booted", "booted", "wait_booted")
  \/ Wait("DSP Booted", "wait_booted", "preload")
  \/ Clear("DSP1 Preload Switch", "preload", "wait_preload")
  \/ Wait("DSP1 Preload Switch", "wait_preload", "select")

\* The PCM source is set after the firmware is selected, and may fail.
Select ==
  /\ pc = "select" /\ selected' = fw_type
  /\ Goto("send") \/ Return("error")
  /\ UNCHANGED <<running, fresh, preload, stopping, loading, sent>>

\* "Send the firmware!"  A switch that is still on makes no new load.
Send ==
  /\ pc = "send" /\ Goto("poll")
  /\ preload' = TRUE /\ stopping' = stopping \ {"DSP1 Preload Switch"}
  /\ IF preload THEN UNCHANGED <<loading, sent>> ELSE loading' = selected /\ sent' = TRUE
  /\ UNCHANGED <<running, fresh, selected>>

\* Mutants: one read too many; failed reads are not counted.
RetryOnceMore ==
  /\ pc = "poll"
  /\ IF retry <= MaxRetry THEN retry' = retry + 1 /\ UNCHANGED <<pc, fw_type, waits, result, gaveUp>>
                          ELSE Return("error")
  /\ UNCHANGED dsp

RetryForEver == pc = "poll" /\ UNCHANGED vars

\* CSPL_ENABLE, a control of the requested firmware, cannot be read or does
\* not show that the firmware runs.
Retry ==
  /\ pc = "poll"
  /\ IF retry < MaxRetry THEN retry' = retry + 1 /\ UNCHANGED <<pc, fw_type, waits, result, gaveUp>>
                         ELSE Return("error")
  /\ UNCHANGED dsp

\* It does.
Success == pc = "poll" /\ running = fw_type /\ Return("ok") /\ UNCHANGED dsp

Download == Fails \/ ShutDown \/ Select \/ Send \/ Retry \/ Success

Next == Call \/ Download \/ Driver

\* The thread runs; nothing is assumed of the DSP.
Spec == Init /\ [][Next]_vars
FairSpec == Spec /\ WF_vars(Download)

------------------------------------------------------------------------------
(* Properties.                                                             *)

\* Types: the loop counters stay within the bounds of their loops.
Counters == waits \in 0 .. MaxWaits /\ retry \in 0 .. MaxRetry

CodeValues ==
  /\ pc \in {"idle", "booted", "wait_booted", "preload", "wait_preload", "select", "send", "poll"}
  /\ fw_type \in Firmware /\ result \in {"none", "ok", "error"} /\ gaveUp \in BOOLEAN

DspValues ==
  /\ running \in Firmware \cup {"none"} /\ loading \in Firmware \cup {"none"}
  /\ fresh \in BOOLEAN /\ preload \in BOOLEAN /\ sent \in BOOLEAN
  /\ selected \in Firmware /\ stopping \subseteq Controls

TypeOK == Counters /\ CodeValues /\ DspValues

\* A download that returns 0 has loaded the firmware anew, and it keeps
\* running, unless a wait for the DSP to shut down ran out.
SuccessIsFresh == result = "ok" => gaveUp \/ (fresh /\ running = fw_type)

\* Every download returns, whatever the DSP does.
Returns == pc # "idle" ~> pc = "idle"
==============================================================================
