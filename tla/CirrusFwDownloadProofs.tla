------------------------ MODULE CirrusFwDownloadProofs ------------------------
(***************************************************************************)
(* Theorems about CirrusFwDownload, for any number of waits and retries:   *)
(* the bounds of its loops and of a whole download, and that success means *)
(* a firmware loaded anew.                                                 *)
(***************************************************************************)
EXTENDS CirrusFwDownload, TLAPS

\* What the controls say of each other: a control still to be obeyed reads
\* 1, and nothing runs or loads while the switch is off.
Wiring ==
  /\ "DSP Booted" \in stopping => running # "none"
  /\ "DSP1 Preload Switch" \in stopping => preload
  /\ running # "none" \/ loading # "none" => preload

\* A wait that goes on has a read left.
Waiting == pc \in {"wait_booted", "wait_preload"} => waits < MaxWaits

\* How far a download has come whose waits did not run out.
Progress ==
  /\ result = "ok" => pc = "idle"
  /\ ~gaveUp /\ pc \in {"select", "send"} => ~preload
  /\ ~gaveUp /\ pc = "poll" =>
       /\ stopping = {}
       /\ \/ loading = fw_type /\ sent /\ running = "none"
          \/ loading = "none" /\ running = fw_type /\ fresh
  /\ ~gaveUp /\ result = "ok" => stopping = {} /\ loading = "none" /\ running = fw_type /\ fresh
  /\ pc = "send" => selected = fw_type

Loops == Counters /\ Waiting

Values == CodeValues /\ DspValues /\ Wiring /\ Progress

IInv == Loops /\ Values

\* The assumption on the bounds, as the steps below use it.
LEMMA Bounds == MaxWaits \in Nat /\ 0 < MaxWaits /\ MaxRetry \in Nat
  BY BoundAssumption

\* Initially an earlier process's firmware may run, and no download has
\* begun.
LEMMA InitIInv == Init => IInv
<1> SUFFICES ASSUME Init PROVE IInv
  OBVIOUS
<1> USE DEF Init, Firmware, Controls
<1>1. Loops
  BY Bounds DEF Loops, Counters, Waiting
<1>2. CodeValues
  BY DEF CodeValues
<1>3. DspValues
  BY DEF DspValues
<1>4. Wiring /\ Progress
  BY DEF Wiring, Progress
<1>5. QED
  BY <1>1, <1>2, <1>3, <1>4 DEF IInv, Values

\* The loops end within their bounds.
LEMMA NextLoops == Loops /\ [Next]_vars => Loops'
<1> SUFFICES ASSUME Loops, [Next]_vars PROVE Loops'
  OBVIOUS
<1> USE Bounds DEF Loops, Counters, Waiting
<1>1. CASE Call
  BY <1>1 DEF Call
<1>2. CASE Fails
  BY <1>2 DEF Fails, Return
<1>3. CASE ShutDown
  <2>1. CASE \E ctl \in Controls : Clear(ctl, "booted", "wait_booted") \/ Clear(ctl, "preload", "wait_preload")
    BY <2>1 DEF Clear
  <2>2. ASSUME NEW ctl, NEW p, NEW q, Wait(ctl, p, q),
               p \in {"wait_booted", "wait_preload"}, q \in {"preload", "select"}
        PROVE  Loops'
    <3>1. waits < MaxWaits /\ UNCHANGED retry
      BY <2>2 DEF Wait
    <3>2. CASE UNCHANGED waits
      BY <2>2, <3>1, <3>2 DEF Wait
    <3>3. CASE waits' = waits + 1 /\ (waits' < MaxWaits \/ pc' = q)
      BY <2>2, <3>1, <3>3
    <3>4. QED
      BY <2>2, <3>2, <3>3 DEF Wait
  <2>3. QED
    BY <1>3, <2>1, <2>2 DEF ShutDown, Controls
<1>4. CASE Select
  BY <1>4 DEF Select, Goto, Return
<1>5. CASE Send
  BY <1>5 DEF Send, Goto
<1>6. CASE Retry
  BY <1>6 DEF Retry, Return
<1>7. CASE Success
  BY <1>7 DEF Success, Return
<1>8. CASE UNCHANGED code
  BY <1>8 DEF code
<1>9. QED
  BY <1>1, <1>2, <1>3, <1>4, <1>5, <1>6, <1>7, <1>8 DEF Next, Download, Driver, Boots, Stops, vars

\* Every step keeps the values right.
LEMMA NextValues == Values /\ [Next]_vars => Values'
<1> SUFFICES ASSUME Values, [Next]_vars PROVE Values'
  OBVIOUS
<1> USE DEF Values, CodeValues, DspValues, Wiring, Progress
<1>1. CASE Call
  <2>e. CodeValues'
    BY <1>1 DEF Call
  <2>f. DspValues'
    BY <1>1 DEF Call
  <2>b. Wiring'
    BY <1>1 DEF Call
  <2>c. Progress'
    BY <1>1 DEF Call
  <2>d. QED
    BY <2>b, <2>c, <2>e, <2>f
<1>2. CASE Fails
  BY <1>2 DEF Fails, Return, dsp
<1>3. CASE ShutDown
  <2>1. CASE Clear("DSP Booted", "booted", "wait_booted")
    <3>e. CodeValues'
      BY <2>1 DEF Clear, Reads, Controls
    <3>f. DspValues'
      BY <2>1 DEF Clear, Reads, Controls
    <3>b. Wiring'
      BY <2>1 DEF Clear, Reads, Controls
    <3>c. Progress'
      BY <2>1 DEF Clear, Reads, Controls
    <3>d. QED
      BY <3>b, <3>c, <3>e, <3>f
  <2>2. CASE Wait("DSP Booted", "wait_booted", "preload")
    <3>e. CodeValues'
      BY <2>2 DEF Wait, Reads, dsp
    <3>f. DspValues'
      BY <2>2 DEF Wait, Reads, dsp
    <3>b. Wiring'
      BY <2>2 DEF Wait, Reads, dsp
    <3>c. Progress'
      BY <2>2 DEF Wait, Reads, dsp
    <3>d. QED
      BY <3>b, <3>c, <3>e, <3>f
  <2>3. CASE Clear("DSP1 Preload Switch", "preload", "wait_preload")
    <3>e. CodeValues'
      BY <2>3 DEF Clear, Reads, Controls
    <3>f. DspValues'
      BY <2>3 DEF Clear, Reads, Controls
    <3>b. Wiring'
      BY <2>3 DEF Clear, Reads, Controls
    <3>c. Progress'
      BY <2>3 DEF Clear, Reads, Controls
    <3>d. QED
      BY <3>b, <3>c, <3>e, <3>f
  <2>4. CASE Wait("DSP1 Preload Switch", "wait_preload", "select")
    <3>e. CodeValues'
      BY <2>4 DEF Wait, Reads, dsp
    <3>f. DspValues'
      BY <2>4 DEF Wait, Reads, dsp
    <3>b. Wiring'
      BY <2>4 DEF Wait, Reads, dsp
    <3>c. Progress'
      BY <2>4 DEF Wait, Reads, dsp
    <3>d. QED
      BY <3>b, <3>c, <3>e, <3>f
  <2>5. QED
    BY <1>3, <2>1, <2>2, <2>3, <2>4 DEF ShutDown
<1>4. CASE Select
  BY <1>4 DEF Select, Goto, Return
<1>5. CASE Send
  <2>a. CodeValues'
    BY <1>5 DEF Send, Goto, Firmware
  <2>b. DspValues'
    BY <1>5 DEF Send, Goto, Firmware
  <2>c. Wiring'
    BY <1>5 DEF Send, Goto, Firmware
  <2>d. Progress'
    <3>1. ASSUME ~gaveUp PROVE ~preload /\ running = "none" /\ "DSP Booted" \notin stopping
      BY <1>5, <3>1 DEF Send
    <3>2. ASSUME ~gaveUp PROVE stopping' = {}
      BY <1>5, <3>1, <3>2 DEF Send, Controls
    <3>3. ASSUME ~gaveUp PROVE loading' = fw_type /\ sent' /\ running' = "none"
      BY <1>5, <3>1, <3>3 DEF Send
    <3>4. QED
      BY <1>5, <3>2, <3>3 DEF Send, Goto
  <2>e. QED
    BY <2>a, <2>b, <2>c, <2>d
<1>6. CASE Retry
  <2>e. CodeValues'
    BY <1>6 DEF Retry, Return, dsp
  <2>f. DspValues'
    BY <1>6 DEF Retry, Return, dsp
  <2>b. Wiring'
    BY <1>6 DEF Retry, Return, dsp
  <2>c. Progress'
    BY <1>6 DEF Retry, Return, dsp
  <2>d. QED
    BY <2>b, <2>c, <2>e, <2>f
<1>7. CASE Success
  BY <1>7 DEF Success, Return, dsp, Firmware
<1>8. CASE Boots
  BY <1>8 DEF Boots, code
<1>9. ASSUME NEW ctl \in Controls, Stops(ctl) PROVE Values'
  BY <1>9 DEF Stops, code
<1>10. CASE UNCHANGED vars
  BY <1>10 DEF vars, code, dsp
<1>11. QED
  BY <1>1, <1>2, <1>3, <1>4, <1>5, <1>6, <1>7, <1>8, <1>9, <1>10 DEF Next, Download, Driver

\* The invariant holds throughout.
THEOREM Invariance == Spec => []IInv
<1>1. IInv /\ [Next]_vars => IInv'
  BY NextLoops, NextValues DEF IInv
<1>2. QED
  BY <1>1, InitIInv, PTL DEF Spec

\* The loops of cirrus_mixer_wait_for_setting and of retry_fw stay within
\* their bounds.
THEOREM DownloadTypes == Spec => []TypeOK
<1>1. IInv => TypeOK
  BY DEF IInv, Loops, Values, TypeOK
<1>2. QED
  BY <1>1, Invariance, PTL

\* cirrus_exec_fw_download returns 0 only after it loaded the firmware anew,
\* if no wait for the DSP ran out; and the firmware keeps running.
THEOREM FreshSuccess == Spec => []SuccessIsFresh
<1>1. IInv => SuccessIsFresh
  BY DEF IInv, Values, Progress, SuccessIsFresh
<1>2. QED
  BY <1>1, Invariance, PTL

\* How many steps a download has left at most, over every read of a control.
Left ==
  CASE pc = "booted"       -> 5 + 2 * MaxWaits + (MaxRetry - retry)
    [] pc = "wait_booted"  -> 4 + 2 * MaxWaits - waits + (MaxRetry - retry)
    [] pc = "preload"      -> 4 + MaxWaits + (MaxRetry - retry)
    [] pc = "wait_preload" -> 3 + MaxWaits - waits + (MaxRetry - retry)
    [] pc = "select"       -> 3 + (MaxRetry - retry)
    [] pc = "send"         -> 2 + (MaxRetry - retry)
    [] pc = "poll"         -> 1 + (MaxRetry - retry)
    [] OTHER               -> 0

\* Every step of a download uses up what it has left; the DSP and its driver
\* give it no more.
Advances == IF Download THEN Left' \in 0 .. Left - 1 ELSE Left' > Left => Call

LEMMA LeftType ==
  ASSUME Loops, CodeValues PROVE Left \in Nat /\ (pc # "idle" => Left > 0)
<1>1. MaxWaits - waits \in Nat /\ MaxRetry - retry \in Nat
  BY Bounds DEF Loops, Counters
<1>2. PICK w \in Nat, r \in Nat : w = MaxWaits - waits /\ r = MaxRetry - retry
  BY <1>1
<1>3. waits \in Nat /\ retry \in Nat /\ MaxWaits = waits + w /\ MaxRetry = retry + r
  BY <1>2, Bounds DEF Loops, Counters
<1>4. QED
  BY <1>2, <1>3 DEF Left, CodeValues

LEMMA DownloadCounts == ASSUME Loops, CodeValues, Download PROVE Left' < Left
<1> USE Bounds DEF Loops, Counters, Waiting
<1>1. CASE Fails
  <2>1. Left' = 0 /\ Left > 0
    BY <1>1, LeftType DEF Fails, Return, Left
  <2>2. QED
    BY <2>1
<1>2. ASSUME NEW ctl, Clear(ctl, "booted", "wait_booted") \/ Clear(ctl, "preload", "wait_preload")
      PROVE  Left' < Left
  BY <1>2 DEF Clear, Left
<1>3. ASSUME NEW ctl, Wait(ctl, "wait_booted", "preload") \/ Wait(ctl, "wait_preload", "select")
      PROVE  Left' < Left
  <2>1. /\ UNCHANGED retry /\ waits \in Nat /\ waits < MaxWaits
        /\ \/ pc = "wait_booted" /\ pc' \in {"wait_booted", "preload"}
           \/ pc = "wait_preload" /\ pc' \in {"wait_preload", "select"}
        /\ pc' = pc => waits' = waits + 1
    BY <1>3 DEF Wait
  <2>2. QED
    BY <2>1 DEF Left
<1>4. CASE Select
  <2>1. pc = "select" /\ pc' \in {"send", "idle"} /\ UNCHANGED <<waits, retry>>
    BY <1>4 DEF Select, Goto, Return
  <2>2. QED
    BY <2>1 DEF Left
<1>5. CASE Send
  <2>1. pc = "send" /\ pc' = "poll" /\ UNCHANGED <<waits, retry>>
    BY <1>5 DEF Send, Goto
  <2>2. QED
    BY <2>1 DEF Left
<1>6. CASE Retry \/ Success
  <2>1. pc = "poll" /\ (pc' = "idle" \/ (pc' = "poll" /\ retry' = retry + 1))
    BY <1>6 DEF Retry, Success, Return
  <2>2. QED
    BY <2>1 DEF Left
<1>7. QED
  BY <1>1, <1>2, <1>3, <1>4, <1>5, <1>6 DEF Download, ShutDown

\* A download takes a bounded number of steps, which its two waits and its
\* retries fix, whatever the DSP does and whichever access fails.
THEOREM DownloadAdvances == Spec => [][Advances]_vars
<1>1. IInv => Left \in Nat
  BY LeftType DEF IInv, Values
<1>2. ASSUME IInv, Left \in Nat, Left' \in Nat, [Next]_vars PROVE Advances
  <2>1. Download => Left' < Left
    BY <1>2, DownloadCounts DEF IInv, Values
  <2>2. ~Download => Call \/ Left' = Left
    <3>1. UNCHANGED code => Left' = Left
      BY DEF code, Left
    <3>2. Driver => UNCHANGED code
      BY DEF Driver, Boots, Stops
    <3>3. QED
      BY <1>2, <3>1, <3>2 DEF Next, vars
  <2>3. QED
    BY <1>2, <2>1, <2>2 DEF Advances
<1>3. IInv /\ Left \in Nat /\ (Left \in Nat)' /\ [Next]_vars => Advances
  BY <1>2
<1>4. QED
  BY <1>1, <1>3, Invariance, PTL DEF Spec
==============================================================================
