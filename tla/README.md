# TLA+ models of the Sony hardware HALs

This directory holds TLA+ models of the programs in this repository, the TLC
configurations that check them on small instances, and proofs for TLAPS. The
models are written from the source; where a comment in the code says one thing
and the code does another, a run shows the difference.

* `tlc -config AmpStereoTA.cfg MCCirrusAmp.tla` checks one run,
* `tlapm CirrusAmpProofs.tla` checks the proofs of one module,
* `PROJECT.json` lists components, runs, mutants, findings, hazards, theorems and
  the source lines each definition stands for.

## 1. Inventory

| Component | Source | Status |
|---|---|---|
| Cirrus amplifier HAL | `amplifier/audio_amplifier.c` | modelled but for file contents and `amp_module_open` |
| Vibrator HAL | `aidl/vibrator/cs40l25` | modelled but for amplitude, the GPIO settings of always-on effects and getters |
| Vibrator hardware access | `aidl/vibrator/common` | its poll loop by itself and, with failures of its writes, inside the vibrator model |
| LiveDisplay HAL | `aidl/livedisplay` | sunlight enhancement modelled; picture adjustment is a library's |
| Touch HAL | `aidl/touch` | modelled, both panels |
| XperiaParts creator mode | `packages/XperiaParts` | modelled but for the forwarding of white balance |
| Interfaces, stubs, Euicc, sepolicy, vintf | `interfaces`, `framework`, `packages/Euicc`, `sepolicy`, `vintf` | no behaviour to model |

### Cirrus amplifier HAL

*State.* One static `handle` (state, `is_stereo`, two calibration records,
`fb_prot_mutex`, the ids of the calibration thread and of the last failure
detector); `adev->lock` and `adev->usecase_list`, shared with the audio HAL; the
mixer controls of one or two CS35L41 amplifiers, each with a DSP that runs the
Calibration or the Protection firmware.

*Operations.* `amp_module_open`, `amp_calib` (fetches calibrations, or the means
to measure them, and creates the calibration thread), `amp_enable_devices` (from
any audio HAL thread), `amp_dev_close`; the calibration thread
`cirrus_do_calibration`; a thread `cirrus_failure_detect_thread` for every change
from IDLE to PLAYBACK.

*Interaction.* All threads share `handle` and the mixer. The calibration thread
calls back into the functions that streams use, to play silence through the
audio HAL's own paths. A failure detector that stays unhappy resets the DSP and
aborts the process, which init starts again; the amplifiers keep their state.

*What is hard.* The calibration thread takes part in a mutex protocol it only
half follows; `handle.state` is written under two different locks; downloads are
retried and may leave one amplifier of two behind; the amplifier must not
hibernate on the way; everything may be cut short by an abort.

*Correct means.* Nothing plays before calibration is over; what plays has
Protection on every amplifier and all calibrations or none; a failed calibration
is final; the mutex is owned by the thread that uses it; every thread ends.

### Vibrator HAL

*State.* `mAsyncHandle` (the future of the last vibration's waiter),
`mTotalDuration`, `mIsUnderExternalControl`, `mHapticPcm`, `mActiveId` (logged
only); in the driver: the effect that plays, `vibe_state`, `asp_enable`,
`dig_scale`, `f0_offset`, effect index, queue and duration.

*Operations.* `on`, `perform`, `compose`, `composePwle`, `off`,
`setExternalControl`, `setAmplitude`, `alwaysOnEnable`/`Disable`, getters, `dump`;
`waitForComplete` on a thread of its own for every accepted vibration.

*Interaction.* Two binder threads (`service.cpp`) call into one object without a
lock; waiters poll `vibe_state`, deactivate and call the client back.

*What is hard.* The old waiter deactivates whatever plays; a waiter reads a
shared duration at a time of its own; the driver starts and stops on its own;
external control is several writes, each of which may fail; a service that dies
leaves the driver as it was.

*Correct means.* One vibration at a time, each played to its end at its own
settings, never together with the ASP, and every client told.

### The others

* *Vibrator hardware access*: `HwApiBase` reads and writes the driver's nodes through
  streams that all threads share, under `mIoMutex`; `poll` sleeps on the same node
  through a descriptor of its own. Correct: a stop is neither missed nor made up.
* *LiveDisplay*: `SunlightEnhancement` reads `hbm_mode`, compares and writes it,
  on two binder threads without a lock; a buffered write whose failure shows only
  after the check. Correct: calls behave as if made one after the other on a switch.
* *Touch*: one thread over a panel's command node; a setting in two commands of
  which one may fail, read back in two more. Correct: a switch again, that may be
  taken for "off" when it cannot be read but never for "on".
* *Creator mode*: `CreatorModeUtils.setMode` makes three calls to two services and
  then stores the setting; a fragment calls it from a switch or from a warning's
  button, the boot receiver calls it again. The HAL or the process may die in
  between. Correct: setting, modes and switch agree.

Every hazard of this code, with its line, is in `PROJECT.json`.

## 2. Modules

| Module | What it is |
|---|---|
| `CirrusAmp` | the amplifier HAL: every thread, the session, locks, amplifiers |
| `AmpControl` | what it promises the audio HAL |
| `CirrusFwDownload` | the download of a firmware, which is one step of `CirrusAmp` |
| `CirrusFwDownloadProofs` | theorems about it |
| `MCCirrusAmp` | instances for TLC (a symmetry set) |
| `CirrusAmpProofs` | theorems about `CirrusAmp` |
| `VibratorHal` | the vibrator service: callers, waiters, driver, restarts |
| `HapticSlot` | what it promises its client |
| `MCVibratorHal` | instances for TLC |
| `VibratorHalProofs` | theorems about `VibratorHal` |
| `PwleQueue` | the queue of segments that `composePwle` makes of a composition |
| `MCPwleQueue`, `PwleQueueProofs` | an instance (a table of levels), theorems |
| `VibePoll`, `VibePollProofs` | `HwApiBase::poll`, which is one step of `VibratorHal`; theorems |
| `Switch` | what a HAL for one setting promises |
| `SunlightSwitch`, `TouchRate` | the sunlight and touch services, each with its refinement of `Switch` |
| `Switches`, `SwitchesProofs` | the two next to each other, for one run; theorems |
| `CreatorMode`, `CreatorModeProofs` | the settings screen, `setMode`, boots, deaths; theorems |

The models have one step per stretch of code between two points where another
thread can matter. A definition whose comment begins with *Mutant* is not part
of its model: it is the definition below it with a plausible mistake, kept to
show that the properties notice it.

### CirrusAmp

`handle.state` is `st`, `fb_prot_mutex` is `mutex`, `adev->lock` is `adevLock`; the
record's fields are `isStereo`, `calOk`, `cal`, `calValid`. `pcC`, `pc` and `dpc` are the
places of the calibration thread, of streams and of failure detectors.

| Code | Actions |
|---|---|
| `amp_calib` | `CalibFails`, `AmpCalib` (with `CalibFromTA` or `CalibFromFile`) |
| `cirrus_do_calibration` | `CalBegin`, then with measurement `CalFw...`, `CalWake`, `CalAmbient`, `CalRead`, `CalRewake`, then `LoadProtection`, `Verdict`, `ApplyWake`, `Apply`, `Rest`, `CalEnd` |
| `cirrus_play_silence` | `SilenceCheck`, `SilenceEnable`, `SilenceDisable`, `SilenceEnd` |
| `cs35l41_enable_output` | `EnableCall`, `EnableLock`, `EnableCheck`, `EnableWake`, `EnablePlay` |
| `cs35l41_disable_output` | `DisableCall`, `DisableLock`, `DisableCheck`, `DisableIdle` |
| `cirrus_failure_detect_thread` | `DetectLock`, `DetectWake`, `DetectRead`, `DetectOff`, `DetectReset`, `DetectAbort`; `DetectDestroyed` for a lock of the destroyed mutex |
| `amp_dev_close` | `Close`, `JoinDetector`, `JoinCal` |
| exit and restart | `Restart` |

The mixer and the DSP are external. A mixer access succeeds or fails; a write to
both amplifiers may fail after the left one. A download leaves the new firmware,
none, or what was there. Calibration data is `zero` (an empty TA unit), `stored` or
`measured`; what a firmware was given may also be `partial`.

A stream may come between `pthread_create` in `amp_calib` and the calibration thread's
store of CALIBRATING; the code lets it through. `early` is a history variable that
says whether one did: properties that such a stream breaks say what holds unless it
came. `Faulty` are the amplifiers whose DSP may raise an error.

### CirrusFwDownload

`cirrus_exec_fw_download` on one amplifier: `Clear` and `Wait` for the two controls
that shut the DSP down, `Select`, `Send`, then `Retry` and `Success` for the loop at
`retry_fw`; `Fails` is every jump to `exit`. The DSP obeys in its own time (`Stops`) or
never, and a load ends at any time (`Boots`) or never, also after the code gave up on
it. `gaveUp`, `fresh` and `sent` are history variables. `CirrusAmp` relies on two of its
results: a download that returns 0 leaves the firmware asked for, loaded anew, so
that nothing of an earlier session's calibration is left in it (`Booted`), and it
always returns.

### VibratorHal

A call is a model value; it also names the effect it starts, its duration and
its waiter. `wait[v]` is the place of v's waiter, `playing` and `phase` are the
driver. A call may use the identity of one that nothing refers to any more.

| Code | Actions |
|---|---|
| `on`, `perform`, `compose`, `composePwle` up to the private `on` | `On`, `Perform`, `Compose`, `ComposeSum`, `ComposePwle` |
| private `on` | `LeaveExternal`, `NotPending`, `StillPending`, `Activate`, `Pause`, `Launch`, `Join` |
| `off`, `setExternalControl` | `Off`, `SetExternalControl` (with `Scale`, `GiveOrTake`) |
| `alwaysOnEnable` | `AlwaysOnEnable`: like `perform` it stores a duration |
| `waitForComplete` | `ReadDuration`, `PollEnds`, `PollFails`, `Deactivate`, `OnComplete` |
| driver (external) | `EffectStarts`, `EffectTimeEnds`, `EffectStopsLate` |
| death and restart | `Restart` |

`Polling` is the build flag `USE_EFFECT_DURATION_POLLING` (set by default in
`aidl/vibrator/Android.bp`). A waiter may be as late as it likes; `replaced` is a history
variable with the calls whose duration another call replaced before their waiter had
read it. An effect starts within the 10 ms that `on` pauses: that is what the pause is for.
`Huge` is a duration that is negative as an `int32_t`, `Endless` the one that is -1, for which
`poll` waits without end.

### PwleQueue

One thread of the vibrator service, one step per primitive. `Active` and `Braking`
are the two cases of `composePwle`'s loop, `Invalid` its early returns, `Jump` the segment
without duration for a primitive that starts elsewhere, `Clip` the three limits of
a level, `Segment` the two functions that print one, with the rounding they do. Levels
are in hundredths, frequencies in half Hz, since the loop compares what was not
rounded and indexes the table with what was cut. `Launch` is the writes after `setPwle`,
whose results are ignored. What the driver does with the queue, and when, is
`VibratorHal`'s. `last` is history: it says which segments belong to which primitive.

### VibePoll

One action per line of `HwApiBase::poll` that may wait or that reads the driver: `Open`,
`Get` (under `mIoMutex`), `Wake`, `TimeOut`, `WaitFails`. The driver (external) changes `vibe_state`
first (`Change`) and notifies later (`Notify`); the waiter's descriptor is edge-triggered
and never read itself, so it is ready once at the start. `VibratorHal` relies on what is
shown here: a poll ends by the stop, by its time-out or by a failure (`PollEnds`,
`PollFails` there).

### SunlightSwitch, TouchRate

`SunRead` is `getEnabled`, by itself or called by `setEnabled`, which ends there when the
value is the right one; `SunWrite` is the rest of it. In `TouchRate`, `panel` tells the two
builds and, of the Samsung one, devices with `ro.vendor.display.low_touch_rate` apart;
`TouchSetFirst` and `TouchSetSecond` are the two commands of the others. The panels and
the death of the service are external. The abstract switch of a touch panel is
`HighRate`, what `getEnabled` would compute: a set that fails half-way may have had its
effect or not, which `Switch` allows of a call that fails.

### CreatorMode

All code runs on the main thread, so `step` is one place for `setMode`: `Apply` for each of the
three calls, `Store` for the setting. `Open`, `Tap`, `Tick`, `Ok`, `Cancel` are the fragment's
callbacks, `Boot` is the receiver. `link` is the lazy connection of the fragment's and of
the receiver's object, which is not made again when the HAL dies: the next call
ends the process (`Crash`). The HAL's modes do not outlive it; Android's colour mode does.

## 3. Runs

Passing runs:

| Run | Instance | Shows |
|---|---|---|
| `AmpStereoTA` | 2 amplifiers, TA build, 2 streams, 2 detectors, 2 tries | types, quiet calibration, mutex, protection, calibration, finality, refinement of `AmpControl` |
| `AmpMono` | 1 amplifier with DSP errors, measuring build, 1 stream, 1 detector, 2 tries, fair | what is measured is used, wakeup held until Protection through the silence; calibration, calls and detectors end |
| `AmpDownload` | one DSP, 3 waits, 3 retries, fair | success is a firmware loaded anew, loops are bounded, downloads return |
| `VibClient` | 1 caller, 4 calls, late waiters, no failures | each vibration to its end, no ASP, refinement of `HapticSlot` |
| `VibRestart` | build without polling, haptic PCM, failures, the service may die | one waiter that stops its own, an open PCM is remembered |
| `VibLive` | 2 callers, `huge`, `compose` and `composePwle` calls, failures, fair | own durations, clients are told, calls return, an ASP that is on is remembered |
| `Pwle` | compositions of up to 3, levels, frequencies and durations at their limits and beyond, table applied or not | the queue plays what was asked, levels are limited, the duration is told |
| `VibePoll` | 2 waiters, every time-out, fair | no stop slept through or made up, polls end |
| `Switches` | 2 threads in the sunlight service, one in the touch service, 3 kinds of panel | both implement `Switch` |
| `CreatorMode` | the whole component, fair | modes and setting agree, the switch tells, a boot applies |

Two runs are to find a violation, against a line of the repository's own (quoted under
"findings" in `PROJECT.json`). `AmpUnlockUnowned`: the calibration thread unlocks a mutex that
it does not hold, and then enters beside the stream that does (`MutualExclusion`; a second
stream cannot, since `adev->lock` admits one at a time). `AmpEarlyStream`: a stream that
comes before the calibration thread has stored CALIBRATING is let through and plays while
calibration is pending (`NoPlaybackInCalibration`).

Some properties leave out, or do not hold in, a case that the code has. Change a cfg as said
to see each fail; all of them are things the code does.

The amplifier:

* `QuietUnlessEarly`, `MutexSound` and `AwakeUntilProtected` without their `~early`, and
  `CalibrationTerminates` without its `mpc = "open"`: INIT lets streams through until the
  calibration thread runs (1338; the comment at 1330 says otherwise), and the failure
  detector of such a stream may abort the process. All other properties of the
  amplifier hold with such a stream as well;
* `ErrorIsCheckedAgain` (`CirrusAmp`) as a PROPERTY of `AmpMono`: the result of turning the
  wakeup off replaces a DSP error, which is then not checked again (1258, 1276);
* `ZeroNeverWritten` with `Stereo = FALSE`, `FromTA = TRUE`: a mono device is
  given an empty TA partition's zeroes, since its download tests `cal_ok` (1002);
* `FreshCalibrationApplied` with `Stereo = TRUE`, `FromTA = FALSE`: nothing sets
  `cal_valid` in the measuring build, so a stereo measurement is not written (1070);
* `SuccessIsFresh` without its `gaveUp`: a DSP that does not shut down within the
  100 ms of a wait goes unnoticed, since `-ETIMEDOUT` (597) is never returned, and the
  firmware that still runs is taken for the one asked for.

The vibrator:

* `OwnDuration` and `PlaysOut` without their `replaced`: a waiter that is late reads the next
  call's duration, also that of a call that is then refused (1248, 1233);
* `PlaysOut` with `"huge"` or `"pwle"` in `Kinds`, with `SysfsFails = TRUE` or with `Polling = FALSE`: a duration
  above INT32_MAX is a negative time-out, the waiter of `composePwle` does not pause and may poll
  before the effect has started, a poll that fails does not wait, and without
  `USE_EFFECT_DURATION_POLLING` nothing does. It rests on the effect's start within the 10 ms of the
  pause;
* `NeverUnderAsp` with two callers, with `"pwle"` in `Kinds`, `SysfsFails` or `Crashes`: external control may be
  taken between the check and the start, `composePwle` does not look at it, the result of giving
  it up is ignored, and a restart forgets it;
* `OneWaiter`, `StopsOnlyItsOwn` and `ImplementsSlot` with two callers, which may both pass the check for
  a pending vibration (526), or with `"pwle"` in `Kinds`: `composePwle` does not make it (954);
* `ExternalRemembered` with `Crashes = TRUE` in `VibClient`: the driver's ASP outlives the service. The
  property leaves out the PCM of a device that has an ASP too: if `asp_enable` cannot be
  written, the PCM stays open with `mIsUnderExternalControl` FALSE (393-402);
* `Completes` with `"endless"` in `Kinds`: UINT32_MAX is the time-out -1, and the poll lasts for ever if
  the driver never reports the stop;
* `LongAtItsLevel` (`VibratorHal`) as a PROPERTY of `VibClient`: giving up external control
  resets the level of a long vibration (522).

The queue of `composePwle`:

* `LevelsLimited` without its 5: a level is limited and then printed with one digit
  (809), so that 0.38, which the comment at 875 calls the hard limit, becomes 0.4. The limit of which it
  speaks is the one in force: the constructor makes the table of limits (288) before
  it reads `mIsChirpEnabled` (293), which is not initialised, and where the table is not
  applied (`tuned` FALSE) levels between 145 and 200 Hz may be above what it would allow;
* `DurationTold` says what the driver is told of a composition with negative times, which is not what it
  takes: a braking segment's duration is not compared with 0 (910), and shortens what is told for
  the others, or wraps around;
* `PlaysWhatIsAsked` and `DurationTold` with `WritesFail = TRUE`: an effect index or a duration that was not
  written leaves the earlier one in place (939-943).

The others:

* `SunlightIsSwitch` with `FlushFails = TRUE`: a write the node refuses is a success;
* `TouchIsSwitch` with `MayDeny <- FALSE` in its INSTANCE: a rate that cannot be read is reported as "off";
* `SwitchTells` with `QuickTaps = TRUE`: `Cancel` turns the switch to the opposite of what a
  second tap made it (67);
* `AllAgree` and `BootApplies` say nothing of an enabling that was cut short and never stored: the
  colour mode stays, and no boot resets it (53).

*Bounds.* Two streams and two detectors are enough for one thread to be inside
the mutex while another waits, for a forgotten detector next to the last one, and
for a stream that stops while another plays. The fair run has one of each: with two streams
it takes longer than is practical, and `adev->lock` lets one stream at a time into a
call, the calibration thread being the other that takes the mutex. `Faulty` is empty in
`AmpStereoTA`: the safety properties of two amplifiers do not depend on what a detector reads,
since the result of turning the wakeup off replaces it (1258). `max_retries` (32 in the code) is 2: a retry is
alike for any number, and two give a try that is followed by another and a last
one. The download's waits and retries (10 and 30) are 3 each: they are only counted.
Four calls leave one playing, one waited for, one whose duration is stored
and one that arrives; the fair run has two, which suffice for a call that waits
for another's waiter, though not for two that wait for each other's. `VibLive` has the ASP, `VibRestart` the PCM; both together
only make `VibLive` more than twice as long, and `Remembered` covers them. `Pwle`: three primitives have a first, a middle and a last one
on every side of a jump. Levels are the least, the greatest and one above it, frequencies one
below the least and two that round to the same Hz, one of them the resonant one, both with a limit; durations
are one that is negative, the greatest and one above it. Its queue has room for five of the
up to six segments, and `Width` is 2000 instead of 2^32, so that three primitives, and
even two, may wrap around. Two waiters or binder threads have
every race of one with another. `CreatorMode` has no bound: it is finite. Symmetry is used in no run with liveness. Every state space
is finite (2.0 million states in `AmpStereoTA`, the largest) and explored whole,
without state constraints.

*Fairness.* `CirrusFwDownload`: its thread runs; nothing is assumed of the DSP. `CirrusAmp`: one strong condition per thread, since a thread that waits
for a mutex that others release does get it on Linux sooner or later; elsewhere
it says no more than that a runnable thread runs. Nothing obliges the audio HAL
to call, stop or close. `VibratorHal`: every thread that can run does, an effect
starts and comes to the end of its time. That the driver then stops is not
assumed, and no failure is fair. `VibePoll`: a waiter that can go on does, and the
driver gives its notices. `CreatorMode`: the main thread goes on with what it began, and
its messages are handled in order, so that taps cannot keep the boot's broadcast
away: a strong condition, since each tap makes the thread busy in between.

*Deadlock* is checked in every run.

## 4. Proofs

All proofs are for any number of threads and calls, both builds, all devices and
any number of retries. Assumptions on constants are the named `ASSUME`s of the
modules; what a theorem needs beyond them is in its `ASSUME`.

### CirrusAmpProofs

| Theorem | States | Needs |
|---|---|---|
| `TypeCorrect` | `[]TypeOK` | nothing |
| `ErrorStays` | `ErrorIsFinal` | nothing |
| `ProtectedPlayback` | `[]PlaybackProtected` | nothing |
| `AllOrNothing` | `[]CalibrationApplied` | nothing |
| `NoCircularWait` | `[]OwnersRun` | nothing |
| `NoThreadLoops` | `[][ThreadsAdvance]_vars` | nothing |
| `NeverZero` | `[]ZeroNeverWritten` | two amplifiers, or the measuring build |
| `FreshIsApplied` | `[]FreshCalibrationApplied` | one amplifier |
| `QuietCalibration` | `[]QuietUnlessEarly` | nothing |
| `MutexIsSound` | `[]MutexSound` | nothing |
| `Exclusion` | `[](CalOver /\ ~early => MutualExclusion)` | nothing |
| `StaysAwake` | `[]AwakeUntilProtected` | nothing |
| `Implementation` | `ImplementsControl` | nothing |

A stream that comes before the calibration thread breaks the mutex and the quiet of the
calibration, but not what the amplifiers have once calibration is over, nor the order of
the session that `AmpControl` states: of the theorems only `QuietCalibration`, `MutexIsSound`, `Exclusion` and
`StaysAwake` have `~early`, in their property, where a reader sees it. Each of the conditions is one that
section 3 shows to be needed.

The invariants, each inductive with the ones before it:

* `Settled`: a process without a session has no calibration thread; `adevLock` belongs to
  the stream that is in a call; once the state is CALIBRATION_ERROR, the calibration
  thread is done and no stream is past its check. `ErrorIsFinal` follows: whoever could still
  assign the state was turned away.
* `Quiet`: until calibration is over, and if nobody came before it, the state refuses
  everybody and no detector runs. `QuietUnlessEarly` alone is not inductive: it does not say why nobody
  gets past.
* `Owner`: who owns the mutex is between lock and unlock (the calibration thread: at
  an unlock to come). This much always holds, since a thread becomes the owner
  only by locking, and it is enough for `OwnersRun`: the owner of a lock is at a place where
  it waits for no lock, so that no threads wait for each other in a circle.
  The converse, `Inside` (who is inside owns it), is true only *once calibration is
  over* and only if nobody came before: the calibration thread may free the mutex under
  a thread that is inside.
* `Progress`: how far the downloads and the writes have come at each place of the
  calibration thread, and that streams and detectors leave the firmware alone. A
  detector on its way to `abort` (`Doomed`) has reset it; from then on nothing is claimed
  of the firmware until the process is over.
* `Record`: what the two calibration records say of each other: a record is valid only if
  it is not zero; after a measurement each is the measured one; one
  amplifier never becomes "stereo". `AwakeUntilProtected` is inductive with these and `Quiet`.

`NoThreadLoops` gives each thread a number of steps left (`CalLeft`, at most `22 + 2 * MaxTries`,
`CallLeft`, `DetLeft`), which every step of the thread decreases and no other
thread increases. It is the part of termination that needs no fairness: a
thread can wait, but not go round in circles.

### CirrusFwDownloadProofs

`DownloadTypes` (`[]TypeOK`), `FreshSuccess` (`[]SuccessIsFresh`) and `DownloadAdvances`
(`[][Advances]_vars`), for any `MaxWaits` and `MaxRetry`. `Loops` bounds the counters; `Wiring` says what the controls tell of each
other (a control still to be obeyed reads 1; nothing runs or loads while the switch
is off); with it, `Progress` follows a download whose waits did not run out from the
switch being off to the only load under way being its own. `Left` counts down the steps
of a download, at most `5 + 2 * MaxWaits + MaxRetry`, whatever the DSP does.

### VibratorHalProofs

| Theorem | States | Needs |
|---|---|---|
| `VibratorTypes` | `[]TypeOK` | nothing |
| `SingleWaiter` | `[]OneWaiter` | one caller, no `composePwle` |
| `OwnStop` | `StopsOnlyItsOwn` | the same |
| `Remembered` | `[]ExternalRemembered` | no ASP, or no restarts |
| `NotUnderAsp` | `NeverUnderAsp` | one caller, no `composePwle`, failures or restarts |
| `DurationOfItsOwn` | `[]OwnDuration` | nothing |
| `PlayedOut` | `PlaysOut` | the polling build, no `composePwle`, no failures, durations that fit |
| `ServiceIsSlot` | `ImplementsSlot` | one caller, no `composePwle`, failures or restarts |
| `NoWaiterLost` | `[]WaitersKnown` | nothing |
| `WaitersBounded` | at most one waiter more than callers | a finite number of callers |
| `NoThreadLoops` | `[][ThreadsAdvance]_vars` | nothing |

What each theorem needs is what the failing instances of section 3 take away. `Types` adds to
`TypeOK` that a thread in a call has one. `Alone` strengthens `OneWaiter`: a call
that is past the check for a pending vibration finds no waiter, and before it has
started nothing plays under its name. `GivenUp` and `Rest` say that external control stays
given up until the effect has started, and that nothing plays for nobody.

Durations are about any number of callers. `Fresh` says that no two threads carry out
the same call and that a call's waiter comes after it; `Timely` that a stored duration
stays until it is read, or its call is `replaced` (`Kept`), which every store must keep true for
every other call that is still to read one (`Awaited`); `Late` that a waiter
finds its effect started and leaves it only when that is over.

The last three theorems are about any number of callers, failures, restarts and `composePwle`. There
`OneWaiter` fails, but not without limit: every waiter is the one `mAsyncHandle` stands for or
the former one that a thread in its assignment waits for (`WaitersKnown`: the destructor of
a future from `std::async` joins), so that no waiter is left to itself and there is one
waiter more than callers at most. `NoThreadLoops` is the counting down of a call's and a
waiter's steps, like that of the amplifier.

### PwleQueueProofs

| Theorem | States | Needs |
|---|---|---|
| `QueueTypes` | `[]TypeOK` | nothing |
| `Asked` | `[]PlaysWhatIsAsked` | writes whose result is ignored succeed |
| `LevelsKept` | `[]LevelsLimited` | nothing |
| `ToldItsTime` | `[]DurationTold` | those writes succeed |
| `NothingWraps` | what is told is the sum itself | those writes succeed; no duration is negative; the largest sum fits in `Width` |

for compositions of any length, any values a client may write, any table. `Added`
says what one step does to the three sequences and leaves alone in them; `Grown` that a
primitive keeps its segments when more follow. `PlaysWhatIsAsked` is not inductive: `Continues`
adds that the queue ends at `prev`, which is what a left-out jump relies on.

`DurationTold` is about a sum over the queue, `Times`, a recursive function. Its three laws (it is an
integer, 0 for the empty queue, and grows by the time of a segment appended:
`TimesType`, `TimesEmpty`, `TimesAppend`) need induction, which is had from `LeastOf`: of the
indices at which a law is false there would be a least one. `Timed` then says that the unsigned total is the sum modulo
`Width`: it is the same to wrap around at each primitive or once (`WrapsOnce`). Where no time is
negative, `Bounded` says that 999 ms for each primitive (the longest the loop
lets pass) bound the sum: nothing wraps around, since a composition is not larger than the limit.

### VibePollProofs

`Woken` (`[]NoLostWakeup`) and `TrueAnswers` (`StoppedWasAtRest`) for any number of waiters. `NoLostWakeup`
is inductive with the types: a waiter goes to sleep only after it read that the driver
moves, and every later change is still to be noticed. `Noticed` ties the history to the reads.

### SwitchesProofs

`Sunlight` (any number of threads; what is written is taken) and `Touch` (no condition):
the services implement `Switch`. A refinement proof step by step: a read that answers, a
write, or the last command is the abstract `Return`, everything else a call or a stutter.
`Touch` needs that the mode a panel does not use keeps the value that does no harm, since
`HighRate` looks at both.

### CreatorModeProofs

`CreatorTypes`, `ModesAgree` (`[]AllAgree`) and `SwitchShows` (`[]SwitchTells`, without quick taps). The first
invariant follows how far `setMode` has come with the HAL alive, the second what the
switch shows while a warning is open and while `setMode` runs.

### Stated by no run

`OwnersRun`, both `ThreadsAdvance`, `Advances` and `WaitersKnown` are defined next to their proofs: they
are what can be proved of the question whether threads end, for any number of them.

### Only model-checked

Liveness: `CalibrationTerminates`, `CallsReturn`, `DetectorsEnd`, `Returns`, `Completes`, `PollEnds` and
`BootApplies`, since the backends do not reason about fairness. That threads
take a bounded number of steps and that no circle of owners waits is proved for the
amplifier; that a bounded number of steps is taken at all, and that a lock that is
released is got, is what fairness adds and TLC checks. Every invariant and
every action property that a run checks is proved.

## 5. Not modelled, and why

* Undefined behaviour with no state to speak of: use of `cs35l41_dev` after it is
  freed, two threads assigning one `std::future`, an unlocked list, an
  uninitialised flag. `PROJECT.json` lists each as a hazard.
* Two threads inside `setExternalControl` at once: one step in the model.
* Which value a stereo calibration is given as ambient temperature: 857 passes the length 4
  in its place. The model's `CalAmbient` writes it; no later step reads it.
* The bytes of calibration files and their checksums: see the plan.
* `setAmplitude`, the GPIO settings of always-on effects, the bandwidth maps: a write or
  a read with nothing to relate it to.
* How many segments the driver has room for: `getPwleCompositionSizeMax` takes it for
  the number of primitives, which may need two each; the driver is not in the
  repository, and in `PwleQueue` it may refuse any queue (`Write`).
* White balance: `onWhiteBalanceMatrixChanged` forwards what the display HAL calls back.
* `PictureAdjustment` and `SDMController`, which are a library's.
* The driver's `f0_offset`, which `on` sets and only `off` resets, so that it outlives
  a long vibration; the model keeps one such setting, `globalScale`.
* In `CirrusAmp`, a DSP that does not shut down within the 100 ms that
  `cirrus_mixer_wait_for_setting` waits (it is in `CirrusFwDownload`).
* Logging, tracing, `dump` and wording.

## 6. Plan

What is left, in this order:

1. `CirrusCalFile`: the calibration file and its checksums as operators against a
   reference definition, and the file's writing with crashes; `get_ta_array`.
2. Split steps of `setExternalControl` in `VibratorHal`; `setAmplitude`.
3. `PwleQueue`'s queue as what the driver of `VibratorHal` plays.
4. Theorems: that a decreasing number of steps and strong fairness of each
   thread give termination, for one thread at a time, if a backend for it is at hand.
