----------------------------- MODULE VibratorHal -----------------------------
(***************************************************************************)
(* The vibrator HAL service (aidl/vibrator/cs40l25/Vibrator.cpp): the      *)
(* binder threads that carry out on, perform, compose, composePwle, off    *)
(* and setExternalControl without a lock, the thread that std::async       *)
(* starts for every accepted vibration to wait for its end, and the        *)
(* driver's activate, vibe_state and asp_enable nodes.                     *)
(*                                                                         *)
(* A step is what a thread does between two points where the waiters, the  *)
(* driver or another binder thread can matter; setExternalControl and off  *)
(* are one step each.  Effects, amplitudes and durations are abstracted to  *)
(* the call they belong to.                                                *)
(***************************************************************************)

CONSTANTS Callers,     \* binder threads
          Calls,       \* identities of calls, used again when forgotten
          None,        \* no call: another's, or nobody's
          Huge,        \* a duration that is a negative time-out of poll
          Endless,     \* the one that is -1, for which poll waits for ever
          Kinds,       \* the kinds of vibration the client asks for
          Polling,     \* USE_EFFECT_DURATION_POLLING is defined
          HasAsp,      \* the driver has the asp_enable node
          Alsa,        \* mHasHapticAlsaDevice
          SysfsFails,  \* may activate, asp_enable, vibe_state or the PCM fail?
          Crashes      \* may the service die and be started again?

ASSUME CallAssumption ==
  {None, Huge, Endless} \cap Calls = {} /\ None # Huge /\ None # Endless /\ Huge # Endless

ASSUME BuildAssumption ==
  /\ {Polling, HasAsp, Alsa, SysfsFails, Crashes} \subseteq BOOLEAN
  /\ Kinds \subseteq {"on", "huge", "endless", "perform", "compose", "pwle"}

VARIABLES
  pc,                       \* each binder thread's place
  call,                     \* the call it carries out
  kind,                     \* the kind of that call
  old,                      \* the future that its assignment destroys
  mAsyncHandle,             \* the call whose waiter the future stands for
  mTotalDuration,           \* the call whose duration it holds
  mIsUnderExternalControl,
  mHapticPcm,               \* is the haptic PCM open?
  wait,                     \* place of each call's waiter
  duration,                 \* the duration a waiter polls with
  asp,                      \* the driver's asp_enable
  globalScale,              \* the driver's dig_scale: "long" or "normal"
  playing,                  \* the call whose effect the driver plays
  phase,                    \* how far it has come
  replaced                  \* history: calls not yet complete whose duration
                            \* another's replaced before their waiter read it

caller   == <<pc, call, kind, old>>
external == <<mIsUnderExternalControl, mHapticPcm, asp>>
stored   == <<mTotalDuration, replaced>>
waiter   == <<wait, duration>>
actuator == <<playing, phase>>
vars == <<caller, mAsyncHandle, stored, external, waiter, globalScale, actuator>>

\* The constructor, on a driver that is at rest.
Init ==
  /\ pc = [c \in Callers |-> "idle"] /\ call = [c \in Callers |-> None]
  /\ kind = [c \in Callers |-> "none"] /\ old = [c \in Callers |-> None]
  /\ mAsyncHandle = None /\ mTotalDuration = None
  /\ mIsUnderExternalControl = FALSE /\ mHapticPcm = FALSE
  /\ wait = [v \in Calls |-> "none"] /\ duration = [v \in Calls |-> None]
  /\ asp = FALSE /\ globalScale = "normal"
  /\ playing = None /\ phase = "idle"
  /\ replaced = {}

------------------------------------------------------------------------------
(* The driver.  vibe_state is not 0 while an effect plays; an effect may   *)
(* take a moment to start, and may not stop when its time is over.         *)

Vibrating == phase \in {"playing", "overdue"}

EffectStarts ==
  /\ phase = "starting" /\ phase' = "playing"
  /\ UNCHANGED <<caller, mAsyncHandle, stored, external, waiter, globalScale, playing>>

EffectTimeEnds ==
  /\ phase = "playing"
  /\ \/ phase' = "idle" /\ playing' = None
     \/ phase' = "overdue" /\ UNCHANGED playing
  /\ UNCHANGED <<caller, mAsyncHandle, stored, external, waiter, globalScale>>

EffectStopsLate ==
  /\ phase = "overdue" /\ phase' = "idle" /\ playing' = None
  /\ UNCHANGED <<caller, mAsyncHandle, stored, external, waiter, globalScale>>

\* setActivate(1) and setActivate(0), whose results on() and
\* waitForComplete ignore.
SetActive(v) ==
  \/ playing' = v /\ phase' = IF Vibrating THEN "playing" ELSE "starting"
  \/ SysfsFails /\ UNCHANGED actuator

\* Mutant: the driver is told, but not whose effect is over.
SetInactivePartly == phase' = "idle" /\ UNCHANGED playing

SetInactive ==
  \/ playing' = None /\ phase' = "idle"
  \/ SysfsFails /\ UNCHANGED actuator

------------------------------------------------------------------------------
(* Binder threads.                                                         *)

At(c, p) == pc' = [pc EXCEPT ![c] = p]
Step(c, p, q) == pc[c] = p /\ At(c, q) /\ UNCHANGED <<call, kind, old>>
Return(c) ==
  /\ At(c, "idle")
  /\ call' = [call EXCEPT ![c] = None]
  /\ kind' = [kind EXCEPT ![c] = "none"]
  /\ old' = [old EXCEPT ![c] = None]

\* Nothing refers to v any more.
Forgotten(v) ==
  /\ wait[v] = "none" /\ v \notin {mAsyncHandle, mTotalDuration, playing}
  /\ \A c \in Callers : v \notin {call[c], old[c]}
  /\ \A u \in Calls : duration[u] # v

\* v's duration is still to be read.
Unread(v) == wait[v] = "start" \/ \E c \in Callers : call[c] = v

\* The call v stores the duration d.
Store(v, d) ==
  IF Polling THEN /\ mTotalDuration' = d
                  /\ replaced' = (replaced \cup {u \in Calls : Unread(u)}) \ {v}
             ELSE UNCHANGED stored

\* A call that was refused, or a vibration that is complete.
Forget(v) == replaced' = replaced \ {v}

\* A call of kind k arrives and goes on at p.
Begin(c, v, k, p) ==
  /\ pc[c] = "idle" /\ Forgotten(v) /\ k \in Kinds
  /\ At(c, p)
  /\ call' = [call EXCEPT ![c] = v] /\ kind' = [kind EXCEPT ![c] = k]
  /\ UNCHANGED <<old, mAsyncHandle, external, waiter, actuator>>

\* Vibrator::on(timeoutMs, callback).
On(c, v) ==
  /\ \E k \in {"on", "huge", "endless"} : Begin(c, v, k, "external")
  /\ globalScale' = "long"
  /\ UNCHANGED stored

\* Vibrator::perform: getSimpleDetails stores the duration.
Perform(c, v) ==
  /\ Begin(c, v, "perform", "external")
  /\ Store(v, v)
  /\ UNCHANGED globalScale

\* Vibrator::compose resets the duration and then sums it up; a bad
\* primitive or a refused queue ends the call in between or after.
Compose(c, v) ==
  /\ Begin(c, v, "compose", "sum")
  /\ Store(v, None)
  /\ UNCHANGED globalScale

\* What it adds is added to another call's duration, if that was stored since.
Sum(c) == IF call[c] \in replaced THEN None ELSE call[c]

ComposeSum(c) ==
  /\ pc[c] = "sum"
  /\ \/ /\ At(c, "external") /\ UNCHANGED <<call, kind, old>>
        /\ Store(Sum(c), Sum(c))
     \/ Return(c) /\ Forget(call[c]) /\ UNCHANGED mTotalDuration
     \/ Return(c) /\ SysfsFails /\ Store(call[c], Sum(c))
  /\ UNCHANGED <<mAsyncHandle, external, waiter, globalScale, actuator>>

\* Vibrator::composePwle: neither external control nor a pending vibration
\* is looked at.
ComposePwle(c, v) ==
  /\ Begin(c, v, "pwle", "activate")
  /\ Store(v, v)
  /\ UNCHANGED globalScale

\* Mutant: mIsUnderExternalControl is not assigned.
GiveOrTakeUnremembered(b) ==
  /\ mHapticPcm' = (Alsa /\ b) /\ asp' = (HasAsp /\ b)
  /\ UNCHANGED mIsUnderExternalControl

\* Mutant: mIsUnderExternalControl is assigned before asp_enable is written.
GiveOrTakeEarly(b) ==
  /\ mHapticPcm' = (Alsa /\ b) /\ mIsUnderExternalControl' = b
  /\ (asp' = (HasAsp /\ b)) \/ (SysfsFails /\ UNCHANGED asp)

\* Vibrator::setExternalControl(b), after its write of the global scale: the
\* PCM, then asp_enable.  The PCM can only fail to open.  Taking control
\* twice gives it up first.
GiveOrTake(b) ==
  LET again == b /\ mIsUnderExternalControl IN
  \/ ~b /\ ~mIsUnderExternalControl /\ UNCHANGED external
  \/ /\ b \/ mIsUnderExternalControl
     /\ \/ /\ mHapticPcm' = (Alsa /\ b) /\ asp' = (HasAsp /\ b)
           /\ mIsUnderExternalControl' = b
        \/ /\ SysfsFails /\ Alsa /\ b
           /\ mHapticPcm' = FALSE /\ asp' = (asp /\ ~again)
           /\ UNCHANGED mIsUnderExternalControl
        \/ /\ SysfsFails /\ HasAsp
           /\ mHapticPcm' = (Alsa /\ b) /\ asp' = (asp /\ ~again)
           /\ UNCHANGED mIsUnderExternalControl
        \/ /\ SysfsFails /\ HasAsp /\ again
           /\ mHapticPcm' = FALSE
           /\ UNCHANGED <<asp, mIsUnderExternalControl>>

Scale(b) == globalScale' = IF b THEN "long" ELSE "normal"

SetExternalControl(c) ==
  /\ pc[c] = "idle"
  /\ \E b \in BOOLEAN : Scale(b) /\ GiveOrTake(b)
  /\ UNCHANGED <<caller, mAsyncHandle, stored, waiter, actuator>>

\* Vibrator::off.
Off(c) ==
  /\ pc[c] = "idle"
  /\ globalScale' = "normal"
  /\ SetInactive
  /\ UNCHANGED <<caller, mAsyncHandle, stored, external, waiter>>

\* Vibrator::alwaysOnEnable: getSimpleDetails stores the duration, which is
\* that of no vibration.
AlwaysOnEnable(c) ==
  /\ pc[c] = "idle"
  /\ Store(None, None)
  /\ UNCHANGED <<caller, mAsyncHandle, external, waiter, globalScale, actuator>>

\* Mutant: external control is not given up.
LeaveExternalNot(c) ==
  /\ Step(c, "external", "pending")
  /\ UNCHANGED <<mAsyncHandle, stored, external, waiter, globalScale, actuator>>

\* The private Vibrator::on: external control is given up; the result of
\* that is ignored.
LeaveExternal(c) ==
  /\ Step(c, "external", "pending")
  /\ IF mIsUnderExternalControl THEN Scale(FALSE) /\ GiveOrTake(FALSE)
                                ELSE UNCHANGED <<globalScale, external>>
  /\ UNCHANGED <<mAsyncHandle, stored, waiter, actuator>>

Pending == mAsyncHandle # None /\ wait[mAsyncHandle] # "none"

\* Mutant: the previous waiter's time-out does not end the call.
NotPendingUnchecked(c) ==
  /\ Step(c, "pending", "activate")
  /\ UNCHANGED <<mAsyncHandle, stored, external, waiter, globalScale, actuator>>

\* The previous waiter gets 100 ms to end; then the call is refused.
NotPending(c) ==
  /\ Step(c, "pending", "activate") /\ ~Pending
  /\ UNCHANGED <<mAsyncHandle, stored, external, waiter, globalScale, actuator>>

StillPending(c) ==
  /\ pc[c] = "pending" /\ Pending /\ Return(c) /\ Forget(call[c])
  /\ UNCHANGED <<mAsyncHandle, mTotalDuration, external, waiter, globalScale, actuator>>

\* Index and duration are written, and the effect is started; composePwle
\* goes on without the pause that on makes.
Activate(c) ==
  /\ Step(c, "activate", IF kind[c] # "pwle" /\ Polling THEN "pause" ELSE "launch")
  /\ SetActive(call[c])
  /\ UNCHANGED <<mAsyncHandle, stored, external, waiter, globalScale>>

\* The duration that on was asked for; the others have stored theirs.
StoreOwn(c) ==
  CASE kind[c] = "on"      -> Store(call[c], call[c])
    [] kind[c] = "huge"    -> Store(call[c], Huge)
    [] kind[c] = "endless" -> Store(call[c], Endless)
    [] OTHER               -> UNCHANGED stored

\* Mutant: on does not pause.
PauseNot(c) ==
  /\ Step(c, "pause", "launch")
  /\ StoreOwn(c)
  /\ UNCHANGED <<mAsyncHandle, external, waiter, globalScale, actuator>>

\* Mutant: on does not store its duration.
PauseKeepsDuration(c) ==
  /\ Step(c, "pause", "launch") /\ phase # "starting"
  /\ UNCHANGED <<mAsyncHandle, stored, external, waiter, globalScale, actuator>>

\* Mutant: on waits for vibe_state instead of pausing.
PauseForState(c) ==
  /\ Step(c, "pause", "launch") /\ Vibrating
  /\ StoreOwn(c)
  /\ UNCHANGED <<mAsyncHandle, external, waiter, globalScale, actuator>>

\* usleep(10000), in which an effect has started; then the time-out, unless it
\* is that of perform and compose, is stored.
Pause(c) ==
  /\ Step(c, "pause", "launch")
  /\ phase # "starting"
  /\ StoreOwn(c)
  /\ UNCHANGED <<mAsyncHandle, external, waiter, globalScale, actuator>>

\* std::async starts the waiter; the assignment destroys the old future,
\* which waits for the old waiter.
Launch(c) ==
  /\ pc[c] = "launch"
  /\ wait' = [wait EXCEPT ![call[c]] = "start"]
  /\ mAsyncHandle' = call[c]
  /\ IF Pending THEN At(c, "join") /\ old' = [old EXCEPT ![c] = mAsyncHandle] /\ UNCHANGED <<call, kind>>
                ELSE Return(c)
  /\ UNCHANGED <<stored, external, duration, globalScale, actuator>>

Join(c) ==
  /\ pc[c] = "join" /\ wait[old[c]] = "none" /\ Return(c)
  /\ UNCHANGED <<mAsyncHandle, stored, external, waiter, globalScale, actuator>>

------------------------------------------------------------------------------
(* waitForComplete, on the thread of std::async.                           *)

WaiterFrame == UNCHANGED <<caller, mAsyncHandle, mTotalDuration, external, globalScale>>
WaitStep(v, p, q) == wait[v] = p /\ wait' = [wait EXCEPT ![v] = q]

ReadDuration(v) ==
  /\ WaitStep(v, "start", "poll")
  /\ duration' = [duration EXCEPT ![v] = IF Polling THEN mTotalDuration ELSE None]
  /\ WaiterFrame /\ UNCHANGED <<replaced, actuator>>

\* Mutant: poll has no time-out.
PollEndsWithState(v) ==
  /\ WaitStep(v, "poll", "deactivate") /\ ~Vibrating
  /\ duration' = [duration EXCEPT ![v] = None]
  /\ WaiterFrame /\ UNCHANGED <<replaced, actuator>>

\* HwApiBase::poll: vibe_state is 0; or it is not for as long as the
\* duration says; or the duration is negative as an int32_t, but not -1.  The
\* driver keeps to the effect's own duration, or is overdue.
PollEnds(v) ==
  /\ WaitStep(v, "poll", "deactivate")
  /\ \/ ~Vibrating
     \/ /\ Polling /\ Vibrating /\ duration[v] # Endless
        /\ duration[v] # v \/ playing # v \/ phase = "overdue"
     \/ Polling /\ duration[v] = Huge
  /\ duration' = [duration EXCEPT ![v] = None]
  /\ WaiterFrame /\ UNCHANGED <<replaced, actuator>>

\* vibe_state cannot be read or watched.
PollFails(v) ==
  /\ WaitStep(v, "poll", "deactivate") /\ SysfsFails
  /\ duration' = [duration EXCEPT ![v] = None]
  /\ WaiterFrame /\ UNCHANGED <<replaced, actuator>>

Deactivate(v) ==
  /\ WaitStep(v, "deactivate", "complete")
  /\ SetInactive
  /\ WaiterFrame /\ UNCHANGED <<replaced, duration>>

\* callback->onComplete().
OnComplete(v) ==
  /\ WaitStep(v, "complete", "none") /\ Forget(v)
  /\ WaiterFrame /\ UNCHANGED <<duration, actuator>>

------------------------------------------------------------------------------
\* The service dies and init starts it again; the driver goes on.
Restart ==
  /\ Crashes
  /\ pc' = [c \in Callers |-> "idle"] /\ call' = [c \in Callers |-> None]
  /\ kind' = [c \in Callers |-> "none"] /\ old' = [c \in Callers |-> None]
  /\ mAsyncHandle' = None /\ mTotalDuration' = None /\ replaced' = {}
  /\ mIsUnderExternalControl' = FALSE /\ mHapticPcm' = FALSE
  /\ wait' = [v \in Calls |-> "none"] /\ duration' = [v \in Calls |-> None]
  /\ UNCHANGED <<asp, globalScale, actuator>>

InCall(c) ==
  \/ ComposeSum(c) \/ LeaveExternal(c) \/ NotPending(c) \/ StillPending(c)
  \/ Activate(c) \/ Pause(c) \/ Launch(c) \/ Join(c)

Caller(c) ==
  \/ \E v \in Calls : On(c, v) \/ Perform(c, v) \/ Compose(c, v) \/ ComposePwle(c, v)
  \/ SetExternalControl(c) \/ Off(c) \/ AlwaysOnEnable(c) \/ InCall(c)

Running(v) == ReadDuration(v) \/ PollEnds(v) \/ Deactivate(v) \/ OnComplete(v)

Waiter(v) == Running(v) \/ PollFails(v)

Driver == EffectStarts \/ EffectTimeEnds \/ EffectStopsLate

Next ==
  \/ \E c \in Callers : Caller(c)
  \/ \E v \in Calls : Waiter(v)
  \/ Driver \/ Restart

Spec == Init /\ [][Next]_vars

(* Every thread that can run does, and an effect starts and comes to the   *)
(* end of its time.  That the driver then stops is not assumed, nor is any *)
(* failure of sysfs.                                                       *)
Fairness ==
  /\ \A c \in Callers : WF_vars(InCall(c))
  /\ \A v \in Calls : WF_vars(Running(v))
  /\ WF_vars(EffectStarts) /\ WF_vars(EffectTimeEnds)

FairSpec == Spec /\ Fairness

------------------------------------------------------------------------------
(* Properties.                                                             *)

\* Types: every variable holds a value the code or the driver gives it.
TypeOK ==
  /\ pc \in [Callers -> {"idle", "sum", "external", "pending", "activate", "pause", "launch", "join"}]
  /\ call \in [Callers -> Calls \cup {None}]
  /\ kind \in [Callers -> Kinds \cup {"none"}]
  /\ old \in [Callers -> Calls \cup {None}]
  /\ mAsyncHandle \in Calls \cup {None}
  /\ mTotalDuration \in Calls \cup {None, Huge, Endless}
  /\ replaced \subseteq Calls
  /\ {mIsUnderExternalControl, mHapticPcm, asp} \subseteq BOOLEAN
  /\ wait \in [Calls -> {"none", "start", "poll", "deactivate", "complete"}]
  /\ duration \in [Calls -> Calls \cup {None, Huge, Endless}]
  /\ globalScale \in {"long", "normal"}
  /\ playing \in Calls \cup {None}
  /\ phase \in {"idle", "starting", "playing", "overdue"}
  /\ (playing = None) = (phase = "idle")

Waiting == {v \in Calls : wait[v] # "none"}

\* At most one vibration waits for its end, and it is the one mAsyncHandle
\* stands for, so that the check for a pending vibration misses none.
OneWaiter == Waiting \subseteq {mAsyncHandle}

Unfinished(v) == wait[v] # "none" \/ \E c \in Callers : call[c] = v

\* A waiter never stops the effect of another vibration that is not complete
\* (aidl/vibrator/cs40l25/Vibrator.h:47).  It may stop one that an earlier
\* waiter could not.
StopsOnlyItsOwn ==
  [][\A v \in Calls : wait[v] = "deactivate" /\ wait'[v] = "complete"
       => playing \in {v, None} \/ UNCHANGED actuator \/ ~Unfinished(playing)]_vars

\* A waiter never stops its own effect before its time is over, unless a
\* call that was refused, or alwaysOnEnable, replaced its duration.
PlaysOut ==
  [][\A v \in Calls : wait[v] = "deactivate" /\ wait'[v] = "complete" /\ v \notin replaced
       => playing # v \/ phase = "overdue" \/ UNCHANGED actuator]_vars

\* A waiter polls with the duration of the vibration it waits for, which may
\* be one that poll takes for negative or endless, unless another call stored
\* its own before the waiter read it.
OwnDuration ==
  \A v \in Calls : wait[v] = "poll" /\ Polling
    => duration[v] \in {v, Huge, Endless} \/ v \in replaced

\* An effect starts only while the ASP does not drive the chip.
NeverUnderAsp == [][phase = "idle" /\ phase' = "starting" => ~asp]_vars

\* An ASP that setExternalControl left on, however it failed, is remembered
\* as external control, so that the next vibration turns it off; and so is the
\* PCM, where there is no ASP.  (With both, a PCM may be left open: see 400.)
ExternalRemembered == (asp \/ (mHapticPcm /\ ~HasAsp)) => mIsUnderExternalControl

\* A long vibration is played at the voltage level for long vibrations.
LongAtItsLevel ==
  [][\A c \in Callers : pc[c] = "activate" /\ pc'[c] = "pause" /\ kind[c] = "on"
       => globalScale = "long"]_vars

\* The client of every accepted vibration is told of its completion, even
\* if the driver never stops.
Completes == \A v \in Calls : wait[v] = "start" ~> wait[v] = "none"

\* Every call returns.
CallsReturn == \A c \in Callers : pc[c] # "idle" ~> pc[c] = "idle"

\* The service is a slot for one vibration at a time.
Slot == INSTANCE HapticSlot WITH
  busy <- Waiting # {} \/ \E c \in Callers : pc[c] \in {"pause", "launch"},
  moving <- playing # None

ImplementsSlot == Slot!Spec
==============================================================================
