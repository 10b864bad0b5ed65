-------------------------- MODULE VibratorHalProofs --------------------------
(***************************************************************************)
(* Theorems about VibratorHal, for any set of calls, any build and device, *)
(* with or without failures and restarts.  For any set of callers: types,  *)
(* durations that are read before they are replaced, or are not, waiters   *)
(* that are all known, and threads that end.  For one caller that does not *)
(* use composePwle: one waiter at a time, which stops no effect but its    *)
(* own.                                                                    *)
(***************************************************************************)
EXTENDS VibratorHal, FiniteSetTheorems, TLAPS

------------------------------------------------------------------------------
(* Types.                                                                  *)

\* A thread that is in a call knows which.
HasCall == \A c \in Callers : pc[c] # "idle" => call[c] \in Calls

Types == TypeOK /\ HasCall

LEMMA NoneIsNoCall == None \notin Calls
  BY CallAssumption

LEMMA ExternalTypes ==
  ASSUME Types, NEW b \in BOOLEAN, GiveOrTake(b)
  PROVE  {mIsUnderExternalControl', mHapticPcm', asp'} \subseteq BOOLEAN
  BY BuildAssumption DEF Types, TypeOK, GiveOrTake, external

LEMMA BeginTypes ==
  ASSUME Types, NEW c \in Callers, NEW v \in Calls,
         On(c, v) \/ Perform(c, v) \/ Compose(c, v) \/ ComposePwle(c, v)
  PROVE  Types'
<1> USE DEF Types, TypeOK, HasCall, Begin, At, external, waiter, actuator, stored, Store
<1>1. CASE On(c, v)          BY <1>1 DEF On
<1>2. CASE Perform(c, v)     BY <1>2 DEF Perform
<1>3. CASE Compose(c, v)     BY <1>3 DEF Compose
<1>4. CASE ComposePwle(c, v) BY <1>4 DEF ComposePwle
<1>5. QED BY <1>1, <1>2, <1>3, <1>4

LEMMA CallTypes == ASSUME Types, NEW c \in Callers, InCall(c) PROVE Types'
<1> USE DEF Types, TypeOK, HasCall, Step, At, Return, external, waiter, actuator, stored, Store, Forget
<1>1. CASE ComposeSum(c)    BY <1>1 DEF ComposeSum, Sum
<1>2. CASE LeaveExternal(c)
  <2>1. {mIsUnderExternalControl', mHapticPcm', asp'} \subseteq BOOLEAN
    BY <1>2, ExternalTypes DEF LeaveExternal
  <2>2. globalScale' \in {"long", "normal"} BY <1>2 DEF LeaveExternal, Scale
  <2>3. QED BY <1>2, <2>1, <2>2 DEF LeaveExternal
<1>3. CASE NotPending(c)    BY <1>3 DEF NotPending
<1>4. CASE StillPending(c)  BY <1>4 DEF StillPending
<1>5. CASE Activate(c)      BY <1>5, NoneIsNoCall DEF Activate, SetActive, Vibrating
<1>6. CASE Pause(c)         BY <1>6 DEF Pause, StoreOwn
<1>7. CASE Launch(c)        BY <1>7 DEF Launch
<1>8. CASE Join(c)          BY <1>8 DEF Join
<1>9. QED BY <1>1, <1>2, <1>3, <1>4, <1>5, <1>6, <1>7, <1>8 DEF InCall

LEMMA WaiterTypes == ASSUME Types, NEW v \in Calls, Waiter(v) PROVE Types'
<1> USE DEF Types, TypeOK, HasCall, WaitStep, WaiterFrame, Forget, caller, external, actuator
<1>1. CASE ReadDuration(v) BY <1>1 DEF ReadDuration
<1>2. CASE PollEnds(v)     BY <1>2 DEF PollEnds
<1>3. CASE PollFails(v)    BY <1>3 DEF PollFails
<1>4. CASE Deactivate(v)   BY <1>4 DEF Deactivate, SetInactive
<1>5. CASE OnComplete(v)   BY <1>5 DEF OnComplete
<1>6. QED BY <1>1, <1>2, <1>3, <1>4, <1>5 DEF Waiter, Running

LEMMA InitTypes == Init => Types
<1> SUFFICES ASSUME Init PROVE Types
  OBVIOUS
<1>1. HasCall BY DEF Init, HasCall
<1>2. TypeOK BY DEF Init, TypeOK
<1>3. QED BY <1>1, <1>2 DEF Types

LEMMA NextTypes == Types /\ [Next]_vars => Types'
<1> SUFFICES ASSUME Types, [Next]_vars PROVE Types'
  OBVIOUS
<1> USE DEF Types, TypeOK, HasCall, caller, external, waiter, actuator, stored
<1>1. ASSUME NEW c \in Callers, Caller(c) PROVE Types'
  <2>1. ASSUME NEW v \in Calls,
               On(c, v) \/ Perform(c, v) \/ Compose(c, v) \/ ComposePwle(c, v)
        PROVE  Types'
    BY <2>1, BeginTypes
  <2>2. CASE SetExternalControl(c)
    <3>1. {mIsUnderExternalControl', mHapticPcm', asp'} \subseteq BOOLEAN
      BY <2>2, ExternalTypes DEF SetExternalControl
    <3>2. globalScale' \in {"long", "normal"} BY <2>2 DEF SetExternalControl, Scale
    <3>3. QED BY <2>2, <3>1, <3>2 DEF SetExternalControl
  <2>3. CASE Off(c)    BY <2>3 DEF Off, SetInactive
  <2>3a. CASE AlwaysOnEnable(c) BY <2>3a DEF AlwaysOnEnable, Store
  <2>4. CASE InCall(c) BY <2>4, CallTypes
  <2>5. QED BY <1>1, <2>1, <2>2, <2>3, <2>3a, <2>4 DEF Caller
<1>2. ASSUME NEW v \in Calls, Waiter(v) PROVE Types'
  BY <1>2, WaiterTypes
<1>3. CASE EffectStarts    BY <1>3 DEF EffectStarts
<1>4. CASE EffectTimeEnds  BY <1>4 DEF EffectTimeEnds
<1>5. CASE EffectStopsLate BY <1>5 DEF EffectStopsLate
<1>6. CASE Restart         BY <1>6 DEF Restart
<1>7. CASE UNCHANGED vars  BY <1>7 DEF vars
<1>8. QED BY <1>1, <1>2, <1>3, <1>4, <1>5, <1>6, <1>7 DEF Next, Driver

LEMMA AlwaysTypes == Spec => []Types
<1>1. QED BY InitTypes, NextTypes, PTL DEF Spec

\* Every variable keeps its type (TypeOK), and a thread in a call knows it.
THEOREM VibratorTypes == Spec => []TypeOK
<1>1. Types => TypeOK BY DEF Types
<1>2. QED BY <1>1, AlwaysTypes, PTL

------------------------------------------------------------------------------
(* One caller, without composePwle.                                        *)

OneCaller == \A c, d \in Callers : c = d

Started == {"activate", "pause", "launch"}

\* What a thread has found, or made, before it starts a waiter.
Alone ==
  /\ OneWaiter
  /\ \A c \in Callers :
       /\ pc[c] # "join" /\ kind[c] # "pwle"
       /\ pc[c] = "idle" => call[c] = None
       /\ pc[c] # "idle" => wait[call[c]] = "none"
       /\ pc[c] \in Started => Waiting = {}
       /\ pc[c] \in {"sum", "external", "pending", "activate"} => call[c] # playing

\* The check for a pending vibration misses none.
LEMMA NoneWaits == ASSUME Types, OneWaiter, ~Pending PROVE Waiting = {}
  BY NoneIsNoCall DEF Types, TypeOK, OneWaiter, Pending, Waiting

LEMMA InitAlone == Init => Alone
  BY DEF Init, Alone, OneWaiter, Waiting, Started

LEMMA BeginAlone ==
  ASSUME Types, Alone, OneCaller, "pwle" \notin Kinds, NEW c \in Callers, NEW v \in Calls,
         On(c, v) \/ Perform(c, v) \/ Compose(c, v) \/ ComposePwle(c, v)
  PROVE  Alone'
<1>1. PICK k \in Kinds, p \in {"external", "sum"} : Begin(c, v, k, p)
  BY DEF On, Perform, Compose, ComposePwle, Begin
<1>2. /\ pc' = [pc EXCEPT ![c] = p] /\ call' = [call EXCEPT ![c] = v]
      /\ kind' = [kind EXCEPT ![c] = k]
      /\ UNCHANGED <<mAsyncHandle, wait, playing>>
      /\ wait[v] = "none" /\ v # playing
  BY <1>1 DEF Begin, At, Forgotten, waiter, actuator
<1>3. QED BY <1>2 DEF Alone, OneWaiter, Waiting, Started, OneCaller, Types, TypeOK

LEMMA CallAlone ==
  ASSUME Types, Alone, OneCaller, NEW c \in Callers, InCall(c)
  PROVE  Alone'
<1> USE DEF Alone, OneWaiter, Waiting, Started, Types, TypeOK, HasCall, OneCaller,
            Step, At, Return, external, waiter, actuator
<1>1. CASE ComposeSum(c)    BY <1>1 DEF ComposeSum
<1>2. CASE LeaveExternal(c) BY <1>2 DEF LeaveExternal
<1>3. CASE NotPending(c)
  <2>1. Waiting = {} BY <1>3, NoneWaits DEF NotPending
  <2>2. QED BY <1>3, <2>1 DEF NotPending
<1>4. CASE StillPending(c)  BY <1>4 DEF StillPending
<1>5. CASE Activate(c)      BY <1>5 DEF Activate
<1>6. CASE Pause(c)         BY <1>6 DEF Pause
<1>7. CASE Launch(c)
  <2>1. Waiting = {} BY <1>7 DEF Launch
  <2>2. ~Pending BY <2>1, NoneIsNoCall DEF Pending
  <2>3. QED BY <1>7, <2>1, <2>2 DEF Launch
<1>8. CASE Join(c)          BY <1>8 DEF Join
<1>9. QED BY <1>1, <1>2, <1>3, <1>4, <1>5, <1>6, <1>7, <1>8 DEF InCall

\* A waiter's step only brings it nearer to its end.
LEMMA WaiterAlone == ASSUME Types, Alone, NEW v \in Calls, Waiter(v) PROVE Alone'
<1>1. /\ wait[v] # "none"
      /\ \A u \in Calls : u # v => wait'[u] = wait[u]
      /\ wait' \in [Calls -> {"none", "start", "poll", "deactivate", "complete"}]
  BY DEF Types, TypeOK, Waiter, Running, ReadDuration, PollEnds, PollFails, Deactivate,
         OnComplete, WaitStep
<1>2. UNCHANGED <<pc, call, kind, mAsyncHandle>> /\ playing' \in {playing, None}
  BY DEF Waiter, Running, ReadDuration, PollEnds, PollFails, Deactivate, OnComplete,
         SetInactive, WaiterFrame, caller, actuator
<1>3. QED BY <1>1, <1>2, NoneIsNoCall DEF Alone, OneWaiter, Waiting, Started, Types, TypeOK, HasCall

LEMMA NextAlone ==
  ASSUME OneCaller, "pwle" \notin Kinds
  PROVE  Types /\ Alone /\ [Next]_vars => Alone'
<1> SUFFICES ASSUME Types, Alone, [Next]_vars PROVE Alone'
  OBVIOUS
<1>1. ASSUME NEW c \in Callers, Caller(c) PROVE Alone'
  <2>1. ASSUME NEW v \in Calls,
               On(c, v) \/ Perform(c, v) \/ Compose(c, v) \/ ComposePwle(c, v)
        PROVE  Alone'
    BY <2>1, BeginAlone
  <2>2. CASE SetExternalControl(c)
    BY <2>2 DEF SetExternalControl, Alone, OneWaiter, Waiting, caller, waiter, actuator
  <2>3. CASE Off(c)
    <3>1. UNCHANGED <<pc, call, kind, mAsyncHandle, wait>> /\ playing' \in {playing, None}
      BY <2>3 DEF Off, SetInactive, caller, waiter, actuator
    <3>2. QED BY <3>1, NoneIsNoCall DEF Alone, OneWaiter, Waiting, Started, Types, HasCall
  <2>3a. CASE AlwaysOnEnable(c)
    BY <2>3a DEF AlwaysOnEnable, Alone, OneWaiter, Waiting, caller, waiter, actuator
  <2>4. CASE InCall(c) BY <2>4, CallAlone
  <2>5. QED BY <1>1, <2>1, <2>2, <2>3, <2>3a, <2>4 DEF Caller
<1>2. ASSUME NEW v \in Calls, Waiter(v) PROVE Alone'
  BY <1>2, WaiterAlone
<1>3. CASE Driver
  <2>1. UNCHANGED <<pc, call, kind, mAsyncHandle, wait>> /\ playing' \in {playing, None}
    BY <1>3 DEF Driver, EffectStarts, EffectTimeEnds, EffectStopsLate, caller, waiter
  <2>2. QED BY <2>1, NoneIsNoCall DEF Alone, OneWaiter, Waiting, Started, Types, HasCall
<1>4. CASE Restart
  BY <1>4 DEF Restart, Alone, OneWaiter, Waiting, Started
<1>5. CASE UNCHANGED vars
  BY <1>5 DEF vars, Alone, OneWaiter, Waiting, caller, waiter, actuator
<1>6. QED BY <1>1, <1>2, <1>3, <1>4, <1>5 DEF Next

LEMMA AlwaysAlone ==
  ASSUME OneCaller, "pwle" \notin Kinds
  PROVE  Spec => []Alone
<1>1. Types /\ Alone /\ [Next]_vars => Alone' BY NextAlone
<1>2. QED BY <1>1, InitAlone, AlwaysTypes, PTL DEF Spec

\* One caller that does not use composePwle has at most one waiter, which
\* mAsyncHandle stands for (OneWaiter).
THEOREM SingleWaiter ==
  ASSUME OneCaller, "pwle" \notin Kinds
  PROVE  Spec => []OneWaiter
<1>1. Alone => OneWaiter BY DEF Alone
<1>2. QED BY <1>1, AlwaysAlone, PTL

LEMMA AloneStops ==
  ASSUME Types, Alone, [Next]_vars, NEW v \in Calls,
         wait[v] = "deactivate", wait'[v] = "complete"
  PROVE  playing \in {v, None} \/ UNCHANGED actuator \/ ~Unfinished(playing)
<1> SUFFICES ASSUME playing \notin {v, None}, Unfinished(playing) PROVE FALSE
  OBVIOUS
<1>1. playing \in Calls /\ v \in Waiting
  BY DEF Types, TypeOK, Waiting
<1>2. wait[playing] = "none"
  BY <1>1 DEF Alone, OneWaiter, Waiting
<1>3. PICK c \in Callers : call[c] = playing
  BY <1>2 DEF Unfinished
<1>4. pc[c] # "idle" /\ pc[c] \notin Started
  BY <1>1, <1>3, NoneIsNoCall DEF Alone
<1>5. QED BY <1>3, <1>4 DEF Alone, Types, TypeOK, Started

\* Then a waiter never stops another vibration that is not complete
\* (StopsOnlyItsOwn).
THEOREM OwnStop ==
  ASSUME OneCaller, "pwle" \notin Kinds
  PROVE  Spec => StopsOnlyItsOwn
<1> DEFINE Stop == \A v \in Calls : wait[v] = "deactivate" /\ wait'[v] = "complete"
                     => playing \in {v, None} \/ UNCHANGED actuator \/ ~Unfinished(playing)
<1>1. Types /\ Alone /\ [Next]_vars => [Stop]_vars
  BY AloneStops
<1>2. QED BY <1>1, AlwaysAlone, AlwaysTypes, PTL DEF Spec, StopsOnlyItsOwn
------------------------------------------------------------------------------
(* External control.                                                       *)

\* An ASP that is on is remembered, and there is none that is not there.
Remembers == ExternalRemembered /\ (asp => HasAsp)

LEMMA GivesOrTakes ==
  ASSUME Types, Remembers, NEW b \in BOOLEAN, GiveOrTake(b)
  PROVE  /\ Remembers'
         /\ ~SysfsFails /\ ~b => ~mIsUnderExternalControl'
<1>1. Remembers'
  BY BuildAssumption DEF GiveOrTake, Remembers, ExternalRemembered, external, Types, TypeOK
<1>2. ASSUME ~SysfsFails, ~b PROVE ~mIsUnderExternalControl'
  BY <1>2 DEF GiveOrTake, external
<1>3. QED BY <1>1, <1>2

\* The steps that leave external control alone.
LEMMA ExternalKept ==
  ASSUME [Next]_vars, ~Restart,
         \A c \in Callers : ~SetExternalControl(c) /\ ~LeaveExternal(c)
  PROVE  UNCHANGED <<external, mIsUnderExternalControl, mHapticPcm, asp>>
<1>1. ASSUME NEW c \in Callers, Caller(c) PROVE UNCHANGED external
  <2>1. ASSUME NEW v \in Calls,
               On(c, v) \/ Perform(c, v) \/ Compose(c, v) \/ ComposePwle(c, v)
        PROVE  UNCHANGED external
    BY <2>1 DEF On, Perform, Compose, ComposePwle, Begin
  <2>2. CASE Off(c) BY <2>2 DEF Off
  <2>2a. CASE AlwaysOnEnable(c) BY <2>2a DEF AlwaysOnEnable
  <2>3. CASE InCall(c)
    BY <2>3 DEF InCall, ComposeSum, NotPending, StillPending, Activate, Pause, Launch, Join
  <2>4. QED BY <1>1, <2>1, <2>2, <2>2a, <2>3 DEF Caller
<1>2. ASSUME NEW v \in Calls, Waiter(v) PROVE UNCHANGED external
  BY <1>2 DEF Waiter, Running, ReadDuration, PollEnds, PollFails, Deactivate, OnComplete, WaiterFrame
<1>3. CASE Driver
  BY <1>3 DEF Driver, EffectStarts, EffectTimeEnds, EffectStopsLate, external
<1>4. CASE UNCHANGED vars
  BY <1>4 DEF vars, external
<1>5. UNCHANGED external
  BY <1>1, <1>2, <1>3, <1>4 DEF Next
<1>6. QED BY <1>5 DEF external

LEMMA NextRemembers ==
  ASSUME ~(HasAsp /\ Crashes)
  PROVE  Types /\ Remembers /\ [Next]_vars => Remembers'
<1> SUFFICES ASSUME Types, Remembers, [Next]_vars PROVE Remembers'
  OBVIOUS
<1>1. ASSUME NEW c \in Callers, SetExternalControl(c) PROVE Remembers'
  BY <1>1, GivesOrTakes DEF SetExternalControl
<1>2. ASSUME NEW c \in Callers, LeaveExternal(c) PROVE Remembers'
  BY <1>2, GivesOrTakes DEF LeaveExternal, external, Remembers, ExternalRemembered
<1>3. CASE Restart BY <1>3 DEF Restart, Remembers, ExternalRemembered
<1>4. QED BY <1>1, <1>2, <1>3, ExternalKept DEF Remembers, ExternalRemembered

LEMMA AlwaysRemembers == ASSUME ~(HasAsp /\ Crashes) PROVE Spec => []Remembers
<1>1. Init => Remembers BY DEF Init, Remembers, ExternalRemembered
<1>2. Types /\ Remembers /\ [Next]_vars => Remembers' BY NextRemembers
<1>3. QED BY <1>1, <1>2, AlwaysTypes, PTL DEF Spec

\* An ASP that setExternalControl left on is remembered, and so is the PCM of
\* a device without an ASP, whatever failed and however many call
\* (ExternalRemembered).  The ASP outlives the service.
THEOREM Remembered ==
  ASSUME ~(HasAsp /\ Crashes)
  PROVE  Spec => []ExternalRemembered
<1>1. Remembers => ExternalRemembered BY DEF Remembers
<1>2. QED BY <1>1, AlwaysRemembers, PTL

\* A call that has given external control up starts its effect without it.
GivenUp == \A c \in Callers : pc[c] \in {"pending"} \cup Started => ~mIsUnderExternalControl

LEMMA NextGivesUp ==
  ASSUME OneCaller, "pwle" \notin Kinds, ~Crashes, ~SysfsFails
  PROVE  Types /\ Alone /\ Remembers /\ GivenUp /\ [Next]_vars => GivenUp'
<1> SUFFICES ASSUME Types, Alone, Remembers, GivenUp, [Next]_vars PROVE GivenUp'
  OBVIOUS
<1>1. ASSUME NEW c \in Callers, SetExternalControl(c) PROVE GivenUp'
  BY <1>1 DEF SetExternalControl, GivenUp, OneCaller, caller, Started
<1>2. ASSUME NEW c \in Callers, LeaveExternal(c) PROVE GivenUp'
  <2>1. ~mIsUnderExternalControl'
    BY <1>2, GivesOrTakes DEF LeaveExternal, external
  <2>2. QED BY <2>1 DEF GivenUp
<1>3. ASSUME \A c \in Callers : ~SetExternalControl(c) /\ ~LeaveExternal(c)
      PROVE  GivenUp'
  <2>1. ~Restart BY DEF Restart
  <2>2. UNCHANGED mIsUnderExternalControl BY <1>3, <2>1, ExternalKept
  <2>3. \A c \in Callers : pc'[c] \in {"pending"} \cup Started => pc[c] \in {"pending"} \cup Started
    <3>1. ASSUME NEW c \in Callers, Caller(c)
          PROVE  pc'[c] \in {"pending"} \cup Started => pc[c] \in {"pending"} \cup Started
      <4>1. ASSUME NEW v \in Calls,
                   On(c, v) \/ Perform(c, v) \/ Compose(c, v) \/ ComposePwle(c, v)
            PROVE  pc'[c] \notin {"pending"} \cup Started
        BY <4>1 DEF On, Perform, Compose, ComposePwle, Begin, At, Started, Types, TypeOK
      <4>2. CASE Off(c) BY <4>2 DEF Off, caller
      <4>2a. CASE AlwaysOnEnable(c) BY <4>2a DEF AlwaysOnEnable, caller
      <4>3. CASE InCall(c)
        BY <1>3, <4>3 DEF InCall, ComposeSum, NotPending, StillPending, Activate, Pause, Launch,
           Join, Step, At, Return, Started, Types, TypeOK
      <4>4. QED BY <1>3, <3>1, <4>1, <4>2, <4>2a, <4>3 DEF Caller
    <3>2. ASSUME NEW v \in Calls, Waiter(v) PROVE UNCHANGED pc
      BY <3>2 DEF Waiter, Running, ReadDuration, PollEnds, PollFails, Deactivate, OnComplete,
         WaiterFrame, caller
    <3>3. CASE Driver
      BY <3>3 DEF Driver, EffectStarts, EffectTimeEnds, EffectStopsLate, caller
    <3>4. CASE UNCHANGED vars BY <3>4 DEF vars, caller
    <3>5. QED BY <2>1, <3>1, <3>2, <3>3, <3>4 DEF Next, OneCaller
  <2>4. QED BY <2>2, <2>3 DEF GivenUp
<1>4. QED BY <1>1, <1>2, <1>3

LEMMA StartsGivenUp ==
  ASSUME OneCaller, ~Crashes, Types, Alone, Remembers, GivenUp, [Next]_vars,
         phase = "idle", phase' = "starting"
  PROVE  ~asp
<1>1. ASSUME NEW c \in Callers, Activate(c) PROVE ~asp
  BY <1>1 DEF Activate, Step, GivenUp, Started, Remembers, ExternalRemembered
<1>2. ASSUME NEW c \in Callers, Caller(c), ~Activate(c) PROVE FALSE
  <2>1. ASSUME NEW v \in Calls,
               On(c, v) \/ Perform(c, v) \/ Compose(c, v) \/ ComposePwle(c, v)
        PROVE  FALSE
    BY <2>1 DEF On, Perform, Compose, ComposePwle, Begin, actuator
  <2>2. CASE SetExternalControl(c) BY <2>2 DEF SetExternalControl, actuator
  <2>3. CASE Off(c) BY <2>3 DEF Off, SetInactive, actuator
  <2>3a. CASE AlwaysOnEnable(c) BY <2>3a DEF AlwaysOnEnable, actuator
  <2>4. CASE InCall(c)
    BY <1>2, <2>4 DEF InCall, ComposeSum, LeaveExternal, NotPending, StillPending, Pause, Launch,
       Join, actuator
  <2>5. QED BY <1>2, <2>1, <2>2, <2>3, <2>3a, <2>4 DEF Caller
<1>3. ASSUME NEW v \in Calls, Waiter(v) PROVE FALSE
  BY <1>3 DEF Waiter, Running, ReadDuration, PollEnds, PollFails, Deactivate, OnComplete,
     SetInactive, actuator
<1>4. ~Driver /\ ~Restart /\ ~UNCHANGED vars
  BY DEF Driver, EffectStarts, EffectTimeEnds, EffectStopsLate, Restart, vars, actuator
<1>5. QED BY <1>1, <1>2, <1>3, <1>4 DEF Next

\* While nothing fails and the service does not die, one caller that does
\* not use composePwle never starts an effect under external control
\* (NeverUnderAsp).
THEOREM NotUnderAsp ==
  ASSUME OneCaller, "pwle" \notin Kinds, ~Crashes, ~SysfsFails
  PROVE  Spec => NeverUnderAsp
<1>1. Init => GivenUp BY DEF Init, GivenUp
<1>2. Types /\ Alone /\ Remembers /\ GivenUp /\ [Next]_vars => GivenUp'
  BY NextGivesUp
<1>3. Types /\ Alone /\ Remembers /\ GivenUp /\ [Next]_vars
        => [phase = "idle" /\ phase' = "starting" => ~asp]_vars
  BY StartsGivenUp
<1>4. QED BY <1>1, <1>2, <1>3, AlwaysTypes, AlwaysAlone, AlwaysRemembers, PTL DEF Spec, NeverUnderAsp
------------------------------------------------------------------------------
(* Durations, for any number of callers.                                   *)

\* A call has an identity of its own, and no waiter before it launches one.
Fresh ==
  /\ \A c \in Callers :
       /\ pc[c] = "idle" => call[c] = None
       /\ pc[c] \notin {"idle", "join"} => wait[call[c]] = "none"
  /\ \A c, d \in Callers : call[c] = call[d] /\ call[c] # None => c = d

LEMMA CallFresh == ASSUME Types, Fresh, NEW c \in Callers, InCall(c) PROVE Fresh'
<1> USE DEF Types, TypeOK, HasCall, Fresh, Step, At, Return, waiter
<1>1. CASE Launch(c)
  <2>1. /\ wait' = [wait EXCEPT ![call[c]] = "start"] /\ pc[c] = "launch"
        /\ \/ pc' = [pc EXCEPT ![c] = "join"] /\ UNCHANGED call
           \/ pc' = [pc EXCEPT ![c] = "idle"] /\ call' = [call EXCEPT ![c] = None]
    BY <1>1 DEF Launch
  <2>2. QED BY <2>1, NoneIsNoCall
<1>2. CASE ~Launch(c)
  <2>1. UNCHANGED wait
    BY <1>2 DEF InCall, ComposeSum, LeaveExternal, NotPending, StillPending, Activate, Pause, Join
  <2>2. \/ /\ UNCHANGED call /\ pc[c] \notin {"idle", "join"}
           /\ \E p \in {"external", "pending", "activate", "pause", "launch"} : pc' = [pc EXCEPT ![c] = p]
        \/ pc' = [pc EXCEPT ![c] = "idle"] /\ call' = [call EXCEPT ![c] = None]
    BY <1>2 DEF InCall, ComposeSum, LeaveExternal, NotPending, StillPending, Activate, Pause, Join
  <2>3. QED BY <2>1, <2>2
<1>3. QED BY <1>1, <1>2

LEMMA NextFresh == Types /\ Fresh /\ [Next]_vars => Fresh'
<1> SUFFICES ASSUME Types, Fresh, [Next]_vars PROVE Fresh'
  OBVIOUS
<1> USE DEF Types, TypeOK, HasCall, Fresh
<1>1. ASSUME NEW c \in Callers, NEW v \in Calls,
             On(c, v) \/ Perform(c, v) \/ Compose(c, v) \/ ComposePwle(c, v)
      PROVE  Fresh'
  <2>1. /\ \E p \in {"external", "sum", "activate"} : pc' = [pc EXCEPT ![c] = p]
        /\ call' = [call EXCEPT ![c] = v] /\ UNCHANGED wait
        /\ wait[v] = "none" /\ \A d \in Callers : call[d] # v
    BY <1>1 DEF On, Perform, Compose, ComposePwle, Begin, At, Forgotten, waiter
  <2>2. QED BY <2>1
<1>2. ASSUME NEW c \in Callers, SetExternalControl(c) \/ Off(c) \/ AlwaysOnEnable(c) PROVE Fresh'
  BY <1>2 DEF SetExternalControl, Off, AlwaysOnEnable, caller, waiter
<1>3. ASSUME NEW c \in Callers, Caller(c) PROVE Fresh'
  BY <1>1, <1>2, <1>3, CallFresh DEF Caller
<1>4. ASSUME NEW v \in Calls, Waiter(v) PROVE Fresh'
  <2>1. UNCHANGED <<pc, call>> /\ \A u \in Calls : wait[u] = "none" => wait'[u] = "none"
    BY <1>4 DEF Waiter, Running, ReadDuration, PollEnds, PollFails, Deactivate, OnComplete,
       WaitStep, WaiterFrame, caller
  <2>2. QED BY <2>1
<1>5. CASE Driver \/ UNCHANGED vars
  BY <1>5 DEF Driver, EffectStarts, EffectTimeEnds, EffectStopsLate, caller, waiter, vars
<1>6. CASE Restart BY <1>6 DEF Restart
<1>7. QED BY <1>3, <1>4, <1>5, <1>6 DEF Next

LEMMA AlwaysFresh == Spec => []Fresh
<1>1. Init => Fresh BY DEF Init, Fresh
<1>2. QED BY <1>1, NextFresh, AlwaysTypes, PTL DEF Spec

\* The duration v has stored is there, or was replaced.
Kept(v) == mTotalDuration \in {v, Huge, Endless} \/ v \in replaced

AsksForTime == {"on", "huge", "endless"}

\* Each duration stays until its waiter has read it, or its call is among
\* those that were replaced.
Timely ==
  /\ \A v \in Calls :
       /\ wait[v] = "start" => Kept(v)
       /\ wait[v] = "poll" => duration[v] \in {v, Huge, Endless} \/ v \in replaced
  /\ \A c \in Callers :
       /\ pc[c] \in {"external", "pending"} \cup Started /\ kind[c] \notin AsksForTime
            => Kept(call[c])
       /\ pc[c] = "launch" => Kept(call[c])
       /\ pc[c] = "sum" => kind[c] = "compose"

\* Whose duration has not been read keeps its place in the order: a store is
\* its own, or replaces it.
LEMMA StoreKeeps ==
  ASSUME Types, Polling, NEW u, NEW d, Store(u, d), NEW v \in Calls, Unread(v), v # u
  PROVE  Kept(v)'
  BY DEF Store, Kept

LEMMA ForgetKeeps ==
  ASSUME NEW u, Forget(u), UNCHANGED mTotalDuration, NEW v \in Calls, Kept(v), v # u
  PROVE  Kept(v)'
  BY DEF Forget, Kept

LEMMA StoresOwn ==
  ASSUME Types, Polling, NEW v \in Calls, NEW d \in {v, Huge, Endless}, Store(v, d)
  PROVE  Kept(v)'
  BY DEF Store, Kept

\* A waiter has still to read v's duration, or to be started.
Awaited(v) == wait[v] = "start" \/ \E c \in Callers : call[c] = v /\ pc[c] \notin {"idle", "join"}

\* The steps of calls that store nothing and are not refused.
LEMMA StoresNothing ==
  ASSUME NEW c \in Callers,
         LeaveExternal(c) \/ NotPending(c) \/ Activate(c) \/ Launch(c) \/ Join(c)
  PROVE  UNCHANGED <<stored, mTotalDuration, replaced>>
  BY DEF LeaveExternal, NotPending, Activate, Launch, Join, stored

\* Nobody waits for a call that was refused.
LEMMA NotAwaited ==
  ASSUME Types, Fresh, NEW c \in Callers, Return(c), UNCHANGED wait,
         pc[c] \notin {"idle", "join"}, NEW v \in Calls, v = call[c]
  PROVE  ~Awaited(v)'
<1>1. wait'[v] # "start" BY DEF Fresh
<1>2. ASSUME NEW d \in Callers PROVE call'[d] # v
  <2>1. CASE d = c BY <2>1, NoneIsNoCall DEF Return, Types, TypeOK
  <2>2. CASE d # c
    <3>1. call'[d] = call[d] BY <2>2 DEF Return, Types, TypeOK
    <3>2. QED BY <2>2, <3>1, NoneIsNoCall DEF Fresh
  <2>3. QED BY <2>1, <2>2
<1>3. QED BY <1>1, <1>2 DEF Awaited

LEMMA CallKeeps ==
  ASSUME Types, Fresh, Polling, NEW c \in Callers, InCall(c),
         NEW v \in Calls, Awaited(v), Kept(v), Awaited(v)'
  PROVE  Kept(v)'
<1>1. Unread(v) BY DEF Awaited, Unread
<1>2. ASSUME Return(c), Forget(call[c]), UNCHANGED <<mTotalDuration, wait>>, pc[c] \in {"sum", "pending"}
      PROVE  Kept(v)'
  <2>1. v # call[c]
    BY <1>2, NotAwaited
  <2>2. QED BY <1>2, <2>1, ForgetKeeps
<1>3. CASE ComposeSum(c)
  <2>1. ASSUME Store(call[c], Sum(c)) \/ Store(Sum(c), Sum(c)) PROVE Kept(v)'
    <3>1. CASE v # call[c]
      <4>1. v # Sum(c) BY <3>1, NoneIsNoCall DEF Sum
      <4>2. QED BY <1>1, <2>1, <3>1, <4>1, StoreKeeps
    <3>2. CASE v = call[c] /\ v \notin replaced
      BY <2>1, <3>2 DEF Sum, Store, Kept
    <3>3. CASE v = call[c] /\ v \in replaced /\ Store(Sum(c), Sum(c))
      BY <1>1, <3>3, StoreKeeps, NoneIsNoCall DEF Sum
    <3>4. CASE v = call[c] /\ ~Store(Sum(c), Sum(c))
      <4>1. Return(c) /\ UNCHANGED wait
        BY <1>3, <3>4 DEF ComposeSum, waiter
      <4>2. QED BY <1>3, <3>4, <4>1, NotAwaited DEF ComposeSum
    <3>5. QED BY <3>1, <3>2, <3>3, <3>4
  <2>2. QED BY <1>2, <1>3, <2>1 DEF ComposeSum, waiter
<1>4. CASE StillPending(c) BY <1>2, <1>4 DEF StillPending, waiter
<1>5. CASE Pause(c)
  <2>1. CASE v = call[c] BY <1>5, <2>1, StoresOwn DEF Pause, StoreOwn, stored, Kept
  <2>2. CASE v # call[c] BY <1>1, <1>5, <2>2, StoreKeeps DEF Pause, StoreOwn, stored, Kept
  <2>3. QED BY <2>1, <2>2
<1>6. CASE LeaveExternal(c) \/ NotPending(c) \/ Activate(c) \/ Launch(c) \/ Join(c)
  BY <1>6, StoresNothing DEF Kept
<1>7. QED BY <1>3, <1>4, <1>5, <1>6 DEF InCall

LEMMA NextKeeps ==
  ASSUME Types, Fresh, Polling, [Next]_vars, ~Restart,
         NEW v \in Calls, Awaited(v), Kept(v), Awaited(v)'
  PROVE  Kept(v)'
<1>1. Unread(v) BY DEF Awaited, Unread
<1>2. ASSUME NEW c \in Callers, Caller(c) PROVE Kept(v)'
  <2>1. ASSUME NEW u \in Calls,
               On(c, u) \/ Perform(c, u) \/ Compose(c, u) \/ ComposePwle(c, u)
        PROVE  Kept(v)'
    <3>1. u # v
      BY <1>1, <2>1 DEF On, Perform, Compose, ComposePwle, Begin, Forgotten, Unread
    <3>2. UNCHANGED stored \/ Store(u, u) \/ Store(u, None)
      BY <2>1 DEF On, Perform, Compose, ComposePwle
    <3>3. QED BY <1>1, <3>1, <3>2, StoreKeeps DEF stored, Kept
  <2>2. CASE AlwaysOnEnable(c)
    BY <1>1, <2>2, StoreKeeps, NoneIsNoCall DEF AlwaysOnEnable
  <2>3. CASE SetExternalControl(c) \/ Off(c)
    BY <2>3 DEF SetExternalControl, Off, stored, Kept
  <2>4. CASE InCall(c) BY <2>4, CallKeeps
  <2>5. QED BY <1>2, <2>1, <2>2, <2>3, <2>4 DEF Caller
<1>3. ASSUME NEW u \in Calls, Waiter(u) PROVE Kept(v)'
  <2>1. CASE OnComplete(u)
    <3>1. u # v BY <2>1 DEF OnComplete, WaitStep, Awaited, Fresh
    <3>2. QED BY <2>1, <3>1, ForgetKeeps DEF OnComplete, WaiterFrame
  <2>2. CASE ~OnComplete(u)
    BY <1>3, <2>2 DEF Waiter, Running, ReadDuration, PollEnds, PollFails, Deactivate, WaiterFrame, Kept
  <2>3. QED BY <2>1, <2>2
<1>4. CASE Driver \/ UNCHANGED vars
  BY <1>4 DEF Driver, EffectStarts, EffectTimeEnds, EffectStopsLate, vars, stored, Kept
<1>5. QED BY <1>2, <1>3, <1>4 DEF Next

\* Until its vibration is complete a replaced duration is not forgotten.
LEMMA StaysReplaced ==
  ASSUME Types, Fresh, [Next]_vars, ~Restart, NEW v \in Calls, v \in replaced,
         wait[v] \in {"poll", "deactivate"}
  PROVE  v \in replaced'
<1>1. ASSUME NEW c \in Callers, Caller(c) PROVE v \in replaced'
  <2>1. ASSUME NEW u, NEW d, u # v, Store(u, d) \/ Forget(u) \/ UNCHANGED stored PROVE v \in replaced'
    BY <2>1 DEF Store, Forget, stored
  <2>2. ASSUME NEW u \in Calls,
               On(c, u) \/ Perform(c, u) \/ Compose(c, u) \/ ComposePwle(c, u)
        PROVE  v \in replaced'
    <3>1. u # v
      BY <2>2 DEF On, Perform, Compose, ComposePwle, Begin, Forgotten
    <3>2. UNCHANGED stored \/ Store(u, u) \/ Store(u, None)
      BY <2>2 DEF On, Perform, Compose, ComposePwle
    <3>3. QED BY <2>1, <3>1, <3>2
  <2>3. CASE AlwaysOnEnable(c) BY <2>1, <2>3, NoneIsNoCall DEF AlwaysOnEnable
  <2>4. CASE SetExternalControl(c) \/ Off(c)
    BY <2>1, <2>4, NoneIsNoCall DEF SetExternalControl, Off
  <2>5. CASE ComposeSum(c) \/ StillPending(c) \/ Pause(c)
    <3>1. call[c] # v
      BY <2>5 DEF ComposeSum, StillPending, Pause, Step, Fresh
    <3>2. Sum(c) # v BY <3>1, NoneIsNoCall DEF Sum
    <3>3. QED BY <2>1, <2>5, <3>1, <3>2 DEF ComposeSum, StillPending, Pause, StoreOwn
  <2>6. CASE LeaveExternal(c) \/ NotPending(c) \/ Activate(c) \/ Launch(c) \/ Join(c)
    BY <2>6, StoresNothing
  <2>7. QED BY <1>1, <2>2, <2>3, <2>4, <2>5, <2>6 DEF Caller, InCall
<1>2. ASSUME NEW u \in Calls, Waiter(u) PROVE v \in replaced'
  BY <1>2 DEF Waiter, Running, ReadDuration, PollEnds, PollFails, Deactivate, OnComplete,
     WaitStep, Forget
<1>3. CASE Driver \/ UNCHANGED vars
  BY <1>3 DEF Driver, EffectStarts, EffectTimeEnds, EffectStopsLate, vars, stored
<1>4. QED BY <1>1, <1>2, <1>3 DEF Next

\* What a call's own step does to the order.
LEMMA CallTimely ==
  ASSUME Types, Fresh, Timely, Polling, NEW c \in Callers, InCall(c)
  PROVE  /\ pc'[c] \in {"external", "pending"} \cup Started /\ kind'[c] \notin AsksForTime
              => Kept(call[c])'
         /\ pc'[c] = "launch" => Kept(call[c])'
         /\ pc'[c] = "sum" => kind'[c] = "compose"
<1> USE DEF Types, TypeOK, HasCall, Timely, Started, Step, At, Return
<1>1. CASE ComposeSum(c)
  <2>1. ASSUME Store(Sum(c), Sum(c)), UNCHANGED call PROVE Kept(call[c])'
    <3>1. call[c] \in Calls /\ Unread(call[c])
      BY <1>1 DEF ComposeSum, Unread
    <3>2. CASE call[c] \in replaced
      BY <2>1, <3>1, <3>2, NoneIsNoCall DEF Sum, Store, Kept
    <3>3. CASE call[c] \notin replaced
      BY <2>1, <3>3 DEF Sum, Store, Kept
    <3>4. QED BY <3>2, <3>3
  <2>2. QED BY <1>1, <2>1 DEF ComposeSum
<1>2. CASE Pause(c)
  <2>1. Kept(call[c])'
    <3>1. CASE kind[c] \in AsksForTime
      BY <1>2, <3>1, StoresOwn DEF Pause, StoreOwn, AsksForTime
    <3>2. CASE kind[c] \notin AsksForTime
      <4>1. UNCHANGED stored BY <1>2, <3>2, Zenon DEF Pause, StoreOwn, AsksForTime
      <4>2. Kept(call[c]) BY <1>2, <3>2 DEF Pause
      <4>3. QED BY <1>2, <4>1, <4>2 DEF stored, Kept, Pause
    <3>3. QED BY <3>1, <3>2
  <2>2. QED BY <1>2, <2>1 DEF Pause
<1>3. CASE StillPending(c) BY <1>3 DEF StillPending
<1>4. CASE LeaveExternal(c) \/ NotPending(c) \/ Activate(c) \/ Launch(c) \/ Join(c)
  <2>1. UNCHANGED <<mTotalDuration, replaced>> BY <1>4, StoresNothing
  <2>2. \/ UNCHANGED <<call, kind>>
           /\ \/ pc[c] = "external" /\ pc'[c] = "pending"
              \/ pc[c] = "pending" /\ pc'[c] = "activate"
              \/ pc[c] = "activate" /\ pc'[c] = "pause"
              \/ pc[c] = "activate" /\ pc'[c] = "launch" /\ kind[c] = "pwle"
              \/ pc[c] = "launch" /\ pc'[c] = "join"
        \/ pc'[c] = "idle"
    BY <1>4 DEF LeaveExternal, NotPending, Activate, Launch, Join
  <2>3. QED BY <2>1, <2>2 DEF Kept, AsksForTime
<1>5. QED BY <1>1, <1>2, <1>3, <1>4 DEF InCall

LEMMA NextTimely ==
  ASSUME Polling
  PROVE  Types /\ Fresh /\ Timely /\ [Next]_vars => Timely'
<1> SUFFICES ASSUME Types, Fresh, Timely, [Next]_vars PROVE Timely'
  OBVIOUS
<1>1. CASE Restart BY <1>1 DEF Restart, Timely, Started
<1>2. CASE ~Restart
  <2>1. ASSUME NEW c \in Callers, pc'[c] = pc[c], call'[c] = call[c], kind'[c] = kind[c]
        PROVE  /\ pc'[c] \in {"external", "pending"} \cup Started /\ kind'[c] \notin AsksForTime
                    => Kept(call[c])'
               /\ pc'[c] = "launch" => Kept(call[c])'
               /\ pc'[c] = "sum" => kind'[c] = "compose"
    <3>1. ASSUME pc[c] \notin {"idle", "join"}, Kept(call[c]) PROVE Kept(call[c])'
      <4>1. PICK v \in Calls : v = call[c] BY <3>1 DEF Types, HasCall
      <4>2. Awaited(v) /\ Awaited(v)' BY <2>1, <3>1, <4>1 DEF Awaited
      <4>3. Kept(v)' BY <1>2, <3>1, <4>1, <4>2, NextKeeps
      <4>4. QED BY <2>1, <4>1, <4>3 DEF Kept
    <3>2. QED BY <2>1, <3>1 DEF Timely, Started
  <2>2. ASSUME NEW c \in Callers
        PROVE  /\ pc'[c] \in {"external", "pending"} \cup Started /\ kind'[c] \notin AsksForTime
                    => Kept(call[c])'
               /\ pc'[c] = "launch" => Kept(call[c])'
               /\ pc'[c] = "sum" => kind'[c] = "compose"
    <3>1. CASE InCall(c) BY <3>1, CallTimely
    <3>2. ASSUME NEW v \in Calls,
                 On(c, v) \/ Perform(c, v) \/ Compose(c, v) \/ ComposePwle(c, v)
          PROVE  /\ pc'[c] \in {"external", "pending"} \cup Started /\ kind'[c] \notin AsksForTime
                      => Kept(call[c])'
                 /\ pc'[c] # "launch"
                 /\ pc'[c] = "sum" => kind'[c] = "compose"
      <4> USE DEF Types, TypeOK, Begin, At, AsksForTime
      <4>1. CASE On(c, v) BY <3>2, <4>1 DEF On
      <4>2. CASE Perform(c, v) \/ ComposePwle(c, v)
        <5>1. Kept(v)' BY <3>2, <4>2, StoresOwn DEF Perform, ComposePwle
        <5>2. call'[c] = v /\ pc'[c] \in {"external", "activate"}
          BY <3>2, <4>2 DEF Perform, ComposePwle
        <5>3. QED BY <5>1, <5>2 DEF Kept
      <4>3. CASE Compose(c, v) BY <3>2, <4>3 DEF Compose, Started
      <4>4. QED BY <3>2, <4>1, <4>2, <4>3
    <3>3. CASE \/ \E d \in Callers : d # c /\ Caller(d)
               \/ SetExternalControl(c) \/ Off(c) \/ AlwaysOnEnable(c)
               \/ \E v \in Calls : Waiter(v)
               \/ Driver \/ UNCHANGED vars
      <4>1. pc'[c] = pc[c] /\ call'[c] = call[c] /\ kind'[c] = kind[c]
        <5>1. ASSUME NEW d \in Callers, d # c, Caller(d)
              PROVE  pc'[c] = pc[c] /\ call'[c] = call[c] /\ kind'[c] = kind[c]
          BY <5>1 DEF Caller, On, Perform, Compose, ComposePwle, Begin, SetExternalControl, Off,
             AlwaysOnEnable, InCall, ComposeSum, LeaveExternal, NotPending, StillPending, Activate,
             Pause, Launch, Join, Step, At, Return, caller, Types, TypeOK
        <5>2. ASSUME NEW v \in Calls, Waiter(v) PROVE UNCHANGED <<pc, call, kind>>
          BY <5>2 DEF Waiter, Running, ReadDuration, PollEnds, PollFails, Deactivate, OnComplete,
             WaiterFrame, caller
        <5>3. QED BY <3>3, <5>1, <5>2 DEF SetExternalControl, Off, AlwaysOnEnable, Driver,
                EffectStarts, EffectTimeEnds, EffectStopsLate, vars, caller
      <4>2. QED BY <2>1, <4>1
    <3>4. QED BY <1>2, <3>1, <3>2, <3>3 DEF Next, Caller
  <2>3. ASSUME NEW v \in Calls, wait'[v] = "start" PROVE Kept(v)'
    <3>1. CASE wait[v] = "start"
      BY <1>2, <2>3, <3>1, NextKeeps DEF Timely, Awaited
    <3>2. ASSUME NEW c \in Callers, Launch(c), wait[v] # "start" PROVE Kept(v)'
      <4>1. v = call[c] /\ pc[c] = "launch" BY <2>3, <3>2 DEF Launch, Types, TypeOK
      <4>2. QED BY <3>2, <4>1, StoresNothing DEF Timely, Kept
    <3>3. ASSUME \A c \in Callers : ~Launch(c) PROVE wait[v] = "start"
      <4>1. ASSUME NEW c \in Callers, Caller(c) PROVE UNCHANGED wait
        BY <3>3, <4>1 DEF Caller, On, Perform, Compose, ComposePwle, Begin, SetExternalControl, Off,
           AlwaysOnEnable, InCall, ComposeSum, LeaveExternal, NotPending, StillPending, Activate,
           Pause, Join, waiter
      <4>2. ASSUME NEW u \in Calls, Waiter(u) PROVE wait[v] = "start"
        BY <2>3, <4>2 DEF Waiter, Running, ReadDuration, PollEnds, PollFails, Deactivate, OnComplete,
           WaitStep, Types, TypeOK
      <4>3. QED BY <1>2, <2>3, <4>1, <4>2 DEF Next, Driver, EffectStarts, EffectTimeEnds,
              EffectStopsLate, vars, waiter
    <3>4. QED BY <3>1, <3>2, <3>3
  <2>4. ASSUME NEW v \in Calls, wait'[v] = "poll"
        PROVE  duration'[v] \in {v, Huge, Endless} \/ v \in replaced'
    <3>1. CASE wait[v] = "poll" /\ UNCHANGED duration
      BY <1>2, <3>1, StaysReplaced DEF Timely
    <3>2. ASSUME NEW u \in Calls, Waiter(u)
          PROVE  duration'[v] \in {v, Huge, Endless} \/ v \in replaced'
      <4>1. CASE ReadDuration(u) /\ u = v
        BY <3>2, <4>1 DEF ReadDuration, WaitStep, Timely, Kept, Types, TypeOK
      <4>2. CASE ~ReadDuration(u) \/ u # v
        <5>1. wait[v] = "poll" /\ duration'[v] = duration[v]
          BY <2>4, <3>2, <4>2 DEF Waiter, Running, ReadDuration, PollEnds, PollFails, Deactivate,
             OnComplete, WaitStep, Types, TypeOK
        <5>2. QED BY <1>2, <5>1, StaysReplaced DEF Timely
      <4>3. QED BY <4>1, <4>2
    <3>3. ASSUME NEW c \in Callers, Caller(c) PROVE wait[v] = "poll" /\ UNCHANGED duration
      BY <2>4, <3>3 DEF Caller, On, Perform, Compose, ComposePwle, Begin, SetExternalControl, Off,
         AlwaysOnEnable, InCall, ComposeSum, LeaveExternal, NotPending, StillPending, Activate,
         Pause, Launch, Join, waiter, Types, TypeOK
    <3>4. CASE Driver \/ UNCHANGED vars
      BY <1>2, <2>4, <3>1, <3>4 DEF Driver, EffectStarts, EffectTimeEnds, EffectStopsLate, vars, waiter
    <3>5. QED BY <1>2, <3>1, <3>2, <3>3, <3>4 DEF Next
  <2>5. QED BY <2>2, <2>3, <2>4 DEF Timely
<1>3. QED BY <1>1, <1>2

LEMMA AlwaysTimely == ASSUME Polling PROVE Spec => []Timely
<1>1. Init => Timely BY DEF Init, Timely, Started
<1>2. Types /\ Fresh /\ Timely /\ [Next]_vars => Timely' BY NextTimely
<1>3. QED BY <1>1, <1>2, AlwaysTypes, AlwaysFresh, PTL DEF Spec

\* In the polling build a waiter polls with the duration of its own vibration
\* unless another call replaced it first, however many call and whatever
\* fails (OwnDuration).
THEOREM DurationOfItsOwn == Spec => []OwnDuration
<1>1. CASE Polling
  <2>1. Timely => OwnDuration BY DEF Timely, OwnDuration
  <2>2. QED BY <1>1, <2>1, AlwaysTimely, PTL
<1>2. CASE ~Polling
  <2>1. TypeOK => OwnDuration BY <1>2 DEF OwnDuration
  <2>2. QED BY <2>1, VibratorTypes, PTL
<1>3. QED BY <1>1, <1>2

UsualCalls == {"huge", "pwle"} \cap Kinds = {} /\ Polling

\* A waiter finds its effect started, and leaves it only when it is over.
Late ==
  /\ mTotalDuration # Huge /\ \A v \in Calls : duration[v] # Huge
  /\ \A c \in Callers : pc[c] # "idle" => kind[c] \in Kinds
  /\ \A c \in Callers : pc[c] = "launch" => playing # call[c] \/ phase # "starting"
  /\ \A v \in Calls :
       /\ wait[v] \in {"start", "poll"} => playing # v \/ phase # "starting"
       /\ wait[v] = "deactivate" => v \in replaced \/ playing # v \/ phase = "overdue"

\* The steps that leave the driver and the waiters alone.
LEMMA CallLate ==
  ASSUME UsualCalls, Types, Fresh, Late, NEW c \in Callers, InCall(c),
         UNCHANGED <<wait, playing, phase, duration>>,
         \A v \in Calls : v \in replaced /\ wait[v] = "deactivate" => v \in replaced'
  PROVE  Late'
<1> USE DEF Types, TypeOK, HasCall, Late, Step, At, Return, UsualCalls
<1>1. \A d \in Callers : d # c => pc'[d] = pc[d] /\ call'[d] = call[d] /\ kind'[d] = kind[d]
  BY DEF InCall, ComposeSum, LeaveExternal, NotPending, StillPending, Activate, Pause, Launch, Join
<1>2. /\ pc[c] # "idle"
      /\ pc'[c] # "idle" => kind'[c] = kind[c] /\ call'[c] = call[c]
  BY DEF InCall, ComposeSum, LeaveExternal, NotPending, StillPending, Activate, Pause, Launch, Join
<1>3. pc'[c] = "launch" => playing # call[c] \/ phase # "starting"
  <2>1. CASE Activate(c)
    <3>1. pc'[c] = "pause" BY <2>1, <1>2 DEF Activate
    <3>2. QED BY <3>1
  <2>2. CASE ~Activate(c)
    BY <2>2 DEF InCall, ComposeSum, LeaveExternal, NotPending, StillPending, Pause, Launch, Join
  <2>3. QED BY <2>1, <2>2
<1>4. mTotalDuration' # Huge
  <2>1. CASE Pause(c)
    <3>1. kind[c] # "huge" BY <2>1 DEF Pause
    <3>2. mTotalDuration' \in {mTotalDuration, call[c], Endless}
      BY <2>1, <3>1 DEF Pause, StoreOwn, Store, stored
    <3>3. QED BY <2>1, <3>2, CallAssumption DEF Pause
  <2>2. CASE ComposeSum(c)
    BY <2>2, CallAssumption DEF ComposeSum, Sum, Store
  <2>3. CASE LeaveExternal(c) \/ NotPending(c) \/ Activate(c) \/ Launch(c) \/ Join(c)
    BY <2>3, StoresNothing
  <2>4. CASE StillPending(c) BY <2>4 DEF StillPending
  <2>5. QED BY <2>1, <2>2, <2>3, <2>4 DEF InCall
<1>5. QED BY <1>1, <1>2, <1>3, <1>4

LEMMA NextLate ==
  ASSUME UsualCalls, ~SysfsFails
  PROVE  Types /\ Fresh /\ Timely /\ Late /\ [Next]_vars => Late'
<1> SUFFICES ASSUME Types, Fresh, Timely, Late, [Next]_vars PROVE Late'
  OBVIOUS
<1>0. CASE Restart BY <1>0, CallAssumption DEF Restart, Late
<1>r. ASSUME ~Restart, NEW v \in Calls, v \in replaced, wait[v] = "deactivate" PROVE v \in replaced'
  BY <1>r, StaysReplaced
<1>1. ASSUME NEW c \in Callers, Caller(c), ~Restart PROVE Late'
  <2> USE DEF Types, TypeOK, HasCall, Late, caller, waiter, actuator, stored
  <2>1. ASSUME NEW v \in Calls,
               On(c, v) \/ Perform(c, v) \/ Compose(c, v) \/ ComposePwle(c, v)
        PROVE  Late'
    <3>1. /\ \E p \in {"external", "sum", "activate"}, k \in Kinds :
               pc' = [pc EXCEPT ![c] = p] /\ kind' = [kind EXCEPT ![c] = k]
          /\ call' = [call EXCEPT ![c] = v]
          /\ UNCHANGED <<wait, duration, playing, phase>>
      BY <2>1 DEF On, Perform, Compose, ComposePwle, Begin, At
    <3>2. mTotalDuration' \in {mTotalDuration, v, None}
      BY <2>1 DEF On, Perform, Compose, ComposePwle, Store
    <3>3. QED BY <1>1, <1>r, <3>1, <3>2, CallAssumption
  <2>2. CASE SetExternalControl(c) \/ AlwaysOnEnable(c)
    BY <1>1, <1>r, <2>2, CallAssumption DEF SetExternalControl, AlwaysOnEnable, Store
  <2>3. CASE Off(c) BY <2>3, NoneIsNoCall DEF Off, SetInactive
  <2>4. CASE Activate(c)
    <3>1. /\ pc' = [pc EXCEPT ![c] = "pause"] /\ pc[c] = "activate" /\ playing' = call[c]
          /\ UNCHANGED <<call, kind, wait, duration, mTotalDuration, replaced>>
      BY <2>4 DEF Activate, Step, At, SetActive, UsualCalls
    <3>2. \A v \in Calls : wait[v] # "none" => v # call[c] BY <3>1 DEF Fresh
    <3>3. \A d \in Callers : d # c /\ pc[d] = "launch" => call[d] # call[c]
      BY <3>1, NoneIsNoCall DEF Fresh
    <3>4. QED BY <3>1, <3>2, <3>3
  <2>5. CASE Launch(c)
    <3>1. /\ wait' = [wait EXCEPT ![call[c]] = "start"] /\ pc[c] = "launch"
          /\ UNCHANGED <<mTotalDuration, replaced, duration, playing, phase>>
          /\ \/ pc' = [pc EXCEPT ![c] = "join"] /\ UNCHANGED <<call, kind>>
             \/ /\ pc' = [pc EXCEPT ![c] = "idle"] /\ call' = [call EXCEPT ![c] = None]
                /\ kind' = [kind EXCEPT ![c] = "none"]
      BY <2>5 DEF Launch, At, Return
    <3>2. QED BY <3>1
  <2>6. CASE InCall(c) /\ ~Activate(c) /\ ~Launch(c)
    <3>1. UNCHANGED <<wait, playing, phase, duration>>
      BY <2>6 DEF InCall, ComposeSum, LeaveExternal, NotPending, StillPending, Pause, Join
    <3>2. QED BY <1>1, <1>r, <2>6, <3>1, CallLate
  <2>7. QED BY <1>1, <2>1, <2>2, <2>3, <2>4, <2>5, <2>6 DEF Caller
<1>2. ASSUME NEW v \in Calls, Waiter(v), ~Restart PROVE Late'
  <2> USE DEF Types, TypeOK, Late, caller, actuator, WaitStep, WaiterFrame
  <2>1. CASE ReadDuration(v) BY <2>1 DEF ReadDuration, UsualCalls
  <2>2. CASE PollEnds(v)
    <3>1. v \in replaced \/ playing # v \/ phase = "overdue"
      <4>1. CASE ~Vibrating
        BY <2>2, <4>1, NoneIsNoCall DEF PollEnds, Vibrating
      <4>2. CASE Vibrating
        BY <2>2, <4>2 DEF PollEnds, Timely
      <4>3. QED BY <4>1, <4>2
    <3>2. QED BY <2>2, <3>1, CallAssumption DEF PollEnds
  <2>3. CASE Deactivate(v) BY <2>3, NoneIsNoCall DEF Deactivate, SetInactive
  <2>4. CASE OnComplete(v)
    BY <1>2, <1>r, <2>4 DEF OnComplete
  <2>5. QED BY <1>2, <2>1, <2>2, <2>3, <2>4 DEF Waiter, Running, PollFails
<1>3. CASE Driver
  BY <1>3, NoneIsNoCall DEF Driver, EffectStarts, EffectTimeEnds, EffectStopsLate,
     Types, TypeOK, Late, caller, waiter, stored
<1>4. CASE UNCHANGED vars BY <1>4 DEF vars, Late, caller, waiter, actuator, stored
<1>5. QED BY <1>0, <1>1, <1>2, <1>3, <1>4 DEF Next

\* Then, if nothing fails, no waiter stops its own vibration before its time
\* is over, however many call (PlaysOut).
THEOREM PlayedOut == ASSUME UsualCalls, ~SysfsFails PROVE Spec => PlaysOut
<1>1. Init => Late BY CallAssumption DEF Init, Late
<1>2. Types /\ Fresh /\ Timely /\ Late /\ [Next]_vars => Late' BY NextLate
<1>3. Late => [\A v \in Calls : wait[v] = "deactivate" /\ wait'[v] = "complete" /\ v \notin replaced
                 => playing # v \/ phase = "overdue" \/ UNCHANGED actuator]_vars
  BY DEF Late
<1>4. Polling BY DEF UsualCalls
<1>5. Spec => []Timely BY <1>4, AlwaysTimely
<1>6. QED BY <1>1, <1>2, <1>3, <1>5, AlwaysTypes, AlwaysFresh, PTL DEF Spec, PlaysOut
------------------------------------------------------------------------------
(* VibratorHal implements HapticSlot.                                      *)

Sound == OneCaller /\ "pwle" \notin Kinds /\ ~SysfsFails /\ ~Crashes

Busy == Waiting # {} \/ \E c \in Callers : pc[c] \in {"pause", "launch"}

\* Nothing is played for nobody.
Rest ==
  /\ ~Busy => playing = None
  /\ \A v \in Calls : wait[v] = "complete" => playing = None

\* But for the start of an effect and the end of its waiter, a step leaves
\* the slot as busy as it was.
LEMMA Quietly ==
  ASSUME Sound, Types, Alone, [Next]_vars,
         \A c \in Callers : ~Activate(c), \A v \in Calls : ~OnComplete(v)
  PROVE  /\ Busy' = Busy /\ playing' \in {playing, None}
         /\ \A v \in Calls : wait'[v] = "complete" => wait[v] = "complete" \/ playing' = None
<1> USE DEF Sound, Types, TypeOK, Busy, Waiting, caller, waiter, actuator
<1> DEFINE Quiet == /\ Busy' = Busy /\ playing' \in {playing, None}
                    /\ \A v \in Calls : wait'[v] = "complete" => wait[v] = "complete" \/ playing' = None
<1>1. ASSUME NEW c \in Callers, Caller(c) PROVE Quiet
  <2>1. ASSUME NEW v \in Calls,
               On(c, v) \/ Perform(c, v) \/ Compose(c, v) \/ ComposePwle(c, v)
        PROVE  Quiet
    <3>1. UNCHANGED <<wait, playing>> /\ pc[c] = "idle"
          /\ (pc' = [pc EXCEPT ![c] = "external"] \/ pc' = [pc EXCEPT ![c] = "sum"])
      BY <2>1 DEF On, Perform, Compose, ComposePwle, Begin, At
    <3>2. QED BY <3>1
  <2>2. CASE SetExternalControl(c) BY <2>2 DEF SetExternalControl
  <2>3. CASE Off(c) BY <2>3 DEF Off, SetInactive
  <2>3a. CASE AlwaysOnEnable(c) BY <2>3a DEF AlwaysOnEnable
  <2>4. CASE Launch(c)
    <3>1. Waiting = {} BY <2>4 DEF Launch, Alone, Started
    <3>2. ~Pending BY <3>1, NoneIsNoCall DEF Pending
    <3>3. wait' = [wait EXCEPT ![call[c]] = "start"] /\ UNCHANGED playing
          /\ pc[c] = "launch" /\ call[c] \in Calls
      BY <2>4, <3>2 DEF Launch, HasCall
    <3>4. QED BY <3>1, <3>3
  <2>5. CASE Pause(c) BY <2>5 DEF Pause, Step, At
  <2>6. CASE ComposeSum(c) \/ LeaveExternal(c) \/ NotPending(c) \/ StillPending(c)
    <3>1. UNCHANGED <<wait, playing>>
      BY <2>6 DEF ComposeSum, LeaveExternal, NotPending, StillPending
    <3>2. \A d \in Callers : pc[d] \in {"pause", "launch"} <=> pc'[d] \in {"pause", "launch"}
      BY <2>6 DEF ComposeSum, LeaveExternal, NotPending, StillPending, Step, At, Return
    <3>3. QED BY <3>1, <3>2
  <2>7. ~Join(c) BY DEF Join, Alone
  <2>8. QED BY <1>1, <2>1, <2>2, <2>3, <2>3a, <2>4, <2>5, <2>6, <2>7 DEF Caller, InCall
<1>2. ASSUME NEW v \in Calls, Waiter(v) PROVE Quiet
  <2>1. \A u \in Calls : wait[u] # "none" <=> wait'[u] # "none"
    BY <1>2 DEF Waiter, Running, ReadDuration, PollEnds, PollFails, Deactivate, WaitStep
  <2>2. UNCHANGED pc
    BY <1>2 DEF Waiter, Running, ReadDuration, PollEnds, PollFails, Deactivate, WaiterFrame
  <2>3. Busy' = Busy BY <2>1, <2>2
  <2>4. CASE Deactivate(v) BY <2>3, <2>4 DEF Deactivate, SetInactive, WaitStep
  <2>5. CASE ReadDuration(v) \/ PollEnds(v)
    BY <2>3, <2>5 DEF ReadDuration, PollEnds, WaitStep
  <2>6. QED BY <1>2, <2>4, <2>5 DEF Waiter, Running, PollFails
<1>3. CASE Driver
  BY <1>3 DEF Driver, EffectStarts, EffectTimeEnds, EffectStopsLate
<1>4. CASE UNCHANGED vars BY <1>4 DEF vars
<1>5. ~Restart BY DEF Restart
<1>6. QED BY <1>1, <1>2, <1>3, <1>4, <1>5 DEF Next

LEMMA Starts ==
  ASSUME Sound, Types, Alone, Rest, NEW c \in Callers, Activate(c)
  PROVE  ~Busy /\ Busy' /\ playing = None /\ playing' # None /\ Waiting' = {}
<1>1. Waiting = {} /\ pc[c] = "activate" /\ UNCHANGED wait
  BY DEF Activate, Step, Alone, Started, waiter
<1>2. ~Busy BY <1>1 DEF Busy, Sound, OneCaller
<1>3. playing' # None
  BY <1>1, NoneIsNoCall DEF Activate, SetActive, Sound, Types, HasCall
<1>4. pc'[c] \in {"pause", "launch"}
  BY DEF Activate, Step, At, Types, TypeOK
<1>5. QED BY <1>1, <1>2, <1>3, <1>4 DEF Busy, Rest, Waiting

LEMMA Ends ==
  ASSUME Sound, Types, Alone, Rest, NEW v \in Calls, OnComplete(v)
  PROVE  Busy /\ ~Busy' /\ playing = None /\ playing' = None /\ Waiting' = {}
<1>1. wait[v] = "complete" /\ wait' = [wait EXCEPT ![v] = "none"] /\ UNCHANGED <<pc, playing>>
  BY DEF OnComplete, WaitStep, WaiterFrame, caller, actuator
<1>2. Waiting' = {} BY <1>1 DEF Waiting, Alone, OneWaiter, Types, TypeOK
<1>3. \A c \in Callers : pc[c] \notin {"pause", "launch"}
  BY <1>1 DEF Alone, Started, Waiting
<1>4. QED BY <1>1, <1>2, <1>3 DEF Busy, Waiting, Rest

LEMMA NextRests == ASSUME Sound PROVE Types /\ Alone /\ Rest /\ [Next]_vars => Rest'
<1> SUFFICES ASSUME Types, Alone, Rest, [Next]_vars PROVE Rest'
  OBVIOUS
<1>1. ASSUME NEW c \in Callers, Activate(c) PROVE Rest'
  BY <1>1, Starts DEF Rest, Waiting
<1>2. ASSUME NEW v \in Calls, OnComplete(v) PROVE Rest'
  BY <1>2, Ends DEF Rest, Waiting
<1>3. ASSUME \A c \in Callers : ~Activate(c), \A v \in Calls : ~OnComplete(v) PROVE Rest'
  BY <1>3, Quietly DEF Rest
<1>4. QED BY <1>1, <1>2, <1>3

LEMMA SlotStep ==
  ASSUME Sound
  PROVE  Types /\ Alone /\ Rest /\ [Next]_vars => [Slot!Next]_(Slot!vars)
<1> SUFFICES ASSUME Types, Alone, Rest, [Next]_vars PROVE [Slot!Next]_(Slot!vars)
  OBVIOUS
<1>1. ASSUME NEW c \in Callers, Activate(c) PROVE Slot!Accept
  BY <1>1, Starts DEF Slot!Accept, Busy
<1>2. ASSUME NEW v \in Calls, OnComplete(v) PROVE Slot!Complete
  BY <1>2, Ends DEF Slot!Complete, Busy
<1>3. ASSUME \A c \in Callers : ~Activate(c), \A v \in Calls : ~OnComplete(v)
      PROVE  Slot!Stop \/ UNCHANGED Slot!vars
  BY <1>3, Quietly DEF Slot!Stop, Slot!vars, Busy
<1>4. QED BY <1>1, <1>2, <1>3 DEF Slot!Next

\* While nothing fails, the service of one caller that does not use
\* composePwle is a slot for one vibration at a time (ImplementsSlot).
THEOREM ServiceIsSlot == ASSUME Sound PROVE Spec => ImplementsSlot
<1>1. Init => Rest /\ Slot!Init
  BY DEF Init, Rest, Waiting, Slot!Init
<1>2. Types /\ Alone /\ Rest /\ [Next]_vars => Rest' BY NextRests
<1>3. Types /\ Alone /\ Rest /\ [Next]_vars => [Slot!Next]_(Slot!vars) BY SlotStep
<1>4. OneCaller /\ "pwle" \notin Kinds BY DEF Sound
<1>5. Spec => []Alone BY <1>4, AlwaysAlone
<1>6. QED BY <1>1, <1>2, <1>3, <1>5, AlwaysTypes, PTL DEF Spec, ImplementsSlot, Slot!Spec

------------------------------------------------------------------------------
(* Any number of callers.                                                  *)

Joining == {c \in Callers : pc[c] = "join"}

\* Every waiter is the one mAsyncHandle stands for, or a thread that replaced
\* it waits for its end: no future is dropped while its waiter runs.
WaitersKnown == Waiting \subseteq {mAsyncHandle} \cup {old[c] : c \in Joining}

LEMMA CallKnown ==
  ASSUME Types, WaitersKnown, NEW c \in Callers, InCall(c) PROVE WaitersKnown'
<1> USE DEF WaitersKnown, Waiting, Joining
<1>1. CASE Launch(c)
  <2>1. /\ pc[c] = "launch" /\ mAsyncHandle' = call[c]
        /\ wait' = [wait EXCEPT ![call[c]] = "start"]
    BY <1>1 DEF Launch
  <2>2. ASSUME NEW v \in Calls, wait'[v] # "none"
        PROVE  v = mAsyncHandle' \/ \E d \in Callers : pc'[d] = "join" /\ v = old'[d]
    <3>1. CASE v = call[c]
      BY <2>1, <3>1
    <3>2. CASE v # call[c] /\ v = mAsyncHandle
      <4>1. Pending
        BY <2>1, <2>2, <3>2, NoneIsNoCall DEF Pending, Types, TypeOK
      <4>2. pc'[c] = "join" /\ old'[c] = v
        BY <1>1, <3>2, <4>1 DEF Launch, At, Types, TypeOK
      <4>3. QED BY <4>2
    <3>3. CASE v # call[c] /\ v # mAsyncHandle
      <4>1. wait[v] # "none" BY <2>1, <2>2, <3>3 DEF Types, TypeOK
      <4>2. PICK d \in Callers : pc[d] = "join" /\ v = old[d] BY <3>3, <4>1
      <4>3. pc'[d] = pc[d] /\ old'[d] = old[d]
        BY <1>1, <2>1, <4>2 DEF Launch, At, Return, Types, TypeOK
      <4>4. QED BY <4>2, <4>3
    <3>4. QED BY <3>1, <3>2, <3>3
  <2>3. QED BY <2>2
<1>2. ASSUME UNCHANGED <<wait, mAsyncHandle>>,
             \A d \in Callers : pc[d] = "join" =>
               \/ pc'[d] = "join" /\ old'[d] = old[d]
               \/ wait[old[d]] = "none"
      PROVE  WaitersKnown'
  BY <1>2
<1>3. CASE Join(c)
  BY <1>2, <1>3 DEF Join, Return, At, waiter, Types, TypeOK
<1>4. CASE pc[c] # "join" /\ ~Launch(c)
  <2>1. /\ UNCHANGED <<wait, mAsyncHandle>>
        /\ \A d \in Callers : d # c => pc'[d] = pc[d] /\ old'[d] = old[d]
    BY <1>4 DEF InCall, ComposeSum, LeaveExternal, NotPending, StillPending, Activate, Pause,
       Join, Step, At, Return, waiter, Types, TypeOK
  <2>2. QED BY <1>2, <1>4, <2>1
<1>5. QED
  BY <1>1, <1>3, <1>4 DEF InCall, ComposeSum, LeaveExternal, NotPending, StillPending,
     Activate, Pause, Step

LEMMA NextKnown == ASSUME Types, WaitersKnown, [Next]_vars PROVE WaitersKnown'
<1> USE DEF WaitersKnown, Waiting, Joining
<1>1. ASSUME NEW c \in Callers, InCall(c) PROVE WaitersKnown'
  BY <1>1, CallKnown
<1>2. ASSUME NEW c \in Callers, Caller(c), ~InCall(c) PROVE WaitersKnown'
  <2>1. UNCHANGED <<wait, mAsyncHandle, old>>
    BY <1>2 DEF Caller, On, Perform, Compose, ComposePwle, Begin, SetExternalControl, Off,
       AlwaysOnEnable, caller, waiter
  <2>2. \A d \in Callers : pc[d] = "join" => pc'[d] = "join"
    BY <1>2 DEF Caller, On, Perform, Compose, ComposePwle, Begin, SetExternalControl, Off,
       AlwaysOnEnable, At, caller, Types, TypeOK
  <2>3. QED BY <2>1, <2>2
<1>3. ASSUME NEW v \in Calls, Waiter(v) PROVE WaitersKnown'
  <2>1. UNCHANGED <<pc, old, mAsyncHandle>> /\ \A u \in Calls : wait'[u] # "none" => wait[u] # "none"
    BY <1>3 DEF Waiter, Running, ReadDuration, PollEnds, PollFails, Deactivate, OnComplete,
       WaitStep, WaiterFrame, caller, Types, TypeOK
  <2>2. QED BY <2>1
<1>4. CASE Restart BY <1>4 DEF Restart
<1>5. CASE Driver \/ UNCHANGED vars
  BY <1>5 DEF Driver, EffectStarts, EffectTimeEnds, EffectStopsLate, caller, waiter, vars
<1>6. QED BY <1>1, <1>2, <1>3, <1>4, <1>5 DEF Next

\* However many threads ask for vibrations at once, with failures, restarts
\* and composePwle: a future is dropped only after its waiter, so that all
\* but one of the waiters are waited for.
THEOREM NoWaiterLost == Spec => []WaitersKnown
<1>1. Init => WaitersKnown BY DEF Init, WaitersKnown, Waiting
<1>2. QED BY <1>1, NextKnown, AlwaysTypes, PTL DEF Spec

\* There are no more waiters than callers, and one.
THEOREM WaitersBounded ==
  ASSUME IsFiniteSet(Callers)
  PROVE  Spec => [](IsFiniteSet(Waiting) /\ Cardinality(Waiting) <= Cardinality(Callers) + 1)
<1>1. ASSUME TypeOK, WaitersKnown
      PROVE  IsFiniteSet(Waiting) /\ Cardinality(Waiting) <= Cardinality(Callers) + 1
  <2> DEFINE Joined == {old[c] : c \in Callers}
             Known == Joined \cup {mAsyncHandle}
  <2>1. old \in Surjection(Callers, Joined)
    BY <1>1 DEF TypeOK, Surjection
  <2>2. Waiting \in SUBSET Known
    BY <1>1 DEF WaitersKnown, Joining
  <2> HIDE DEF Joined
  <2>3. IsFiniteSet(Joined) /\ Cardinality(Joined) <= Cardinality(Callers)
    BY <2>1, FS_Surjection
  <2>4. /\ IsFiniteSet(Known)
        /\ Cardinality(Known) = IF mAsyncHandle \in Joined THEN Cardinality(Joined) ELSE Cardinality(Joined) + 1
    BY <2>3, FS_AddElement
  <2> HIDE DEF Known
  <2>5. IsFiniteSet(Waiting) /\ Cardinality(Waiting) <= Cardinality(Known)
    BY <2>2, <2>4, FS_Subset
  <2>6. /\ Cardinality(Joined) \in Nat /\ Cardinality(Known) \in Nat
        /\ Cardinality(Waiting) \in Nat /\ Cardinality(Callers) \in Nat
    BY <2>3, <2>4, <2>5, FS_CardinalityType
  <2>7. QED BY <2>3, <2>4, <2>5, <2>6
<1>2. QED BY <1>1, VibratorTypes, NoWaiterLost, PTL

------------------------------------------------------------------------------
(* No thread runs for ever.                                                *)

\* How many steps a call has left at most, and a waiter.
CallLeft(c) ==
  CASE pc[c] = "sum"      -> 7
    [] pc[c] = "external" -> 6
    [] pc[c] = "pending"  -> 5
    [] pc[c] = "activate" -> 4
    [] pc[c] = "pause"    -> 3
    [] pc[c] = "launch"   -> 2
    [] pc[c] = "join"     -> 1
    [] OTHER              -> 0

WaitLeft(v) ==
  CASE wait[v] = "start"      -> 4
    [] wait[v] = "poll"       -> 3
    [] wait[v] = "deactivate" -> 2
    [] wait[v] = "complete"   -> 1
    [] OTHER                  -> 0

\* Each step of a call or of a waiter uses up what it has left, and nobody
\* gives it more but who begins the call, or launches the waiter.
ThreadsAdvance ==
  /\ \A c \in Callers :
       IF InCall(c) THEN CallLeft(c)' \in 0 .. CallLeft(c) - 1
                    ELSE CallLeft(c)' > CallLeft(c) => pc[c] = "idle"
  /\ \A v \in Calls :
       IF Waiter(v) THEN WaitLeft(v)' \in 0 .. WaitLeft(v) - 1
                    ELSE WaitLeft(v)' > WaitLeft(v) => \E c \in Callers : Launch(c) /\ call[c] = v

\* Calls and waiters take a bounded number of steps, however many there are
\* at once and whatever fails: none takes up the time of a binder thread but
\* by a pause, a poll, or a previous waiter.
THEOREM NoThreadLoops == Spec => [][ThreadsAdvance]_vars
<1>1. ASSUME TypeOK, [Next]_vars, NEW c \in Callers
      PROVE  IF InCall(c) THEN CallLeft(c)' \in 0 .. CallLeft(c) - 1
             ELSE CallLeft(c)' > CallLeft(c) => pc[c] = "idle"
  <2>1. CallLeft(c) \in Nat /\ CallLeft(c)' \in Nat BY DEF CallLeft
  <2>2. ASSUME InCall(c) PROVE CallLeft(c)' < CallLeft(c)
    <3>1. \/ pc[c] = "sum" /\ pc'[c] \in {"external", "idle"}
          \/ pc[c] = "external" /\ pc'[c] = "pending"
          \/ pc[c] = "pending" /\ pc'[c] \in {"activate", "idle"}
          \/ pc[c] = "activate" /\ pc'[c] \in {"pause", "launch"}
          \/ pc[c] = "pause" /\ pc'[c] = "launch"
          \/ pc[c] = "launch" /\ pc'[c] \in {"join", "idle"}
          \/ pc[c] = "join" /\ pc'[c] = "idle"
      BY <1>1, <2>2 DEF InCall, ComposeSum, LeaveExternal, NotPending, StillPending, Activate, Pause,
         Launch, Join, Step, At, Return, TypeOK
    <3>2. QED BY <3>1 DEF CallLeft
  <2>3. ~InCall(c) => pc[c] = "idle" \/ pc'[c] = pc[c] \/ pc'[c] = "idle"
    <3>1. ASSUME Caller(c), ~InCall(c) PROVE pc[c] = "idle"
      BY <3>1 DEF Caller, On, Perform, Compose, ComposePwle, Begin, SetExternalControl, Off, AlwaysOnEnable
    <3>2. ASSUME NEW d \in Callers, Caller(d), d # c PROVE pc'[c] = pc[c]
      BY <1>1, <3>2 DEF Caller, On, Perform, Compose, ComposePwle, Begin, SetExternalControl, Off,
         AlwaysOnEnable, InCall, ComposeSum, LeaveExternal, NotPending, StillPending, Activate, Pause,
         Launch, Join, Step, At, Return, caller, TypeOK
    <3>3. ASSUME NEW v \in Calls, Waiter(v) PROVE UNCHANGED pc
      BY <3>3 DEF Waiter, Running, ReadDuration, PollEnds, PollFails, Deactivate, OnComplete,
         WaiterFrame, caller
    <3>4. Driver \/ UNCHANGED vars => UNCHANGED pc
      BY DEF Driver, EffectStarts, EffectTimeEnds, EffectStopsLate, caller, vars
    <3>5. Restart => pc'[c] = "idle" BY DEF Restart
    <3>6. QED BY <1>1, <3>1, <3>2, <3>3, <3>4, <3>5 DEF Next
  <2>4. /\ pc'[c] = pc[c] => CallLeft(c)' = CallLeft(c)
        /\ pc'[c] = "idle" => CallLeft(c)' = 0
    BY DEF CallLeft
  <2>5. QED BY <2>1, <2>2, <2>3, <2>4
<1>2. ASSUME TypeOK, HasCall, [Next]_vars, NEW v \in Calls
      PROVE  IF Waiter(v) THEN WaitLeft(v)' \in 0 .. WaitLeft(v) - 1
             ELSE WaitLeft(v)' > WaitLeft(v) => \E c \in Callers : Launch(c) /\ call[c] = v
  <2>1. WaitLeft(v) \in Nat /\ WaitLeft(v)' \in Nat BY DEF WaitLeft
  <2>2. ASSUME Waiter(v) PROVE WaitLeft(v)' < WaitLeft(v)
    <3>1. \/ wait[v] = "start" /\ wait'[v] = "poll"
          \/ wait[v] = "poll" /\ wait'[v] = "deactivate"
          \/ wait[v] = "deactivate" /\ wait'[v] = "complete"
          \/ wait[v] = "complete" /\ wait'[v] = "none"
      BY <1>2, <2>2 DEF Waiter, Running, ReadDuration, PollEnds, PollFails, Deactivate, OnComplete,
         WaitStep, TypeOK
    <3>2. QED BY <3>1 DEF WaitLeft
  <2>3. ~Waiter(v) =>
          (\E c \in Callers : Launch(c) /\ call[c] = v) \/ wait'[v] = wait[v] \/ wait'[v] = "none"
    <3>1. ASSUME NEW c \in Callers, Launch(c), call[c] # v PROVE wait'[v] = wait[v]
      BY <1>2, <3>1 DEF Launch, TypeOK
    <3>2. ASSUME NEW c \in Callers, Caller(c), ~Launch(c) PROVE UNCHANGED wait
      BY <3>2 DEF Caller, On, Perform, Compose, ComposePwle, Begin, SetExternalControl, Off,
         AlwaysOnEnable, InCall, ComposeSum, LeaveExternal, NotPending, StillPending, Activate, Pause,
         Join, waiter
    <3>3. ASSUME NEW u \in Calls, Waiter(u), u # v PROVE wait'[v] = wait[v]
      BY <1>2, <3>3 DEF Waiter, Running, ReadDuration, PollEnds, PollFails, Deactivate, OnComplete,
         WaitStep, TypeOK
    <3>4. Driver \/ UNCHANGED vars => UNCHANGED wait
      BY DEF Driver, EffectStarts, EffectTimeEnds, EffectStopsLate, waiter, vars
    <3>5. Restart => wait'[v] = "none" BY DEF Restart
    <3>6. QED BY <1>2, <3>1, <3>2, <3>3, <3>4, <3>5 DEF Next
  <2>4. /\ wait'[v] = wait[v] => WaitLeft(v)' = WaitLeft(v)
        /\ wait'[v] = "none" => WaitLeft(v)' = 0
    BY DEF WaitLeft
  <2>5. QED BY <2>1, <2>2, <2>3, <2>4
<1>3. Types /\ [Next]_vars => ThreadsAdvance
  BY <1>1, <1>2 DEF Types, ThreadsAdvance
<1>4. QED BY <1>3, AlwaysTypes, PTL DEF Spec
==============================================================================
