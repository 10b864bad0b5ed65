------------------------------- MODULE VibePoll -------------------------------
(***************************************************************************)
(* How a waiter learns that a vibration has stopped: HwApiBase::poll on    *)
(* the driver's vibe_state (aidl/vibrator/common/HardwareBase.h), step by  *)
(* step.  It waits for events on a file of its own that it never reads,    *)
(* and reads the value from a stream that all threads share, under         *)
(* mIoMutex; the driver changes the value first and gives notice after.    *)
(***************************************************************************)

CONSTANT Pollers   \* waiters

VARIABLES
  vibrating,   \* vibe_state is not 0
  due,         \* notice of its last change is still to be given
  poll,        \* each poller's place
  timeout,     \* its time-out: none (-1), "some", or "invalid" (below -1)
  ready,       \* an event is waiting at its epollFd
  rested,      \* history: the driver was at rest at some moment of its poll
  stopped      \* what its last poll answered

driver == <<vibrating, due>>
vars == <<driver, poll, timeout, ready, rested, stopped>>

TypeOK ==
  /\ vibrating \in BOOLEAN /\ due \in BOOLEAN
  /\ poll \in [Pollers -> {"idle", "open", "get", "wait"}]
  /\ timeout \in [Pollers -> {"none", "some", "invalid"}]
  /\ ready \in [Pollers -> BOOLEAN] /\ rested \in [Pollers -> BOOLEAN]
  /\ stopped \in [Pollers -> BOOLEAN]

No == [p \in Pollers |-> FALSE]

Init ==
  /\ vibrating \in BOOLEAN /\ due = FALSE
  /\ poll = [p \in Pollers |-> "idle"] /\ timeout = [p \in Pollers |-> "none"]
  /\ ready = No /\ rested = No /\ stopped = No

\* An effect starts, and ends by itself or because it is turned off.
Change ==
  /\ vibrating' = ~vibrating /\ due' = TRUE
  /\ rested' = IF vibrating THEN [p \in Pollers |-> TRUE] ELSE rested
  /\ UNCHANGED <<poll, timeout, ready, stopped>>

\* sysfs_notify.  Files that were never read stay ready for the kernel, so
\* every notice is an event again.
Notify ==
  /\ due /\ due' = FALSE
  /\ ready' = [p \in Pollers |-> ready[p] \/ poll[p] \in {"get", "wait"}]
  /\ UNCHANGED <<vibrating, poll, timeout, rested, stopped>>

Goto(p, place) == poll' = [poll EXCEPT ![p] = place]
Answer(p, a) == Goto(p, "idle") /\ stopped' = [stopped EXCEPT ![p] = a]

Call(p) ==
  /\ poll[p] = "idle" /\ Goto(p, "open")
  /\ \E t \in {"none", "some", "invalid"} : timeout' = [timeout EXCEPT ![p] = t]
  /\ ready' = [ready EXCEPT ![p] = FALSE] /\ rested' = [rested EXCEPT ![p] = ~vibrating]
  /\ UNCHANGED <<driver, stopped>>

\* The time-out is looked at and the file added to epollFd; it was never
\* read, so there is an event at once.
Open(p) ==
  /\ poll[p] = "open"
  /\ \/ Answer(p, FALSE) /\ UNCHANGED ready
     \/ /\ timeout[p] # "invalid" /\ Goto(p, "get")
        /\ ready' = [ready EXCEPT ![p] = TRUE] /\ UNCHANGED stopped
  /\ UNCHANGED <<driver, timeout, rested>>

\* get(): a value that cannot be read ends the poll as well.
Get(p) ==
  /\ poll[p] = "get"
  /\ \/ Answer(p, FALSE)
     \/ ~vibrating /\ Answer(p, TRUE)
     \/ vibrating /\ Goto(p, "wait") /\ UNCHANGED stopped
  /\ UNCHANGED <<driver, timeout, ready, rested>>

\* Mutant: an event is taken for the stop.
WakeStopped(p) ==
  /\ poll[p] = "wait" /\ ready[p] /\ ready' = [ready EXCEPT ![p] = FALSE]
  /\ Answer(p, TRUE)
  /\ UNCHANGED <<driver, timeout, rested>>

\* Mutant: the value is not read again.
WakeOnly(p) ==
  /\ poll[p] = "wait" /\ ready[p] /\ ready' = [ready EXCEPT ![p] = FALSE]
  /\ UNCHANGED <<driver, poll, timeout, rested, stopped>>

\* epoll_wait returns with an event.
Wake(p) ==
  /\ poll[p] = "wait" /\ ready[p] /\ ready' = [ready EXCEPT ![p] = FALSE]
  /\ Goto(p, "get")
  /\ UNCHANGED <<driver, timeout, rested, stopped>>

\* It returns without one when there was none for as long as the time-out,
\* which every call of it counts anew.
TimeOut(p) ==
  /\ poll[p] = "wait" /\ timeout[p] = "some" /\ ~ready[p]
  /\ Answer(p, FALSE)
  /\ UNCHANGED <<driver, timeout, ready, rested>>

\* It fails.
WaitFails(p) ==
  /\ poll[p] = "wait" /\ Answer(p, FALSE)
  /\ UNCHANGED <<driver, timeout, ready, rested>>

Continue(p) == Open(p) \/ Get(p) \/ Wake(p) \/ TimeOut(p)
Next ==
  \/ Change \/ Notify
  \/ \E p \in Pollers : Call(p) \/ Continue(p) \/ WaitFails(p)

\* The driver gives its notices, and a thread that can go on does.
Spec ==
  /\ Init /\ [][Next]_vars /\ WF_vars(Notify)
  /\ \A p \in Pollers : WF_vars(Continue(p))

\* A poll that answers "stopped" has seen the driver at rest, although
\* events come for starts, for nothing, and for changes that are undone.
StoppedWasAtRest ==
  [][\A p \in Pollers :
       poll[p] # "idle" /\ poll'[p] = "idle" /\ stopped'[p] => rested[p]]_vars

\* No stop is slept through: however read, change and notice interleave, a
\* waiter that sleeps while the driver is at rest will be woken.
NoLostWakeup ==
  \A p \in Pollers : poll[p] = "wait" /\ ~vibrating => ready[p] \/ due

\* A poll ends once the driver stays at rest and, if it has a time-out, also
\* when the driver never stops but has nothing new to tell.
PollEnds ==
  \A p \in Pollers :
    /\ <>[](~vibrating /\ ~due) => (poll[p] # "idle" ~> poll[p] = "idle")
    /\ <>[](~due) => (poll[p] # "idle" /\ timeout[p] = "some" ~> poll[p] = "idle")
==============================================================================
