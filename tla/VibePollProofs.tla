---------------------------- MODULE VibePollProofs ----------------------------
(***************************************************************************)
(* Theorems about VibePoll, for any set of pollers: types, no poll sleeps  *)
(* through a stop, and one that answers "stopped" has seen one.            *)
(***************************************************************************)
EXTENDS VibePoll, TLAPS

\* What the read and the history know of each other: a poller that found the
\* driver at rest found it so within its poll.
Noticed == \A p \in Pollers : poll[p] # "idle" /\ ~vibrating => rested[p]

Inv == TypeOK /\ NoLostWakeup /\ Noticed

LEMMA InitInv == Init => Inv
  BY DEF Init, No, Inv, TypeOK, NoLostWakeup, Noticed

LEMMA NextInv == Inv /\ [Next]_vars => Inv'
<1> SUFFICES ASSUME Inv, [Next]_vars PROVE Inv'
  OBVIOUS
<1> USE DEF Inv, TypeOK, NoLostWakeup, Noticed
<1>1. CASE Change BY <1>1 DEF Change
<1>2. CASE Notify BY <1>2 DEF Notify
<1>3. ASSUME NEW p \in Pollers, Call(p) \/ Continue(p) \/ WaitFails(p) PROVE Inv'
  <2> USE DEF driver, Goto, Answer
  <2>1. CASE Call(p)
    <3>1. PICK t \in {"none", "some", "invalid"} : timeout' = [timeout EXCEPT ![p] = t]
      BY <2>1 DEF Call
    <3>2. TypeOK' BY <2>1, <3>1 DEF Call
    <3>3. NoLostWakeup' /\ Noticed' BY <2>1 DEF Call
    <3>4. QED BY <3>2, <3>3
  <2>2. CASE Open(p)
    <3>1. CASE Answer(p, FALSE) /\ UNCHANGED ready BY <2>2, <3>1 DEF Open
    <3>2. CASE Goto(p, "get") /\ UNCHANGED stopped /\ ready' = [ready EXCEPT ![p] = TRUE]
      BY <2>2, <3>2 DEF Open
    <3>3. QED BY <2>2, <3>1, <3>2 DEF Open
  <2>3. CASE Get(p)
    <3>1. CASE Answer(p, FALSE) BY <2>3, <3>1 DEF Get
    <3>2. CASE Answer(p, TRUE) BY <2>3, <3>2 DEF Get
    <3>3. CASE vibrating /\ Goto(p, "wait") /\ UNCHANGED stopped BY <2>3, <3>3 DEF Get
    <3>4. QED BY <2>3, <3>1, <3>2, <3>3 DEF Get
  <2>4. CASE Wake(p)      BY <2>4 DEF Wake
  <2>5. CASE TimeOut(p)   BY <2>5 DEF TimeOut
  <2>6. CASE WaitFails(p) BY <2>6 DEF WaitFails
  <2>7. QED BY <1>3, <2>1, <2>2, <2>3, <2>4, <2>5, <2>6 DEF Continue
<1>4. CASE UNCHANGED vars BY <1>4 DEF vars, driver
<1>5. QED BY <1>1, <1>2, <1>3, <1>4 DEF Next

LEMMA AlwaysInv == Spec => []Inv
<1>1. QED BY InitInv, NextInv, PTL DEF Spec

\* No poll sleeps through a stop (NoLostWakeup), whatever the order of the
\* driver's changes and notices and of the reads of any number of pollers.
THEOREM Woken == Spec => []NoLostWakeup
<1>1. Inv => NoLostWakeup BY DEF Inv
<1>2. QED BY <1>1, AlwaysInv, PTL

\* The steps behind StoppedWasAtRest: only get ends a poll with TRUE, and
\* only if what it reads is 0.
LEMMA AnswersTruly ==
  ASSUME Inv, [Next]_vars, NEW p \in Pollers,
         poll[p] # "idle", poll'[p] = "idle", stopped'[p]
  PROVE  rested[p]
<1> USE DEF Inv, TypeOK, driver, Goto, Answer
<1>1. CASE Change BY <1>1 DEF Change
<1>2. CASE Notify BY <1>2 DEF Notify
<1>3. ASSUME NEW q \in Pollers, Call(q) \/ Continue(q) \/ WaitFails(q) PROVE rested[p]
  <2>1. CASE Call(q)      BY <2>1 DEF Call
  <2>2. CASE Open(q)      BY <2>2 DEF Open
  <2>3. CASE Get(q)       BY <2>3 DEF Get, Noticed
  <2>4. CASE Wake(q)      BY <2>4 DEF Wake
  <2>5. CASE TimeOut(q)   BY <2>5 DEF TimeOut
  <2>6. CASE WaitFails(q) BY <2>6 DEF WaitFails
  <2>7. QED BY <1>3, <2>1, <2>2, <2>3, <2>4, <2>5, <2>6 DEF Continue
<1>4. CASE UNCHANGED vars BY <1>4 DEF vars, driver
<1>5. QED BY <1>1, <1>2, <1>3, <1>4 DEF Next

\* A poll answers TRUE only if the driver was at rest at some moment of that
\* poll (StoppedWasAtRest).
THEOREM TrueAnswers == Spec => StoppedWasAtRest
<1>1. Inv /\ [Next]_vars
        => [\A p \in Pollers :
              poll[p] # "idle" /\ poll'[p] = "idle" /\ stopped'[p] => rested[p]]_vars
  BY AnswersTruly
<1>2. QED BY <1>1, AlwaysInv, PTL DEF Spec, StoppedWasAtRest
==============================================================================
