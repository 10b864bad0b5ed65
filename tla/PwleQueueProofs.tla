---------------------------- MODULE PwleQueueProofs ----------------------------
(***************************************************************************)
(* Theorems about PwleQueue, for any limits, any sizes and any primitives  *)
(* a client may ask for: what composePwle writes is what was asked, no     *)
(* level is further above the limit in force than printing takes it, and   *)
(* the driver is told the time that the segments take, as an unsigned.     *)
(***************************************************************************)
EXTENDS PwleQueue, SequenceTheorems, WellFoundedInduction, TLAPS

LEMMA TableTypes == Allowed \in [Hertz -> Hundredths] /\ Untuned \in Hundredths
  BY PwleAssumption

LEMMA ClipTypes == ASSUME NEW l \in Hundredths, NEW f \in HalfHertz PROVE Clip(l, f) \in Hundredths
<1>1. PICK i \in Hertz : i = f \div 2 BY DEF Hertz, HalfHertz
<1>2. Limit(i) \in Hundredths
  <2>1. Allowed[i] \in Hundredths BY TableTypes
  <2>2. QED BY <2>1, TableTypes DEF Limit
<1>3. Clip(l, f) = Lesser(Lesser(l, 99), Limit(i)) BY <1>1 DEF Clip
<1>4. QED BY <1>2, <1>3 DEF Lesser, Hundredths

LEMMA SegmentTypes ==
  ASSUME NEW t \in Int, NEW point \in Points, NEW brake \in 0..2
  PROVE  Segment(t, point, brake) \in Segments
  BY DEF Segment, Segments, Points, Written, Round, Hundredths

LEMMA PointTypes ==
  ASSUME NEW e \in Actives, Valid(e)
  PROVE  Start(e) \in Points /\ End(e) \in Points
<1>1. e.kind = "active" BY DEF Actives
<1>2. e.startLevel \in Hundredths /\ e.startFreq \in HalfHertz
      /\ e.endLevel \in Hundredths /\ e.endFreq \in HalfHertz
  BY <1>1 DEF Valid, ValidPoint
<1>3. Clip(e.startLevel, e.startFreq) \in Hundredths /\ Clip(e.endLevel, e.endFreq) \in Hundredths
  BY <1>2, ClipTypes
<1>4. e.startFreq \in Int /\ e.endFreq \in Int BY PwleAssumption DEF Actives
<1>5. QED BY <1>3, <1>4 DEF Start, End, Point, Points

\* What Active and Braking do to the sequences: n segments more, the last of
\* which is s.
LEMMA Added ==
  ASSUME TypeOK, NEW e \in Actives \cup Brakings, NEW jump \in Seq(Segments),
         NEW s \in Segments, NEW point \in Points, Add(e, Append(jump, s), point)
  PROVE  /\ TypeOK'
         /\ Len(queue') = Len(queue) + Len(jump) + 1 /\ queue'[Len(queue')] = s
         /\ \A i \in 1..Len(queue) : queue'[i] = queue[i]
         /\ \A i \in 1..Len(jump) : queue'[Len(queue) + i] = jump[i]
         /\ Len(composite') = Len(composite) + 1 /\ composite'[Len(composite')] = e
         /\ last'[Len(composite')] = Len(queue')
         /\ \A k \in 1..Len(composite) : composite'[k] = composite[k] /\ last'[k] = last[k]
<1> DEFINE more == Append(jump, s)
<1>1. /\ more \in Seq(Segments) /\ Len(more) = Len(jump) + 1 /\ more[Len(more)] = s
      /\ \A i \in 1..Len(jump) : more[i] = jump[i]
  OBVIOUS
<1>2. /\ queue' = queue \o more /\ last' = Append(last, Len(queue) + Len(more))
      /\ composite' = Append(composite, e) /\ prev' = point /\ UNCHANGED tuned
  BY DEF Add
<1> HIDE DEF more
<1>3. /\ queue' \in Seq(Segments) /\ Len(queue') = Len(queue) + Len(jump) + 1
      /\ queue'[Len(queue')] = s /\ \A i \in 1..Len(queue) : queue'[i] = queue[i]
      /\ \A i \in 1..Len(jump) : queue'[Len(queue) + i] = jump[i]
  <2>1. queue \in Seq(Segments) BY DEF TypeOK
  <2>2. /\ queue' \in Seq(Segments) /\ Len(queue') = Len(queue) + Len(more)
        /\ \A i \in 1..Len(queue) + Len(more) :
             queue'[i] = IF i <= Len(queue) THEN queue[i] ELSE more[i - Len(queue)]
    <3>1. /\ queue \o more \in Seq(Segments) /\ Len(queue \o more) = Len(queue) + Len(more)
          /\ \A i \in 1..Len(queue) + Len(more) :
               (queue \o more)[i] = IF i <= Len(queue) THEN queue[i] ELSE more[i - Len(queue)]
      BY <1>1, <2>1, ConcatProperties, Zenon
    <3>2. queue' = queue \o more BY <1>2
    <3>3. QED BY <3>1, <3>2, Zenon
  <2>3. Len(jump) \in Nat /\ Len(queue) \in Nat BY <2>1
  <2>4. \A i \in 1..Len(queue) : queue'[i] = queue[i] BY <1>1, <2>2, <2>3
  <2>5. queue'[Len(queue')] = s BY <1>1, <2>2, <2>3
  <2>6. \A i \in 1..Len(jump) : queue'[Len(queue) + i] = jump[i] BY <1>1, <2>2, <2>3
  <2>7. QED BY <1>1, <2>2, <2>3, <2>4, <2>5, <2>6
<1>4. /\ composite' \in Seq(Actives \cup Brakings)
      /\ Len(composite') = Len(composite) + 1 /\ composite'[Len(composite')] = e
      /\ \A k \in 1..Len(composite) : composite'[k] = composite[k]
  BY <1>2 DEF TypeOK
<1>5. /\ last' \in Seq(Nat) /\ Len(last') = Len(last) + 1 /\ last'[Len(last')] = Len(queue')
      /\ \A k \in 1..Len(last) : last'[k] = last[k]
  BY <1>1, <1>2, <1>3 DEF TypeOK
<1>6. \A k \in 1..Len(last') : last'[k] \in 1..Len(queue')
  <2>1. Len(queue) \in Nat /\ Len(jump) \in Nat /\ Len(last) \in Nat BY DEF TypeOK
  <2>2. ASSUME NEW k \in 1..Len(last) PROVE last'[k] \in 1..Len(queue')
    <3>1. last[k] \in 1..Len(queue) BY <2>2 DEF TypeOK
    <3>2. last'[k] = last[k] BY <1>5, <2>2
    <3>3. Len(queue') = Len(queue) + Len(jump) + 1 BY <1>3
    <3>4. QED BY <2>1, <3>1, <3>2, <3>3
  <2>3. last'[Len(last')] \in 1..Len(queue') BY <1>3, <1>5, <2>1
  <2>4. QED BY <1>5, <2>1, <2>2, <2>3
<1>7. last' # <<>> BY <1>5
<1>8. TypeOK'
  <2>1. e.duration \in Int BY PwleAssumption DEF Actives, Brakings
  <2>2. total' = (total + e.duration) % Width BY DEF Add
  <2>3. total' \in Int BY <2>1, <2>2, PwleAssumption DEF TypeOK
  <2>4. QED BY <1>2, <1>3, <1>4, <1>5, <1>6, <1>7, <2>3 DEF TypeOK
<1>9. QED BY <1>3, <1>4, <1>5, <1>8 DEF TypeOK

LEMMA ActiveAdds ==
  ASSUME TypeOK, Active
  PROVE  \E e \in Actives : Valid(e) /\ Start(e) \in Points /\ End(e) \in Points
           /\ Jump(e) \in Seq(Segments) /\ Segment(e.duration, End(e), 0) \in Segments
           /\ Add(e, Append(Jump(e), Segment(e.duration, End(e), 0)), End(e))
<1>1. PICK e \in Actives :
        Valid(e) /\ Add(e, Append(Jump(e), Segment(e.duration, End(e), 0)), End(e))
  BY DEF Active
<1>2. Start(e) \in Points /\ End(e) \in Points BY <1>1, PointTypes
<1>3. e.duration \in Int BY PwleAssumption DEF Actives
<1>4. Segment(0, Start(e), 0) \in Segments /\ Segment(e.duration, End(e), 0) \in Segments
  BY <1>2, <1>3, SegmentTypes
<1>5. Jump(e) \in Seq(Segments) BY <1>4 DEF Jump
<1>6. QED BY <1>1, <1>2, <1>4, <1>5

BrakeSegment(e) == Segment(e.duration, Stopped, e.type)

LEMMA BrakingAdds ==
  ASSUME TypeOK, Braking
  PROVE  \E e \in Brakings : Valid(e) /\ Stopped \in Points /\ BrakeSegment(e) \in Segments
           /\ Add(e, Append(<<>>, BrakeSegment(e)), Stopped)
<1>1. PICK e \in Brakings : Valid(e) /\ Add(e, <<BrakeSegment(e)>>, Stopped)
  BY DEF Braking, BrakeSegment, Stopped
<1>2. Stopped \in Points BY DEF TypeOK, Stopped, Point, Points, Hundredths
<1>3. e.duration \in Int /\ e.type \in 0..2 BY PwleAssumption DEF Brakings
<1>4. BrakeSegment(e) \in Segments BY <1>2, <1>3, SegmentTypes DEF BrakeSegment
<1>5. Append(<<>>, BrakeSegment(e)) = <<BrakeSegment(e)>> BY <1>4
<1>6. QED BY <1>1, <1>2, <1>4, <1>5

-----------------------------------------------------------------------------

\* The queue ends where the next primitive is taken to begin.
Continues == IF queue = <<>> THEN prev = Rest ELSE IsAt(queue[Len(queue)], prev)

Segmented == \A k \in 1..Len(composite) : Plays(composite[k], Before(k), Ends(k))

Launched ==
  /\ driver \in [written : BOOLEAN, effect : {"other", "pwle"}, duration : Int]
  /\ pc \in {"write", "ok"} => driver.written
  /\ pc = "ok" => driver.effect = "pwle"

PlayInv == TypeOK /\ Continues /\ Segmented /\ Launched

\* Where the segment that follows the queue and n jumps begins.
From(jump) ==
  IF jump # <<>> THEN jump[Len(jump)]
  ELSE IF queue # <<>> THEN queue[Len(queue)] ELSE Segment(0, Rest, 0)

LEMMA Grown ==
  ASSUME TypeOK, Segmented,
         NEW e \in Actives \cup Brakings, NEW jump \in Seq(Segments),
         NEW s \in Segments, NEW point \in Points, Add(e, Append(jump, s), point),
         Plays(e, From(jump), s), IsAt(s, point)
  PROVE  TypeOK' /\ Segmented' /\ Continues'
<1>1. /\ TypeOK'
      /\ Len(queue') = Len(queue) + Len(jump) + 1 /\ queue'[Len(queue')] = s
      /\ \A i \in 1..Len(queue) : queue'[i] = queue[i]
      /\ \A i \in 1..Len(jump) : queue'[Len(queue) + i] = jump[i]
      /\ Len(composite') = Len(composite) + 1 /\ composite'[Len(composite')] = e
      /\ last'[Len(composite')] = Len(queue')
      /\ \A k \in 1..Len(composite) : composite'[k] = composite[k] /\ last'[k] = last[k]
  BY Added
<1>2. tuned' = tuned /\ prev' = point BY DEF Add
<1>3. Len(queue) \in Nat /\ Len(jump) \in Nat /\ Len(composite) \in Nat BY DEF TypeOK
<1>4. ASSUME NEW k \in 1..Len(composite)
      PROVE  Plays(composite[k], Before(k), Ends(k))'
  <2>1. Plays(composite[k], Before(k), Ends(k)) BY DEF Segmented
  <2>2. last[k] \in 1..Len(queue) /\ last'[k] = last[k] /\ composite'[k] = composite[k]
    BY <1>1 DEF TypeOK
  <2>3. Ends(k)' = Ends(k) BY <1>1, <2>2 DEF Ends
  <2>4. Before(k)' = Before(k)
    <3>1. CASE last[k] = 1 BY <2>2, <3>1 DEF Before, Segment, Rest, Point
    <3>2. CASE last[k] # 1
      <4>1. last[k] - 1 \in 1..Len(queue) BY <1>3, <2>2, <3>2
      <4>2. QED BY <1>1, <2>2, <3>2, <4>1 DEF Before
    <3>3. QED BY <3>1, <3>2
  <2>5. QED
    BY <1>2, <2>1, <2>2, <2>3, <2>4 DEF Plays, IsAt, Start, End, Point, Clip, Limit
<1>5. Plays(composite[Len(composite)], Before(Len(composite)), Ends(Len(composite)))'
  <2>1. Ends(Len(composite))' = s BY <1>1 DEF Ends
  <2>2. Before(Len(composite))' = From(jump)
    <3>1. CASE jump # <<>>
      <4>1. Len(jump) \in 1..Len(jump) /\ Len(queue) + Len(jump) = Len(queue') - 1
            /\ Len(queue') # 1
        BY <1>1, <1>3, <3>1
      <4>2. queue'[Len(queue') - 1] = jump[Len(jump)] BY <1>1, <4>1
      <4>3. QED BY <1>1, <3>1, <4>1, <4>2 DEF Before, From
    <3>2. CASE jump = <<>> /\ queue # <<>>
      <4>1. Len(queue) \in 1..Len(queue) /\ Len(queue') - 1 = Len(queue) /\ Len(queue') # 1
        BY <1>1, <1>3, <3>2 DEF TypeOK
      <4>2. queue'[Len(queue') - 1] = queue[Len(queue)] BY <1>1, <4>1
      <4>3. QED BY <1>1, <3>2, <4>1, <4>2 DEF Before, From
    <3>3. CASE jump = <<>> /\ queue = <<>>
      <4>1. Len(queue') = 1 BY <1>1, <3>3
      <4>2. QED BY <1>1, <3>3, <4>1 DEF Before, From, Segment, Rest, Point
    <3>4. QED BY <3>1, <3>2, <3>3
  <2>3. QED
    BY <1>1, <1>2, <2>1, <2>2 DEF Plays, IsAt, Start, End, Point, Clip, Limit
<1>6. Segmented'
  <2>1. \A k \in 1..Len(composite') : k \in 1..Len(composite) \/ k = Len(composite')
    BY <1>1, <1>3
  <2>2. QED BY <1>4, <1>5, <2>1 DEF Segmented
<1>7. Continues'
  <2>1. queue' # <<>> BY <1>1, <1>3
  <2>2. QED BY <1>1, <1>2, <2>1 DEF Continues, IsAt
<1>8. QED BY <1>1, <1>6, <1>7

LEMMA TypesBegin == ASSUME TypeOK, Begin PROVE TypeOK'
<1>1. /\ tuned' = tuned /\ prev' = Rest /\ composite' = <<>> /\ queue' = <<>> /\ last' = <<>>
      /\ total' = 0
  BY DEF Begin
<1>2. Rest \in Points BY PwleAssumption DEF Rest, Point, Points, Hundredths
<1>3. QED BY <1>1, <1>2 DEF TypeOK

LEMMA PlayInit == Init => PlayInv
<1> SUFFICES ASSUME Init PROVE PlayInv OBVIOUS
<1>1. Resonant \in Int BY PwleAssumption
<1>2. Rest \in Points BY <1>1 DEF Rest, Point, Points, Hundredths
<1>3. tuned \in BOOLEAN BY PwleAssumption DEF Init
<1>4. TypeOK BY <1>2, <1>3 DEF Init, TypeOK
<1>5. Continues /\ Segmented BY DEF Init, Continues, Segmented
<1>6. Launched BY DEF Init, Launched
<1>7. QED BY <1>4, <1>5, <1>6 DEF PlayInv

LEMMA ActivePlays ==
  ASSUME TypeOK, Segmented, Continues, Active PROVE TypeOK' /\ Segmented' /\ Continues'
<1>1. PICK e \in Actives :
        /\ Valid(e) /\ Start(e) \in Points /\ End(e) \in Points
        /\ Jump(e) \in Seq(Segments) /\ Segment(e.duration, End(e), 0) \in Segments
        /\ Add(e, Append(Jump(e), Segment(e.duration, End(e), 0)), End(e))
  BY ActiveAdds
<1> DEFINE s == Segment(e.duration, End(e), 0)
<1>2. e.kind = "active" BY DEF Actives
<1>3. s.t = e.duration /\ IsAt(s, End(e)) BY DEF Segment, IsAt
<1>4. IsAt(From(Jump(e)), Start(e))
  <2>1. CASE Start(e) = prev
    <3>1. Jump(e) = <<>> BY <2>1 DEF Jump
    <3>2. CASE queue = <<>>
      <4>1. prev = Rest /\ From(Jump(e)) = Segment(0, Rest, 0) BY <3>1, <3>2 DEF Continues, From
      <4>2. QED BY <2>1, <4>1 DEF Segment, IsAt
    <3>3. CASE queue # <<>> BY <2>1, <3>1, <3>3 DEF Continues, From
    <3>4. QED BY <3>2, <3>3
  <2>2. CASE Start(e) # prev
    <3>1. From(Jump(e)) = Segment(0, Start(e), 0) BY <2>2 DEF Jump, From
    <3>2. QED BY <3>1 DEF Segment, IsAt
  <2>3. QED BY <2>1, <2>2
<1>5. Plays(e, From(Jump(e)), s) BY <1>2, <1>3, <1>4 DEF Plays
<1> HIDE DEF s
<1>6. s \in Segments /\ Add(e, Append(Jump(e), s), End(e)) BY <1>1 DEF s
<1>7. QED BY <1>1, <1>3, <1>5, <1>6, Grown

LEMMA BrakingPlays ==
  ASSUME TypeOK, Segmented, Continues, Braking PROVE TypeOK' /\ Segmented' /\ Continues'
<1>1. PICK e \in Brakings :
        /\ Stopped \in Points /\ BrakeSegment(e) \in Segments
        /\ Add(e, Append(<<>>, BrakeSegment(e)), Stopped)
  BY BrakingAdds
<1>2. e.kind = "braking" BY DEF Brakings
<1>3. /\ BrakeSegment(e).t = e.duration /\ BrakeSegment(e).level = 0
      /\ BrakeSegment(e).freq = Round(prev.freq) /\ IsAt(BrakeSegment(e), Stopped)
  BY DEF BrakeSegment, Segment, Stopped, Point, IsAt, Written
<1>4. From(<<>>).freq = Round(prev.freq)
  <2>1. CASE queue = <<>> BY <2>1 DEF Continues, From, Segment
  <2>2. CASE queue # <<>> BY <2>2 DEF Continues, From, IsAt
  <2>3. QED BY <2>1, <2>2
<1>5. Plays(e, From(<<>>), BrakeSegment(e)) BY <1>2, <1>3, <1>4 DEF Plays
<1>6. <<>> \in Seq(Segments) OBVIOUS
<1>7. QED BY <1>1, <1>3, <1>5, <1>6, Grown

LEMMA PlayNext == ASSUME ~WritesFail PROVE PlayInv /\ [Next]_vars => PlayInv'
<1> SUFFICES ASSUME PlayInv, [Next]_vars PROVE PlayInv' OBVIOUS
<1>1. TypeOK /\ Continues /\ Segmented /\ Launched BY DEF PlayInv
<1>2. ASSUME UNCHANGED <<tuned, call>> PROVE TypeOK' /\ Continues' /\ Segmented'
  BY <1>1, <1>2 DEF call, TypeOK, Continues, Segmented, Plays, Before, Ends, IsAt,
                    Start, End, Point, Clip, Limit, Segment, Rest
<1>3. CASE GetPwleCompositionSizeMax
  BY <1>1, <1>2, <1>3 DEF GetPwleCompositionSizeMax, PlayInv, Launched
<1>4. CASE OtherEffect
  <2>1. pc' = "idle" /\ driver' = [driver EXCEPT !.effect = "other", !.duration = 0]
    BY <1>4 DEF OtherEffect
  <2>2. driver' \in [written : BOOLEAN, effect : {"other", "pwle"}, duration : Int]
    <3> DEFINE Effects == {"other", "pwle"}
    <3>1. "other" \in Effects OBVIOUS
    <3>2. driver \in [written : BOOLEAN, effect : Effects, duration : Int] BY <1>1 DEF Launched
    <3> HIDE DEF Effects
    <3>3. driver' = [written |-> driver.written, effect |-> "other", duration |-> 0]
          /\ driver.written \in BOOLEAN
      BY <2>1, <3>2
    <3>4. driver' \in [written : BOOLEAN, effect : Effects, duration : Int] BY <3>1, <3>3
    <3>5. QED BY <3>4 DEF Effects
  <2>3. Launched' BY <2>1, <2>2 DEF Launched
  <2>4. QED BY <1>2, <1>4, <2>3 DEF OtherEffect, PlayInv
<1>5. CASE Begin
  <2>1. Launched' BY <1>1, <1>5 DEF Begin, Launched
  <2>2. TypeOK' BY <1>1, <1>5, TypesBegin
  <2>3. prev' = Rest /\ composite' = <<>> /\ queue' = <<>> BY <1>5 DEF Begin
  <2>4. Continues' /\ Segmented' BY <2>3 DEF Continues, Segmented, Rest, Point
  <2>5. QED BY <2>1, <2>2, <2>4 DEF PlayInv
<1>6. CASE Active
  <2>1. Launched' BY <1>1, <1>6 DEF Active, Add, Launched
  <2>2. QED BY <1>1, <1>6, <2>1, ActivePlays DEF PlayInv
<1>7. CASE Braking
  <2>1. Launched' BY <1>1, <1>7 DEF Braking, Add, Launched
  <2>2. QED BY <1>1, <1>7, <2>1, BrakingPlays DEF PlayInv
<1>8. CASE Invalid
  <2>1. Launched' BY <1>1, <1>8 DEF Invalid, Refuse, Launched
  <2>2. QED BY <1>2, <1>8, <2>1 DEF Invalid, Refuse, PlayInv
<1>9. CASE Write
  <2>1. Launched' BY <1>1, <1>9 DEF Write, Refuse, Launched
  <2>2. QED BY <1>2, <1>9, <2>1 DEF Write, Refuse, PlayInv
<1>10. CASE Launch
  <2>1. Told \in Int
    <3>1. Width \in Nat \ {0} /\ total \in Int BY <1>1, PwleAssumption DEF TypeOK
    <3>2. QED BY <3>1 DEF Told
  <2>2. Launched' BY <1>1, <1>10, <2>1 DEF Launch, Launched
  <2>3. QED BY <1>2, <1>10, <2>2 DEF Launch, PlayInv
<1>11. CASE UNCHANGED vars BY <1>1, <1>2, <1>11 DEF vars, PlayInv, Launched
<1>12. QED BY <1>3, <1>4, <1>5, <1>6, <1>7, <1>8, <1>9, <1>10, <1>11 DEF Next

\* Whatever the limits, the sizes and the primitives, composePwle writes what
\* was asked and plays it, if the driver takes the writes it does not check.
THEOREM Asked == ASSUME ~WritesFail PROVE Spec => []PlaysWhatIsAsked
<1>1. PlayInv => PlaysWhatIsAsked BY DEF PlayInv, Segmented, Launched, PlaysWhatIsAsked
<1>2. QED BY <1>1, PlayInit, PlayNext, PTL DEF Spec

-----------------------------------------------------------------------------

LEMMA TypesStart == Init => TypeOK
  BY PlayInit DEF PlayInv

\* The types for any constants, whatever the driver refuses.
THEOREM QueueTypes == Spec => []TypeOK
<1>1. TypeOK /\ [Next]_vars => TypeOK'
  <2> SUFFICES ASSUME TypeOK, [Next]_vars PROVE TypeOK' OBVIOUS
  <2>1. CASE Active BY <2>1, ActiveAdds, Added
  <2>2. CASE Braking
    <3>1. <<>> \in Seq(Segments) OBVIOUS
    <3>2. QED BY <2>2, <3>1, BrakingAdds, Added
  <2>3. CASE Begin BY <2>3, TypesBegin
  <2>4. CASE GetPwleCompositionSizeMax \/ OtherEffect \/ Invalid \/ Write \/ Launch
             \/ UNCHANGED vars
    <3>1. UNCHANGED <<tuned, call>>
      BY <2>4 DEF GetPwleCompositionSizeMax, OtherEffect, Invalid, Refuse, Write, Launch, vars
    <3>2. QED BY <3>1 DEF call, TypeOK
  <2>5. QED BY <2>1, <2>2, <2>3, <2>4 DEF Next
<1>2. QED BY <1>1, TypesStart, PTL DEF Spec

-----------------------------------------------------------------------------

LimitInv == TypeOK /\ LevelsLimited

LEMMA PrintedNear == ASSUME NEW a \in Hundredths PROVE Written(a) <= a + 5
<1>1. a \in Nat BY DEF Hundredths
<1>2. 10 * ((IF a \in Down THEN a ELSE a + 5) \div 10) <= a + 5 BY <1>1
<1>3. QED BY <1>1, <1>2 DEF Written

LEMMA PointLimited ==
  ASSUME NEW t, NEW l \in Hundredths, NEW f \in HalfHertz
  PROVE  Limited(Segment(t, Point(Clip(l, f), f), 0))
<1>1. PICK i \in Hertz : i = f \div 2 BY DEF Hertz, HalfHertz
<1>2. Allowed[i] \in Hundredths BY TableTypes
<1>3. Limit(i) \in Hundredths BY <1>2, TableTypes DEF Limit
<1>4. Clip(l, f) \in Hundredths /\ Clip(l, f) <= Limit(i)
  <2>1. Clip(l, f) = Lesser(Lesser(l, 99), Limit(i)) BY <1>1 DEF Clip
  <2>2. QED BY <1>3, <2>1, ClipTypes DEF Lesser, Hundredths
<1>5. Written(Clip(l, f)) <= Limit(i) + 5
  <2>1. Written(Clip(l, f)) <= Clip(l, f) + 5 BY <1>4, PrintedNear
  <2>2. Written(Clip(l, f)) \in Int BY <1>4 DEF Written, Hundredths
  <2>3. QED BY <1>3, <1>4, <2>1, <2>2 DEF Hundredths
<1>6. i \in {Round(f), Round(f) - 1} BY <1>1 DEF Round, HalfHertz
<1>7. QED BY <1>5, <1>6 DEF Limited, Segment, Point

LEMMA LimitNext == LimitInv /\ [Next]_vars => LimitInv'
<1> SUFFICES ASSUME LimitInv, [Next]_vars PROVE LimitInv' OBVIOUS
<1>1. TypeOK /\ LevelsLimited BY DEF LimitInv
<1>2. tuned' = tuned
  BY DEF Next, GetPwleCompositionSizeMax, OtherEffect, Begin, Active, Braking, Add,
         Invalid, Refuse, Write, Launch, vars
<1>3. ASSUME UNCHANGED call PROVE LimitInv'
  BY <1>1, <1>2, <1>3 DEF call, LimitInv, TypeOK, LevelsLimited, Limited, Limit
<1>4. ASSUME NEW e \in Actives \cup Brakings, NEW jump \in Seq(Segments),
             NEW s \in Segments, NEW point \in Points, Add(e, Append(jump, s), point),
             Limited(s), jump # <<>> => Len(jump) = 1 /\ Limited(jump[1])
      PROVE  LimitInv'
  <2>1. /\ TypeOK'
        /\ Len(queue') = Len(queue) + Len(jump) + 1 /\ queue'[Len(queue')] = s
        /\ \A i \in 1..Len(queue) : queue'[i] = queue[i]
        /\ \A i \in 1..Len(jump) : queue'[Len(queue) + i] = jump[i]
    BY <1>1, <1>4, Added
  <2>2. Len(queue) \in Nat /\ Len(jump) \in Nat BY <1>1 DEF TypeOK
  <2>3. ASSUME NEW k \in 1..Len(queue') PROVE Limited(queue'[k])
    <3>1. CASE k \in 1..Len(queue) BY <1>1, <2>1, <3>1 DEF LevelsLimited
    <3>2. CASE k = Len(queue') BY <1>4, <2>1, <3>2
    <3>3. CASE jump # <<>> /\ k = Len(queue) + 1
      <4>1. 1 \in 1..Len(jump) BY <1>4, <3>3
      <4>2. queue'[Len(queue) + 1] = jump[1] BY <2>1, <4>1
      <4>3. QED BY <1>4, <3>3, <4>2
    <3>4. k \in 1..Len(queue) \/ k = Len(queue') \/ (jump # <<>> /\ k = Len(queue) + 1)
      BY <1>4, <2>1, <2>2
    <3>5. QED BY <3>1, <3>2, <3>3, <3>4
  <2>4. LevelsLimited' BY <1>2, <2>3 DEF LevelsLimited, Limited, Limit
  <2>5. QED BY <1>1, <1>2, <2>1, <2>4 DEF LimitInv
<1>5. CASE Active
  <2>1. PICK e \in Actives :
          /\ Valid(e) /\ Start(e) \in Points /\ End(e) \in Points
          /\ Jump(e) \in Seq(Segments) /\ Segment(e.duration, End(e), 0) \in Segments
          /\ Add(e, Append(Jump(e), Segment(e.duration, End(e), 0)), End(e))
    BY <1>1, <1>5, ActiveAdds
  <2>2. /\ e.startLevel \in Hundredths /\ e.startFreq \in HalfHertz
        /\ e.endLevel \in Hundredths /\ e.endFreq \in HalfHertz
    BY <2>1 DEF Actives, Valid, ValidPoint
  <2>3. Limited(Segment(e.duration, End(e), 0)) BY <1>1, <2>2, PointLimited DEF End
  <2>4. Limited(Segment(0, Start(e), 0)) BY <1>1, <2>2, PointLimited DEF Start
  <2>5. Jump(e) # <<>> => Len(Jump(e)) = 1 /\ Limited(Jump(e)[1]) BY <2>4 DEF Jump
  <2>6. QED BY <1>4, <2>1, <2>3, <2>5
<1>6. CASE Braking
  <2>1. PICK e \in Brakings :
          /\ Stopped \in Points /\ BrakeSegment(e) \in Segments
          /\ Add(e, Append(<<>>, BrakeSegment(e)), Stopped)
    BY <1>1, <1>6, BrakingAdds
  <2>2. Limited(BrakeSegment(e))
    BY DEF Limited, BrakeSegment, Segment, Stopped, Point, Written
  <2>3. <<>> \in Seq(Segments) OBVIOUS
  <2>4. QED BY <1>4, <2>1, <2>2, <2>3
<1>7. CASE Begin
  <2>1. queue' = <<>> BY <1>7 DEF Begin
  <2>2. LevelsLimited' BY <2>1 DEF LevelsLimited
  <2>3. QED BY <1>1, <1>2, <1>7, <2>2, TypesBegin DEF LimitInv
<1>8. CASE GetPwleCompositionSizeMax \/ OtherEffect \/ Invalid \/ Write \/ Launch
           \/ UNCHANGED vars
  <2>1. UNCHANGED call
    BY <1>8 DEF GetPwleCompositionSizeMax, OtherEffect, Invalid, Refuse, Write, Launch, vars
  <2>2. QED BY <1>3, <2>1
<1>9. QED BY <1>5, <1>6, <1>7, <1>8 DEF Next

\* No composition, however long, takes the driver further above the limit in
\* force where a segment starts or ends than printing a level may, whatever
\* the flag was that the table depends on.
THEOREM LevelsKept == Spec => []LevelsLimited
<1>1. Init => LimitInv
  BY TypesStart DEF Init, LimitInv, LevelsLimited
<1>2. LimitInv => LevelsLimited BY DEF LimitInv
<1>3. QED BY <1>1, <1>2, LimitNext, PTL DEF Spec

-----------------------------------------------------------------------------
(* What Times computes.  It is defined by recursion: each fact about it is *)
(* proved for the least index at which it could be false.                  *)

Below == {p \in Nat \X Nat : p[1] < p[2]}

LEMMA LeastOf ==
  ASSUME NEW T, T \subseteq Nat, T # {}
  PROVE  \E n \in T : \A m \in T : n <= m
<1>1. IsWellFoundedOn(Below, Nat)
  <2>1. OpToRel(<, Nat) = Below BY DEF OpToRel, Below
  <2>2. QED BY <2>1, NatLessThanWellFounded
<1>2. PICK n \in T : \A m \in T : <<m, n>> \notin Below
  BY <1>1, WFMin
<1>3. ASSUME NEW m \in T PROVE n <= m
  <2>1. n \in Nat /\ m \in Nat OBVIOUS
  <2>2. m < n => <<m, n>> \in Below BY <2>1 DEF Below
  <2>3. QED BY <1>2, <2>1, <2>2
<1>4. QED BY <1>3

\* f sums up the times of the first n segments of q.
Follows(q, n, f) ==
  /\ f[0] = 0
  /\ \A k \in 1..n : f[k] = f[k - 1] + q[k].t

Sums(q, n, f) == f \in [0..n -> Int] /\ Follows(q, n, f)

LEMMA TimeType == ASSUME NEW s \in Segments PROVE s.t \in Int
  BY DEF Segments

LEMMA SumsExist ==
  ASSUME NEW q \in Seq(Segments), NEW n \in 0..Len(q)
  PROVE  \E f : Sums(q, n, f)
<1> DEFINE T == {k \in 0..Len(q) : ~\E f : Sums(q, k, f)}
<1>1. SUFFICES ASSUME T # {} PROVE FALSE OBVIOUS
<1>2. T \subseteq Nat OBVIOUS
<1>3. PICK m \in T : \A k \in T : m <= k BY <1>1, <1>2, LeastOf
<1>4. m \in 0..Len(q) /\ ~\E f : Sums(q, m, f) OBVIOUS
<1>5. CASE m = 0
  <2>1. Sums(q, 0, [k \in 0..0 |-> 0]) BY DEF Sums, Follows
  <2>2. QED BY <1>4, <1>5, <2>1
<1>6. CASE m # 0
  <2>1. m - 1 \in 0..Len(q) /\ m - 1 \notin T BY <1>3, <1>4, <1>6
  <2>2. PICK f : Sums(q, m - 1, f) BY <2>1
  <2> DEFINE g == [k \in 0..m |-> IF k = m THEN f[m - 1] + q[m].t ELSE f[k]]
  <2>3. q[m] \in Segments BY <1>4, <1>6
  <2>4. q[m].t \in Int BY <2>3, TimeType
  <2>5. f[m - 1] \in Int BY <1>4, <1>6, <2>2 DEF Sums, Follows
  <2>6. ASSUME NEW k \in 0..m PROVE g[k] \in Int
    BY <1>4, <2>2, <2>4, <2>5 DEF Sums, Follows
  <2>7. g \in [0..m -> Int] BY <2>6
  <2>8. g[0] = 0 BY <1>4, <1>6, <2>2 DEF Sums, Follows
  <2>9. ASSUME NEW k \in 1..m PROVE g[k] = g[k - 1] + q[k].t
    <3>1. k \in 0..m /\ k - 1 \in 0..m /\ k - 1 # m BY <1>4
    <3>2. g[k - 1] = f[k - 1] BY <3>1
    <3>3. CASE k = m BY <3>1, <3>2, <3>3
    <3>4. CASE k # m
      <4>1. k \in 1..m - 1 BY <1>4, <3>4
      <4>2. f[k] = f[k - 1] + q[k].t BY <2>2, <4>1 DEF Sums, Follows
      <4>3. QED BY <3>1, <3>2, <3>4, <4>2
    <3>5. QED BY <3>3, <3>4
  <2>10. Sums(q, m, g) BY <2>7, <2>8, <2>9 DEF Sums, Follows
  <2>11. QED BY <1>4, <2>10
<1>7. QED BY <1>5, <1>6

\* There is one such sum.
LEMMA SumsAgree ==
  ASSUME NEW q, NEW r, NEW n \in Nat, NEW f, NEW g, Follows(q, n, f), Follows(r, n, g),
         \A k \in 1..n : q[k] = r[k]
  PROVE  \A k \in 0..n : f[k] = g[k]
<1> DEFINE T == {k \in 0..n : f[k] # g[k]}
<1>1. SUFFICES ASSUME T # {} PROVE FALSE OBVIOUS
<1>2. T \subseteq Nat OBVIOUS
<1>3. PICK m \in T : \A k \in T : m <= k BY <1>1, <1>2, LeastOf
<1>4. m \in 0..n /\ f[m] # g[m] OBVIOUS
<1>5. m # 0 BY <1>4 DEF Follows
<1>6. m \in 1..n /\ m - 1 \in 0..n /\ m - 1 \notin T BY <1>3, <1>4, <1>5
<1>7. f[m - 1] = g[m - 1] BY <1>6
<1>8. f[m] = f[m - 1] + q[m].t /\ g[m] = g[m - 1] + r[m].t /\ q[m] = r[m]
  BY <1>6 DEF Follows
<1>9. QED BY <1>4, <1>7, <1>8

LEMMA TimesSum ==
  ASSUME NEW q \in Seq(Segments)
  PROVE  \E f : Sums(q, Len(q), f) /\ Times(q) = f[Len(q)]
<1> DEFINE Def(f) == [k \in 0..Len(q) |-> IF k = 0 THEN 0 ELSE f[k - 1] + q[k].t]
           sum == CHOOSE f : f = Def(f)
<1>1. Len(q) \in Nat OBVIOUS
<1>2. PICK f : Sums(q, Len(q), f) BY <1>1, SumsExist
<1>3. f = Def(f)
  <2>1. ASSUME NEW k \in 0..Len(q) PROVE f[k] = Def(f)[k]
    <3>1. k = 0 \/ k \in 1..Len(q) BY <1>1
    <3>2. QED BY <1>2, <3>1 DEF Sums, Follows
  <2>2. f \in [0..Len(q) -> Int] BY <1>2 DEF Sums
  <2>3. QED BY <2>1, <2>2
<1>4. sum = Def(sum) BY <1>3
<1>5. Times(q) = sum[Len(q)] BY DEF Times
<1> HIDE DEF sum
<1>6. Follows(q, Len(q), sum)
  <2>1. sum[0] = 0 BY <1>1, <1>4
  <2>2. ASSUME NEW k \in 1..Len(q) PROVE sum[k] = sum[k - 1] + q[k].t
    BY <1>1, <1>4
  <2>3. QED BY <2>1, <2>2 DEF Follows
<1>7. \A k \in 0..Len(q) : sum[k] = f[k] BY <1>1, <1>2, <1>6, SumsAgree DEF Sums
<1>8. QED BY <1>1, <1>2, <1>5, <1>7

LEMMA TimesType == ASSUME NEW q \in Seq(Segments) PROVE Times(q) \in Int
<1>1. PICK f : Sums(q, Len(q), f) /\ Times(q) = f[Len(q)] BY TimesSum
<1>2. Len(q) \in 0..Len(q) OBVIOUS
<1>3. QED BY <1>1, <1>2 DEF Sums, Follows

LEMMA TimesEmpty == Times(<<>>) = 0
<1>1. <<>> \in Seq(Segments) /\ Len(<<>>) = 0 OBVIOUS
<1>2. PICK f : Sums(<<>>, 0, f) /\ Times(<<>>) = f[0] BY <1>1, TimesSum
<1>3. QED BY <1>2 DEF Sums, Follows

LEMMA TimesAppend ==
  ASSUME NEW q \in Seq(Segments), NEW s \in Segments
  PROVE  Times(Append(q, s)) = Times(q) + s.t
<1> DEFINE r == Append(q, s)
<1>1. /\ r \in Seq(Segments) /\ Len(q) \in Nat /\ Len(r) = Len(q) + 1 /\ r[Len(r)] = s
      /\ \A k \in 1..Len(q) : r[k] = q[k]
  OBVIOUS
<1> HIDE DEF r
<1>2. PICK f : Sums(q, Len(q), f) /\ Times(q) = f[Len(q)] BY TimesSum
<1>3. PICK g : Sums(r, Len(r), g) /\ Times(r) = g[Len(r)] BY <1>1, TimesSum
<1> DEFINE h == [k \in 0..Len(q) |-> g[k]]
<1>4. Sums(r, Len(q), h)
  <2>1. \A k \in 0..Len(q) : k \in 0..Len(r) BY <1>1
  <2>2. h \in [0..Len(q) -> Int] BY <1>3, <2>1 DEF Sums, Follows
  <2>3. h[0] = 0 BY <1>1, <1>3 DEF Sums, Follows
  <2>4. ASSUME NEW k \in 1..Len(q) PROVE h[k] = h[k - 1] + r[k].t
    <3>1. k \in 1..Len(r) /\ k \in 0..Len(q) /\ k - 1 \in 0..Len(q) BY <1>1
    <3>2. QED BY <1>3, <3>1 DEF Sums, Follows
  <2>5. QED BY <2>2, <2>3, <2>4 DEF Sums, Follows
<1>5. Len(q) \in 0..Len(q) BY <1>1
<1>6. f[Len(q)] = h[Len(q)]
  <2> HIDE DEF h
  <2>1. Follows(q, Len(q), f) /\ Follows(r, Len(q), h) BY <1>2, <1>4 DEF Sums
  <2>2. \A k \in 0..Len(q) : f[k] = h[k] BY <1>1, <2>1, SumsAgree
  <2>3. QED BY <1>5, <2>2
<1>7. h[Len(q)] = g[Len(q)] BY <1>5
<1>8. g[Len(r)] = g[Len(q)] + s.t
  <2>1. Len(r) \in 1..Len(r) /\ Len(r) - 1 = Len(q) BY <1>1
  <2>2. QED BY <1>1, <1>3, <2>1 DEF Sums, Follows
<1>9. QED BY <1>2, <1>3, <1>6, <1>7, <1>8 DEF r

-----------------------------------------------------------------------------
(* The duration that the driver is told.                                   *)

LEMMA WidthType == Width \in Nat \ {0}
  BY PwleAssumption

LEMMA Divided ==
  ASSUME NEW a \in Int, NEW w \in Nat \ {0}
  PROVE  a % w \in 0..w - 1 /\ a \div w \in Int /\ a % w = a - w * (a \div w)
  BY Z3

LEMMA Remains ==
  ASSUME NEW a \in Int, NEW w \in Nat \ {0}, NEW q \in Int, NEW r \in 0..w - 1, a = w * q + r
  PROVE  a % w = r
  BY SMTT(30)

\* It is the same to wrap around at every addition or once in the end.
LEMMA WrapsOnce ==
  ASSUME NEW a \in Int, NEW b \in Int, NEW w \in Nat \ {0}
  PROVE  ((a % w) + b) % w = (a + b) % w
<1>1. PICK q \in Int, r \in 0..w - 1 : r = a % w /\ r = a - w * q BY Divided
<1>2. r + b \in Int OBVIOUS
<1>3. PICK p \in Int, s \in 0..w - 1 : s = (r + b) % w /\ s = (r + b) - w * p BY <1>2, Divided
<1>4. a + b = w * (q + p) + s
  <2>1. w * (q + p) = w * q + w * p OBVIOUS
  <2>2. w * q \in Int /\ w * p \in Int OBVIOUS
  <2>3. r = a - w * q BY <1>1, Zenon
  <2>4. s = (r + b) - w * p BY <1>3, Zenon
  <2>5. r \in Int /\ s \in Int OBVIOUS
  <2>6. QED BY <2>1, <2>2, <2>3, <2>4, <2>5
<1>5. a + b \in Int /\ q + p \in Int OBVIOUS
<1>6. (a + b) % w = s BY <1>4, <1>5, Remains
<1>7. QED BY <1>1, <1>3, <1>6

Timed ==
  /\ total = Times(queue) % Width
  /\ DurationTold

\* A primitive adds its duration, and a jump before it nothing.
LEMMA AddTimes ==
  ASSUME TypeOK, NEW e \in Actives \cup Brakings, NEW jump \in Seq(Segments),
         NEW s \in Segments, NEW point \in Points, Add(e, Append(jump, s), point),
         jump = <<>> \/ \E j \in Segments : jump = <<j>> /\ j.t = 0
  PROVE  Times(queue') = Times(queue) + s.t
<1>1. queue \in Seq(Segments) BY DEF TypeOK
<1>2. queue' = queue \o Append(jump, s) BY DEF Add
<1>3. CASE jump = <<>>
  <2>1. queue' = Append(queue, s) BY <1>1, <1>2, <1>3
  <2>2. QED BY <1>1, <2>1, TimesAppend
<1>4. ASSUME NEW j \in Segments, jump = <<j>>, j.t = 0
      PROVE  Times(queue') = Times(queue) + s.t
  <2>1. queue' = Append(Append(queue, j), s) BY <1>1, <1>2, <1>4
  <2>2. Append(queue, j) \in Seq(Segments) BY <1>1
  <2>3. Times(queue') = Times(Append(queue, j)) + s.t BY <2>1, <2>2, TimesAppend
  <2>4. Times(Append(queue, j)) = Times(queue) + j.t BY <1>1, TimesAppend
  <2>5. Times(queue) \in Int BY <1>1, TimesType
  <2>6. QED BY <1>4, <2>3, <2>4, <2>5
<1>5. QED BY <1>3, <1>4

LEMMA TimedGrows ==
  ASSUME TypeOK, Timed, pc = "loop", UNCHANGED pc,
         NEW e \in Actives \cup Brakings, NEW jump \in Seq(Segments),
         NEW s \in Segments, NEW point \in Points, Add(e, Append(jump, s), point),
         jump = <<>> \/ \E j \in Segments : jump = <<j>> /\ j.t = 0,
         s.t = e.duration
  PROVE  Timed'
<1>1. Times(queue') = Times(queue) + s.t BY AddTimes
<1>2. Times(queue) \in Int BY TimesType DEF TypeOK
<1>3. PICK d \in Int : d = s.t BY TimeType
<1>4. total' = (total + d) % Width BY <1>3 DEF Add
<1>5. total' = ((Times(queue) % Width) + d) % Width BY <1>4 DEF Timed
<1>6. total' = (Times(queue) + d) % Width BY <1>2, <1>5, WidthType, WrapsOnce
<1>7. total' = Times(queue') % Width BY <1>1, <1>3, <1>6
<1>8. QED BY <1>7 DEF Timed, DurationTold

LEMMA TimedInit == Init => Timed
<1>1. 0 % Width = 0 BY WidthType, SMTT(30)
<1>2. QED BY <1>1, TimesEmpty DEF Init, Timed, DurationTold

LEMMA TimedNext == ASSUME ~WritesFail PROVE PlayInv /\ Timed /\ [Next]_vars => Timed'
<1> SUFFICES ASSUME PlayInv, Timed, [Next]_vars PROVE Timed' OBVIOUS
<1>1. TypeOK /\ Launched BY DEF PlayInv
<1>2. ASSUME UNCHANGED <<queue, total>>,
             pc' = "ok" => driver'.duration = (Times(queue) + 6) % Width
      PROVE  Timed'
  BY <1>2 DEF Timed, DurationTold
<1>3. ASSUME UNCHANGED <<pc, call, driver>> PROVE Timed'
  BY <1>3 DEF call, Timed, DurationTold
<1>4. CASE GetPwleCompositionSizeMax BY <1>3, <1>4 DEF GetPwleCompositionSizeMax
<1>5. CASE OtherEffect BY <1>2, <1>5 DEF OtherEffect, call
<1>6. CASE Begin
  <2>1. queue' = <<>> /\ total' = 0 /\ pc' # "ok" BY <1>6 DEF Begin
  <2>2. 0 % Width = 0 BY WidthType, SMTT(30)
  <2>3. QED BY <2>1, <2>2, TimesEmpty DEF Timed, DurationTold
<1>7. CASE Active
  <2>1. pc = "loop" /\ UNCHANGED pc BY <1>7 DEF Active
  <2>2. PICK e \in Actives :
          /\ Valid(e) /\ Start(e) \in Points /\ End(e) \in Points
          /\ Jump(e) \in Seq(Segments) /\ Segment(e.duration, End(e), 0) \in Segments
          /\ Add(e, Append(Jump(e), Segment(e.duration, End(e), 0)), End(e))
    BY <1>1, <1>7, ActiveAdds
  <2>3. Segment(e.duration, End(e), 0).t = e.duration BY DEF Segment
  <2>4. Jump(e) = <<>> \/ \E j \in Segments : Jump(e) = <<j>> /\ j.t = 0
    <3>1. Segment(0, Start(e), 0) \in Segments BY <2>2, SegmentTypes
    <3>2. Segment(0, Start(e), 0).t = 0 BY DEF Segment
    <3>3. QED BY <3>1, <3>2 DEF Jump
  <2>5. QED BY <1>1, <2>1, <2>2, <2>3, <2>4, TimedGrows
<1>8. CASE Braking
  <2>1. pc = "loop" /\ UNCHANGED pc BY <1>8 DEF Braking
  <2>2. PICK e \in Brakings :
          /\ Stopped \in Points /\ BrakeSegment(e) \in Segments
          /\ Add(e, Append(<<>>, BrakeSegment(e)), Stopped)
    BY <1>1, <1>8, BrakingAdds
  <2>3. BrakeSegment(e).t = e.duration BY DEF BrakeSegment, Segment
  <2>4. <<>> \in Seq(Segments) OBVIOUS
  <2>5. QED BY <1>1, <2>1, <2>2, <2>3, <2>4, TimedGrows
<1>9. CASE Invalid BY <1>2, <1>9 DEF Invalid, Refuse, call
<1>10. CASE Write BY <1>2, <1>10 DEF Write, Refuse, call
<1>11. CASE Launch
  <2>1. Times(queue) \in Int BY <1>1, TimesType DEF TypeOK
  <2>2. (total + 6) % Width = ((Times(queue) % Width) + 6) % Width BY DEF Timed
  <2>3. Told = (Times(queue) + 6) % Width BY <2>1, <2>2, WidthType, WrapsOnce DEF Told
  <2>4. driver'.duration = Told BY <1>1, <1>11 DEF Launch, Launched
  <2>5. QED BY <1>2, <1>11, <2>3, <2>4 DEF Launch, call
<1>12. CASE UNCHANGED vars BY <1>3, <1>12 DEF vars
<1>13. QED BY <1>4, <1>5, <1>6, <1>7, <1>8, <1>9, <1>10, <1>11, <1>12 DEF Next

\* The driver is told how long the composition takes, as an unsigned, however
\* long it is and whatever durations it has, if the driver takes what is
\* written: wrapping around at each primitive loses nothing.
THEOREM ToldItsTime == ASSUME ~WritesFail PROVE Spec => []DurationTold
<1>1. Timed => DurationTold BY DEF Timed
<1>2. QED BY <1>1, PlayInit, PlayNext, TimedInit, TimedNext, PTL DEF Spec

-----------------------------------------------------------------------------
(* Where no duration is negative and as many as a composition may have fit *)
(* in an unsigned, nothing wraps around at all.                            *)

Fits == Durations \subseteq Nat /\ 999 * SizeLimit + 6 < Width

Bounded ==
  /\ sizeMax \in 0..SizeLimit
  /\ pc = "loop" => size \in 0..SizeLimit
  /\ Len(composite) <= SizeLimit
  /\ 0 <= Times(queue) /\ Times(queue) <= 999 * Len(composite)

LEMMA BoundedGrows ==
  ASSUME Fits, TypeOK, Bounded, pc = "loop", Len(composite) < size, UNCHANGED pc,
         NEW e \in Actives \cup Brakings, NEW jump \in Seq(Segments),
         NEW s \in Segments, NEW point \in Points, Add(e, Append(jump, s), point),
         jump = <<>> \/ \E j \in Segments : jump = <<j>> /\ j.t = 0,
         e.duration \in 0..999, s.t = e.duration
  PROVE  Bounded'
<1>1. Times(queue') = Times(queue) + s.t BY AddTimes
<1>2. Times(queue) \in Int BY TimesType DEF TypeOK
<1>3. Len(composite') = Len(composite) + 1 /\ Len(composite) \in Nat
  <2>1. composite \in Seq(Actives \cup Brakings) BY DEF TypeOK
  <2>2. composite' = Append(composite, e) BY DEF Add
  <2>3. QED BY <2>1, <2>2
<1>4. SizeLimit \in Nat BY PwleAssumption
<1>5. UNCHANGED <<sizeMax, size>> BY DEF Add
<1>6. Len(composite') <= SizeLimit BY <1>3, <1>4 DEF Bounded
<1>7. PICK d \in 0..999 : d = s.t OBVIOUS
<1>8. 0 <= Times(queue') /\ Times(queue') <= 999 * Len(composite')
  <2>1. 0 <= Times(queue) /\ Times(queue) <= 999 * Len(composite) BY DEF Bounded
  <2>2. PICK m \in Int, n \in Nat : m = Times(queue) /\ n = Len(composite) BY <1>2, <1>3
  <2>3. Times(queue') = m + d /\ Len(composite') = n + 1 BY <1>1, <1>3, <1>7, <2>2
  <2>4. 0 <= m /\ m <= 999 * n BY <2>1, <2>2
  <2>5. 0 <= m + d /\ m + d <= 999 * (n + 1) BY <2>4
  <2>6. QED BY <2>3, <2>5
<1>9. QED BY <1>5, <1>6, <1>8 DEF Bounded

LEMMA BoundedInit == Init => Bounded
<1> SUFFICES ASSUME Init PROVE Bounded OBVIOUS
<1>1. SizeLimit \in Nat /\ Available \in Nat BY PwleAssumption
<1>2. sizeMax \in 0..SizeLimit BY <1>1 DEF Init, Lesser
<1>3. QED BY <1>1, <1>2, TimesEmpty DEF Init, Bounded

LEMMA BoundedNext == ASSUME Fits PROVE TypeOK /\ Bounded /\ [Next]_vars => Bounded'
<1> SUFFICES ASSUME TypeOK, Bounded, [Next]_vars PROVE Bounded' OBVIOUS
<1>1. SizeLimit \in Nat /\ Available \in Nat BY PwleAssumption
<1>2. ASSUME UNCHANGED call, sizeMax' \in 0..SizeLimit, pc' = "loop" => pc = "loop"
      PROVE  Bounded'
  BY <1>2 DEF call, Bounded
<1>3. CASE GetPwleCompositionSizeMax
  <2>1. sizeMax' \in 0..SizeLimit BY <1>1, <1>3 DEF GetPwleCompositionSizeMax, Lesser
  <2>2. QED BY <1>2, <1>3, <2>1 DEF GetPwleCompositionSizeMax
<1>4. CASE Begin
  <2>1. /\ composite' = <<>> /\ queue' = <<>> /\ UNCHANGED sizeMax
        /\ pc' = "loop" => size' \in 1..sizeMax
    BY <1>4 DEF Begin
  <2>2. QED BY <1>1, <2>1, TimesEmpty DEF Bounded
<1>5. CASE Active
  <2>1. pc = "loop" /\ Len(composite) < size /\ UNCHANGED pc BY <1>5 DEF Active
  <2>2. PICK e \in Actives :
          /\ Valid(e) /\ Start(e) \in Points /\ End(e) \in Points
          /\ Jump(e) \in Seq(Segments) /\ Segment(e.duration, End(e), 0) \in Segments
          /\ Add(e, Append(Jump(e), Segment(e.duration, End(e), 0)), End(e))
    BY <1>5, ActiveAdds
  <2>3. e.duration \in 0..999 BY <2>2 DEF Valid, Actives
  <2>4. Segment(e.duration, End(e), 0).t = e.duration BY DEF Segment
  <2>5. Jump(e) = <<>> \/ \E j \in Segments : Jump(e) = <<j>> /\ j.t = 0
    <3>1. Segment(0, Start(e), 0) \in Segments BY <2>2, SegmentTypes
    <3>2. Segment(0, Start(e), 0).t = 0 BY DEF Segment
    <3>3. QED BY <3>1, <3>2 DEF Jump
  <2>6. QED BY <2>1, <2>2, <2>3, <2>4, <2>5, BoundedGrows
<1>6. CASE Braking
  <2>1. pc = "loop" /\ Len(composite) < size /\ UNCHANGED pc BY <1>6 DEF Braking
  <2>2. PICK e \in Brakings :
          /\ Valid(e) /\ Stopped \in Points /\ BrakeSegment(e) \in Segments
          /\ Add(e, Append(<<>>, BrakeSegment(e)), Stopped)
    BY <1>6, BrakingAdds
  <2>3. e.duration \in 0..999
    <3>1. e.kind = "braking" /\ e.duration \in Nat BY DEF Brakings, Fits
    <3>2. QED BY <2>2, <3>1 DEF Valid
  <2>4. BrakeSegment(e).t = e.duration BY DEF BrakeSegment, Segment
  <2>5. <<>> \in Seq(Segments) OBVIOUS
  <2>6. QED BY <2>1, <2>2, <2>3, <2>4, <2>5, BoundedGrows
<1>7. CASE OtherEffect \/ Invalid \/ Write \/ Launch \/ UNCHANGED vars
  <2>1. UNCHANGED <<sizeMax, call>> /\ (pc' = "loop" => pc = "loop")
    BY <1>7 DEF OtherEffect, Invalid, Refuse, Write, Launch, vars
  <2>2. QED BY <1>2, <2>1 DEF Bounded
<1>8. QED BY <1>3, <1>4, <1>5, <1>6, <1>7 DEF Next

\* A client that asks for no negative time, of a driver that takes what is
\* written, has it told exactly the time that the composition takes.
THEOREM NothingWraps ==
  ASSUME ~WritesFail, Durations \subseteq Nat, 999 * SizeLimit + 6 < Width
  PROVE  Spec => [](pc = "ok" => driver.duration = Times(queue) + 6)
<1>1. Fits BY DEF Fits
<1>2. ASSUME TypeOK, Bounded, DurationTold, pc = "ok"
      PROVE  driver.duration = Times(queue) + 6
  <2>1. SizeLimit \in Nat BY PwleAssumption
  <2>2. Len(composite) \in Nat BY <1>2 DEF TypeOK
  <2>3. PICK n \in Int : n = Times(queue) + 6 BY <1>2, TimesType DEF TypeOK
  <2>4. 0 <= n /\ n < Width
    <3>1. Times(queue) \in Int BY <1>2, TimesType DEF TypeOK
    <3>2. QED BY <1>2, <2>1, <2>2, <2>3, <3>1, WidthType DEF Bounded
  <2>5. n % Width = n
    <3>1. n \in 0..Width - 1 BY <2>4, WidthType
    <3>2. n = Width * 0 + n BY WidthType
    <3>3. QED BY <3>1, <3>2, WidthType, Remains
  <2>6. QED BY <1>2, <2>3, <2>5 DEF DurationTold
<1>3. TypeOK /\ Bounded /\ DurationTold => (pc = "ok" => driver.duration = Times(queue) + 6)
  BY <1>2
<1>4. QED
  BY <1>1, <1>3, QueueTypes, ToldItsTime, BoundedInit, BoundedNext, PTL DEF Spec
==============================================================================
