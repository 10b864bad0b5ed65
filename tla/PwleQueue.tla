------------------------------ MODULE PwleQueue ------------------------------
(***************************************************************************)
(* How composePwle turns a composition into the queue of segments that the *)
(* cs40l2x driver plays (the Vibrator's one thread of it; activation and   *)
(* completion are VibratorHal's).  A segment is a ramp from where the last *)
(* one ended; a primitive that starts elsewhere is given a segment of no   *)
(* duration first.  Frequencies are in half Hz, levels in hundredths.      *)
(***************************************************************************)
EXTENDS Integers, Sequences

CONSTANTS
  Durations, Levels, Frequencies,   \* what a client may write in a primitive
  Allowed,      \* the table of allowable levels, interpolated, for every Hz
  Untuned,      \* the limit before that table is applied
  Resonant,     \* mResonantFrequency
  Garbage,      \* what mIsChirpEnabled may be before it is assigned
  Available,    \* available_pwle_segments
  SizeLimit,    \* COMPOSE_PWLE_SIZE_LIMIT
  MaxSegments,  \* segments that fit in CS40L2X_PWLE_LENGTH_MAX characters
  Width,        \* durations are unsigned, of so many values
  WritesFail    \* may the driver refuse the writes whose result is ignored?

Hundredths == 0..100
Hertz == 1..999
HalfHertz == 2..1998

ASSUME PwleAssumption ==
  /\ Durations \subseteq Int /\ Levels \subseteq Int /\ Frequencies \subseteq Int
  /\ Allowed \in [Hertz -> Hundredths] /\ Untuned \in Hundredths /\ Resonant \in Nat
  /\ Garbage \subseteq BOOLEAN /\ WritesFail \in BOOLEAN
  /\ {Available, SizeLimit, MaxSegments} \subseteq Nat /\ Width \in Nat \ {0}

VARIABLES
  tuned,      \* the table was applied to pwleMaxLevelLimitMap
  sizeMax,    \* mCompositionSizeMax
  pc,         \* composePwle's place
  size,       \* the size of the composition
  composite,  \* its primitives so far
  queue,      \* their segments
  last,       \* history: the segment each primitive ends with
  prev,       \* prevEndAmplitude and prevEndFrequency
  total,      \* totalDuration
  driver      \* its duration and effect; its queue is this composition's

call == <<size, composite, queue, last, prev, total>>
vars == <<tuned, sizeMax, pc, call, driver>>

Actives == [kind : {"active"}, duration : Durations, startLevel : Levels,
            startFreq : Frequencies, endLevel : Levels, endFreq : Frequencies]
Brakings == [kind : {"braking"}, duration : Durations, type : 0..2]

ValidPoint(level, freq) == level \in Hundredths /\ freq \in HalfHertz

\* A braking segment's duration is not compared with 0.
Valid(e) ==
  IF e.kind = "active"
  THEN /\ e.duration \in 0..999
       /\ ValidPoint(e.startLevel, e.startFreq) /\ ValidPoint(e.endLevel, e.endFreq)
  ELSE e.type <= 1 /\ e.duration <= 999

Lesser(a, b) == IF a < b THEN a ELSE b

\* A level is written with one significant digit, a frequency in whole Hz.
\* Half-way between two digits the nearest float is below it, or even.
Down == {25, 35, 45, 65, 95}
Written(level) ==
  IF level < 10 THEN level
  ELSE 10 * ((IF level \in Down THEN level ELSE level + 5) \div 10)
Round(freq) == (freq + 1) \div 2

Limit(f) == IF tuned THEN Allowed[f] ELSE Untuned

\* Mutant: only the level the driver can take is looked at.
ClipToDriver(level, freq) == Lesser(level, 99)

\* The index of the limit map is the frequency, cut to whole Hz.
Clip(level, freq) == Lesser(Lesser(level, 99), Limit(freq \div 2))

Point(level, freq) == [level |-> level, freq |-> freq]
Start(e) == Point(Clip(e.startLevel, e.startFreq), e.startFreq)
End(e) == Point(Clip(e.endLevel, e.endFreq), e.endFreq)
Rest == Point(0, Resonant)

Segment(t, point, brake) ==
  [t |-> t, level |-> Written(point.level), freq |-> Round(point.freq), brake |-> brake]

\* getPwleCompositionSizeMax of a device with PWLE and chirps.
Init ==
  /\ \E chirp \in Garbage :
       /\ tuned = chirp
       /\ sizeMax \in {SizeLimit} \cup (IF chirp THEN {Lesser(Available, SizeLimit)} ELSE {})
  /\ pc = "idle" /\ size = 0 /\ composite = <<>> /\ queue = <<>> /\ last = <<>>
  /\ prev = Rest /\ total = 0
  /\ driver = [written |-> FALSE, effect |-> "other", duration |-> 0]

GetPwleCompositionSizeMax ==
  /\ sizeMax' = Lesser(Available, SizeLimit)
  /\ UNCHANGED <<tuned, pc, call, driver>>

\* on, perform or compose.
OtherEffect ==
  /\ pc \in {"idle", "ok"} /\ pc' = "idle"
  /\ driver' = [driver EXCEPT !.effect = "other", !.duration = 0]
  /\ UNCHANGED <<tuned, sizeMax, call>>

Begin ==
  /\ pc \in {"idle", "ok"}
  /\ \E n \in 0..sizeMax + 1 :
       /\ size' = n /\ pc' = IF n \in 1..sizeMax THEN "loop" ELSE "idle"
  /\ composite' = <<>> /\ queue' = <<>> /\ last' = <<>> /\ prev' = Rest /\ total' = 0
  /\ driver' = [driver EXCEPT !.written = FALSE]
  /\ UNCHANGED <<tuned, sizeMax>>

Refuse == pc' = "idle" /\ UNCHANGED <<tuned, sizeMax, call, driver>>

Jump(e) == IF Start(e) = prev THEN <<>> ELSE <<Segment(0, Start(e), 0)>>

Add(e, segments, point) ==
  /\ queue' = queue \o segments /\ last' = Append(last, Len(queue) + Len(segments))
  /\ composite' = Append(composite, e) /\ prev' = point
  /\ total' = (total + e.duration) % Width
  /\ UNCHANGED <<tuned, sizeMax, size, driver>>

Active ==
  \E e \in Actives :
    /\ pc = "loop" /\ Len(composite) < size /\ Valid(e)
    /\ Add(e, Append(Jump(e), Segment(e.duration, End(e), 0)), End(e))
    /\ UNCHANGED pc

\* Mutant: braking is taken to leave the level where it was.
StoppedNot == prev

Stopped == Point(0, prev.freq)

Braking ==
  \E e \in Brakings :
    /\ pc = "loop" /\ Len(composite) < size /\ Valid(e)
    /\ Add(e, <<Segment(e.duration, Point(0, prev.freq), e.type)>>, Stopped)
    /\ UNCHANGED pc

Invalid ==
  /\ pc = "loop" /\ Len(composite) < size
  /\ \E e \in Actives \cup Brakings : ~Valid(e)
  /\ Refuse

\* setPwle, whose result counts.
Write ==
  /\ pc = "loop" /\ Len(composite) = size
  /\ \/ Refuse
     \/ /\ Len(queue) <= MaxSegments /\ pc' = "write"
        /\ driver' = [driver EXCEPT !.written = TRUE]
        /\ UNCHANGED <<tuned, sizeMax, call>>

\* Mutant: the latency is left out.
ToldBare == total

Told == (total + 6) % Width

\* The effect's index and its duration, whose results do not.
Launch ==
  /\ pc = "write" /\ pc' = "ok"
  /\ \E effect \in {"pwle"} \cup (IF WritesFail THEN {driver.effect} ELSE {}),
        duration \in {Told} \cup (IF WritesFail THEN {driver.duration} ELSE {}) :
       driver' = [driver EXCEPT !.effect = effect, !.duration = duration]
  /\ UNCHANGED <<tuned, sizeMax, call>>

Next ==
  \/ GetPwleCompositionSizeMax \/ OtherEffect \/ Begin
  \/ Active \/ Braking \/ Invalid \/ Write \/ Launch

Spec == Init /\ [][Next]_vars

Segments == [t : Int, level : Nat, freq : Int, brake : 0..2]
Points == [level : Hundredths, freq : Int]

\* Types, and that each primitive has its last segment in the queue.
TypeOK ==
  /\ tuned \in BOOLEAN
  /\ composite \in Seq(Actives \cup Brakings) /\ queue \in Seq(Segments) /\ last \in Seq(Nat)
  /\ prev \in Points /\ total \in Int
  /\ Len(last) = Len(composite)
  /\ \A k \in 1..Len(last) : last[k] \in 1..Len(queue)
  /\ IF last = <<>> THEN queue = <<>> ELSE last[Len(last)] = Len(queue)

Ends(k) == queue[last[k]]
Before(k) == IF last[k] = 1 THEN Segment(0, Rest, 0) ELSE queue[last[k] - 1]

IsAt(segment, point) == segment.level = Written(point.level) /\ segment.freq = Round(point.freq)

Plays(e, before, end) ==
  /\ end.t = e.duration
  /\ IF e.kind = "active"
     THEN IsAt(before, Start(e)) /\ IsAt(end, End(e))
     ELSE end.level = 0 /\ end.freq = before.freq

\* In what composePwle writes every primitive is a segment of its own
\* duration that begins where the primitive begins and ends where it ends,
\* after its levels are limited, jumps left out or put in; braking begins
\* anywhere and ends in silence.  A call that succeeds plays that queue.
PlaysWhatIsAsked ==
  /\ \A k \in 1..Len(composite) : Plays(composite[k], Before(k), Ends(k))
  /\ pc = "ok" => driver.written /\ driver.effect = "pwle"

Limited(s) ==
  s.level > 0 => \E f \in {s.freq, s.freq - 1} \cap Hertz : s.level <= Limit(f) + 5

\* The driver is never told a level above the limit in force, the table where
\* that was applied, by more than half a digit: printing may raise a level
\* after it was limited, and the limit is that of the frequency told or of the
\* one below that it was rounded up from.
LevelsLimited == \A k \in 1..Len(queue) : Limited(queue[k])

Times(q) ==
  LET sum[k \in 0..Len(q)] == IF k = 0 THEN 0 ELSE sum[k - 1] + q[k].t
  IN  sum[Len(q)]

\* The driver is given the time of the segments it was given, and the time it
\* may need to wake up, as an unsigned: a braking segment's negative time is
\* taken from the others' and, if they are less, leaves a huge one.
DurationTold == pc = "ok" => driver.duration = (Times(queue) + 6) % Width
==============================================================================
