------------------------------ MODULE AmpControl ------------------------------
(***************************************************************************)
(* What the amplifier HAL promises its user, the audio HAL: a process      *)
(* settles once whether the output may be used, nothing plays before that  *)
(* but for an output that was let in before calibration began, and a       *)
(* refusal lasts as long as the process.                                   *)
(***************************************************************************)

VARIABLES phase,    \* "new", "pending", then "usable" or "refused"
          early,    \* an output was let in while "new"
          playing   \* some output is enabled

vars == <<phase, early, playing>>

TypeOK ==
  /\ phase \in {"new", "pending", "usable", "refused"}
  /\ early \in BOOLEAN /\ playing \in BOOLEAN

Init == phase = "new" /\ early = FALSE /\ playing = FALSE

\* An output comes before calibration does.
LetIn == phase = "new" /\ early' = TRUE /\ UNCHANGED <<phase, playing>>

\* Calibration begins, and forgets what plays.
Calibrate == phase = "new" /\ phase' = "pending" /\ playing' = FALSE /\ UNCHANGED early

\* The process settles the matter once, and forgets what plays.
Settle ==
  /\ phase \in {"new", "pending"} /\ phase' \in {"usable", "refused"}
  /\ playing' = FALSE /\ UNCHANGED early

\* Outputs come and go when usable; those let in early, before that.
Switch ==
  /\ phase = "usable" \/ (early /\ phase # "refused")
  /\ playing' = ~playing /\ UNCHANGED <<phase, early>>

\* A new process starts from the beginning.
NewProcess == phase' = "new" /\ early' = FALSE /\ playing' = FALSE

Next == LetIn \/ Calibrate \/ Settle \/ Switch \/ NewProcess

Spec == Init /\ [][Next]_vars
==============================================================================
