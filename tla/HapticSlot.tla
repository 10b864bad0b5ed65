------------------------------ MODULE HapticSlot ------------------------------
(***************************************************************************)
(* What the vibrator HAL promises its client: one vibration at a time, and *)
(* when the client is told that it is complete, nothing moves any more.    *)
(***************************************************************************)

VARIABLES busy,     \* a vibration was accepted and is not complete
          moving    \* the actuator is being driven

vars == <<busy, moving>>

Init == busy = FALSE /\ moving = FALSE

\* A vibration is accepted and starts.
Accept == ~busy /\ ~moving /\ busy' = TRUE /\ moving' = TRUE

\* It ends by itself, or is turned off.
Stop == moving /\ moving' = FALSE /\ UNCHANGED busy

\* The client is told.
Complete == busy /\ ~moving /\ busy' = FALSE /\ UNCHANGED moving

Next == Accept \/ Stop \/ Complete

Spec == Init /\ [][Next]_vars
==============================================================================
