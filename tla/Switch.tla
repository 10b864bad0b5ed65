-------------------------------- MODULE Switch --------------------------------
(***************************************************************************)
(* What a setting's HAL promises: one switch.  A call takes effect at one  *)
(* moment between its arrival and its return, calls of several clients one *)
(* after the other.  A call that fails may have done what it was asked.    *)
(***************************************************************************)

CONSTANTS Clients,
          MayDeny     \* may a successful get say "off" of a switch that is on?

VARIABLES on,         \* the switch
          op,         \* what each client is asking for
          answer      \* what the call that returned last was told

Init ==
  /\ on \in BOOLEAN /\ answer = "none"
  /\ op = [c \in Clients |-> "idle"]

Call(c) ==
  /\ op[c] = "idle"
  /\ \E o \in {"get", "on", "off"} : op' = [op EXCEPT ![c] = o]
  /\ UNCHANGED <<on, answer>>

Position == IF on THEN "on" ELSE "off"

Get(c) ==
  /\ op[c] = "get"
  /\ answer' = Position \/ (MayDeny /\ answer' = "off")
  /\ UNCHANGED on

Set(c) ==
  /\ op[c] \in {"on", "off"}
  /\ on' = (op[c] = "on") /\ answer' \in {"ok", "error"}

Fail(c) == op[c] # "idle" /\ answer' = "error" /\ UNCHANGED on

Return(c) ==
  /\ Get(c) \/ Set(c) \/ Fail(c)
  /\ op' = [op EXCEPT ![c] = "idle"]

Next == \E c \in Clients : Call(c) \/ Return(c)

Spec == Init /\ [][Next]_<<on, op, answer>>
==============================================================================
