SPECIFICATION Spec
CONSTANT Pollers = {p1, p2}
INVARIANT NoLostWakeup
PROPERTIES StoppedWasAtRest PollEnds
