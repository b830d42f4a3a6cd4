------------------------ MODULE MCEventTimerSignal ------------------------
(* One object, whose operations all use its descriptor. *)
EXTENDS EventTimerSignal

OneFd == [o \in Ops |-> CHOOSE f \in Fds : TRUE]
============================================================================
