------------------------------- MODULE AsyncIo -------------------------------
(***************************************************************************)
(* What callers of asynchronous I/O are promised, without lists, locks or  *)
(* epoll: an operation that was submitted is handed to its completion at   *)
(* most once, either with the outcome of its I/O or as cancelled, and      *)
(* cancelling a descriptor settles all its pending operations in one       *)
(* indivisible step.                                                       *)
(***************************************************************************)
CONSTANTS Ops, Fds, FdOf

VARIABLES
    state,     \* "new", "pending", "settled" (cancelled, not handed over
               \* yet) or "delivered"
    outcome    \* "none", "io" or "canceled"

asyncVars == <<state, outcome>>

AsyncInit == /\ state = [o \in Ops |-> "new"]
             /\ outcome = [o \in Ops |-> "none"]

Submit(o) == /\ state[o] = "new"
             /\ state' = [state EXCEPT ![o] = "pending"]
             /\ UNCHANGED outcome

Complete(o) == /\ state[o] = "pending"
               /\ state' = [state EXCEPT ![o] = "delivered"]
               /\ outcome' = [outcome EXCEPT ![o] = "io"]

CancelAll(f) ==
    LET hit == {o \in Ops : FdOf[o] = f /\ state[o] = "pending"}
    IN  /\ hit # {}
        /\ state' = [o \in Ops |-> IF o \in hit THEN "settled" ELSE state[o]]
        /\ outcome' = [o \in Ops |-> IF o \in hit THEN "canceled"
                                     ELSE outcome[o]]

Deliver(o) == /\ state[o] = "settled"
              /\ state' = [state EXCEPT ![o] = "delivered"]
              /\ UNCHANGED outcome

AsyncNext == \/ \E o \in Ops : Submit(o) \/ Complete(o) \/ Deliver(o)
             \/ \E f \in Fds : CancelAll(f)

AsyncSpec == AsyncInit /\ [][AsyncNext]_asyncVars
============================================================================
