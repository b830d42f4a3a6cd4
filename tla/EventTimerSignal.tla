-------------------------- MODULE EventTimerSignal --------------------------
(***************************************************************************)
(* exios::Event, Timer and Signal and the free function                    *)
(* wait_for_timer_expiry_after(), each around one descriptor with a        *)
(* counter: an eventfd, a timerfd or a signalfd.  Their operations go to   *)
(* the scheduler, of which this module uses what AsyncIo promises (the     *)
(* scheduler is shown to keep it): Complete is perform_io() that did not   *)
(* end in EAGAIN, and CancelAll is IoObject::cancel().                     *)
(*                                                                         *)
(* Init chooses one object; objects share nothing but the scheduler, where *)
(* the operations of others decide whether schedule() finds those of this  *)
(* object and whether its cancel() returns: either way is possible here.   *)
(* Only one thread at a time waits on a Timer, while others may cancel it, *)
(* expire it or run the loop between any two of its system calls.          *)
(***************************************************************************)
EXTENDS AsyncIo, Integers, FiniteSets, FiniteSetsExt

CONSTANTS
    Kinds,      \* the kinds of object to choose from
    Durations,  \* of "zero", "below_ns", "positive" and "negative"
    MaxCount,   \* the largest counter of an eventfd, 2^64 - 2
    MaxInputs,  \* bound: calls of expire(), signals raised
    MayFail     \* may a read fail for another reason than EAGAIN?

ASSUME ObjectAssumption ==
    /\ Kinds \subseteq {"event", "semaphore", "timer", "free_timer", "signal"}
    /\ Durations \subseteq {"zero", "below_ns", "positive", "negative"}
    /\ MaxCount \in Nat \ {0}
    /\ MaxInputs \in Nat
    /\ MayFail \in BOOLEAN
    /\ IsFiniteSet(Ops)
    /\ FdOf \in [Ops -> Fds]
    /\ \A o, p \in Ops : FdOf[o] = FdOf[p]     \* the object has one

VARIABLES
    kind,      \* which object this is
    count,     \* the counter of its descriptor
    armed,     \* is the timer running?
    inputs,    \* calls of expire(), signals raised so far
    asked,     \* what each operation was asked to do
    value,     \* the value to trigger with
    duration,  \* the duration to wait for
    got,       \* the value it was completed with, or Error
    call,      \* the wait_for_expiry_after() in progress
    interest,  \* what epoll watches the descriptor for
    stuck,     \* does a cancel() that never returns hold the lock?
    arming,    \* history: the number of timerfd_settime() calls so far
    armedAs,   \* history: which of them was made for the operation
    expiredAs, \* history: which of them it reports the expiry of
    given      \* history: the total of all successful triggers

requests == <<asked, value, duration>>
opVars   == <<requests, got>>
loopVars == <<interest, stuck>>
history  == <<arming, armedAs, expiredAs, given>>
vars     == <<asyncVars, kind, count, armed, inputs, opVars, call, loopVars,
              history>>

Events == {"event", "semaphore"}
Error  == -1
NoCall == [op |-> "none", todo |-> "none"]

Init ==
    /\ AsyncInit
    /\ kind \in Kinds
    /\ count = 0
    /\ armed = FALSE
    /\ inputs = 0
    /\ asked = [o \in Ops |-> "nothing"]
    /\ value = [o \in Ops |-> 0]
    /\ duration = [o \in Ops |-> "none"]
    /\ got = [o \in Ops |-> 0]
    /\ call = NoCall
    /\ interest = {}
    /\ stuck = FALSE
    /\ arming = 0
    /\ armedAs = [o \in Ops |-> 0]
    /\ expiredAs = [o \in Ops |-> 0]
    /\ given = 0

Ask(o, what, val, d) ==
    /\ asked[o] = "nothing"
    /\ asked' = [asked EXCEPT ![o] = what]
    /\ value' = [value EXCEPT ![o] = val]
    /\ duration' = [duration EXCEPT ![o] = d]
    /\ UNCHANGED <<kind, got, given>>

----------------------------------------------------------------------------
(* What the scheduler registers with epoll *)

Pending == {o \in Ops : state[o] = "pending"}
Way(o)  == IF asked[o] = "trigger" THEN "OUT" ELSE "IN"
Ways(S) == {Way(o) : o \in S}

(***************************************************************************)
(* schedule(), of an operation in direction w.  If this descriptor is the  *)
(* largest in the list and not the only one, its other operations are not  *)
(* looked at and EPOLL_CTL_MOD drops what they wait for.                   *)
(***************************************************************************)
ScheduleIo(o, w) ==
    /\ ~stuck
    /\ Submit(o)
    /\ interest' \in {{w} \cup Ways(Pending), {w}}
    /\ UNCHANGED stuck

(* The end of an event that completed operation o *)
CompleteIo(o) ==
    /\ ~stuck
    /\ Complete(o)
    /\ interest' = Ways(Pending \ {o})
    /\ UNCHANGED stuck

(***************************************************************************)
(* IoScheduler::cancel() of what is pending.  Two or more operations may   *)
(* be last in the list: splice() does not come back from those, the        *)
(* descriptor stays registered and the lock taken.                         *)
(***************************************************************************)
CancelReturns == interest' = {} /\ UNCHANGED stuck
CancelHangs   == Cardinality(Pending) > 1 /\ stuck' = TRUE
                 /\ UNCHANGED interest

CancelPending == /\ ~stuck
                 /\ \E f \in Fds : CancelAll(f)
                 /\ CancelReturns \/ CancelHangs

----------------------------------------------------------------------------
(* Event and Signal: every call makes one operation and schedules it. *)

(* trigger() writes 1; 2^64 - 1 is the one value an eventfd refuses. *)
TriggerValues == 0 .. MaxCount + 1

trigger_with_value(o, val) ==
    /\ kind \in Events
    /\ Ask(o, "trigger", val, "none")
    /\ ScheduleIo(o, "OUT")
    /\ UNCHANGED <<count, armed, inputs, call, arming, armedAs, expiredAs>>

wait_for_event(o) ==
    /\ kind \in Events
    /\ Ask(o, "wait", 0, "none")
    /\ ScheduleIo(o, "IN")
    /\ UNCHANGED <<count, armed, inputs, call, arming, armedAs, expiredAs>>

wait(o) ==
    /\ kind = "signal"
    /\ Ask(o, "wait", 0, "none")
    /\ ScheduleIo(o, "IN")
    /\ UNCHANGED <<count, armed, inputs, call, arming, armedAs, expiredAs>>

(* A signal that is pending already is not queued again. *)
RaiseSignal ==
    /\ kind = "signal"
    /\ inputs < MaxInputs
    /\ inputs' = inputs + 1
    /\ count' = 1
    /\ UNCHANGED <<asyncVars, kind, armed, opVars, call, loopVars, history>>

----------------------------------------------------------------------------
(* Timer *)


(* convert_to_itimerspec() of what duration_cast keeps; 0 disarms. *)
convert_to_itimerspec(d) == IF d \in {"zero", "below_ns"} THEN 0 ELSE 1

(* timerfd_settime(): the expirations of the old setting are forgotten. *)
SetTime(spec) ==
    /\ armed' = (spec # 0)
    /\ count' = 0
    /\ arming' = arming + 1

(* IoObject::cancel(); a Timer has at most one wait, so it returns. *)
CancelIo == \/ CancelPending /\ CancelReturns
            \/ /\ ~stuck
               /\ Pending = {}
               /\ UNCHANGED <<asyncVars, loopVars>>

(* Seeded defect: the waits of earlier calls stay scheduled. *)
WaitWithoutCancel(o, d) ==
    /\ kind = "timer"
    /\ call = NoCall
    /\ Ask(o, "wait", 0, d)
    /\ call' = [op |-> o, todo |-> IF d = "zero" THEN "post" ELSE "settime"]
    /\ UNCHANGED <<asyncVars, count, armed, inputs, loopVars, arming, armedAs,
                   expiredAs>>

(* Seeded defect: the wait is scheduled before the timer is set. *)
WaitQueuedFirst(o, d) ==
    /\ kind = "timer"
    /\ call = NoCall
    /\ Ask(o, "wait", 0, d)
    /\ d # "zero"
    /\ state' = [q \in Ops |-> CASE q = o -> "pending"
                                 [] state[q] = "pending" -> "settled"
                                 [] OTHER -> state[q]]
    /\ call' = [op |-> o, todo |-> "settime"]
    /\ interest' = {"IN"}
    /\ UNCHANGED <<outcome, stuck, count, armed, inputs, arming, armedAs,
                   expiredAs>>

(* wait_for_expiry_after(), up to the return of cancel() *)
wait_for_expiry_after(o, d) ==
    /\ kind = "timer"
    /\ call = NoCall
    /\ Ask(o, "wait", 0, d)
    /\ CancelIo
    /\ call' = [op |-> o, todo |-> IF d = "zero" THEN "post" ELSE "settime"]
    /\ UNCHANGED <<count, armed, inputs, arming, armedAs, expiredAs>>

(* Its timerfd_settime(), *)
ArmTimer ==
    LET o == call.op
    IN  /\ call.todo = "settime"
        /\ duration[o] # "negative"
        /\ SetTime(convert_to_itimerspec(duration[o]))
        /\ call' = [call EXCEPT !.todo = "queue"]
        /\ armedAs' = [armedAs EXCEPT ![o] = arming']
        /\ UNCHANGED <<asyncVars, kind, inputs, opVars, loopVars, expiredAs,
                       given>>

(* which fails with EINVAL: the exception comes after the cancellation. *)
ArmThrows ==
    /\ call.todo = "settime"
    /\ duration[call.op] = "negative"
    /\ call' = NoCall
    /\ UNCHANGED <<asyncVars, kind, count, armed, inputs, opVars, loopVars,
                   history>>

(* queue_timer_operation() *)
QueueTimerOperation ==
    /\ call.todo = "queue"
    /\ ScheduleIo(call.op, "IN")
    /\ call' = NoCall
    /\ UNCHANGED <<kind, count, armed, inputs, opVars, history>>

(* Zero durations are posted, with a value of 0. *)
PostZeroWait ==
    /\ call.todo = "post"
    /\ state' = [state EXCEPT ![call.op] = "delivered"]
    /\ outcome' = [outcome EXCEPT ![call.op] = "io"]
    /\ got' = [got EXCEPT ![call.op] = 0]
    /\ call' = NoCall
    /\ UNCHANGED <<kind, count, armed, inputs, requests, loopVars, history>>

expire ==
    /\ kind = "timer"
    /\ inputs < MaxInputs
    /\ inputs' = inputs + 1
    /\ SetTime(convert_to_itimerspec("positive"))      \* one nanosecond
    /\ UNCHANGED <<asyncVars, kind, opVars, call, loopVars, armedAs, expiredAs,
                   given>>

(***************************************************************************)
(* The free function: its timer belongs to the operation, nobody else can  *)
(* reach it, and a zero duration is not posted.                            *)
(***************************************************************************)
wait_for_timer_expiry_after(o, d) ==
    /\ kind = "free_timer"
    /\ arming = 0
    /\ Ask(o, "wait", 0, d)
    /\ \/ /\ d # "negative"
          /\ SetTime(convert_to_itimerspec(d))
          /\ armedAs' = [armedAs EXCEPT ![o] = arming']
          /\ ScheduleIo(o, "IN")
       \/ /\ d = "negative"
          /\ UNCHANGED <<asyncVars, loopVars, count, armed, arming, armedAs>>
    /\ UNCHANGED <<inputs, call, expiredAs>>

TimerExpires ==
    /\ armed
    /\ armed' = FALSE
    /\ count' = 1
    /\ UNCHANGED <<asyncVars, kind, inputs, opVars, call, loopVars, history>>

----------------------------------------------------------------------------
(* What the loop does with a scheduled operation.  The event may be one that
   another thread collected before the registration or the counter changed. *)

(* Seeded defect: a semaphore is read like a counter, but reports one. *)
TakenAtOnce == count

(* What a read takes from the counter. *)
Taken == IF kind = "semaphore" THEN 1 ELSE count

(* TimerExpiryOrEvent::io() and SignalRead::io() *)
PerformRead(o) ==
    /\ asked[o] = "wait"
    /\ count > 0
    /\ CompleteIo(o)
    /\ count' = count - Taken
    /\ got' = [got EXCEPT ![o] = IF kind = "semaphore" THEN 1 ELSE count]
    /\ expiredAs' = [expiredAs EXCEPT ![o] = arming]
    /\ UNCHANGED <<kind, armed, inputs, requests, call, arming, armedAs,
                   given>>

(* Seeded defect: an error is a value. *)
ReportedAsValue(o) == {0, 1}

(* After a failed read SignalRead::io() reports success all the same, with
   whatever its uninitialised variable holds. *)
Reported(o) == IF kind = "signal" THEN {0, 1} ELSE {Error}

ReadFails(o) ==
    /\ MayFail
    /\ asked[o] = "wait"
    /\ CompleteIo(o)
    /\ \E r \in Reported(o) : got' = [got EXCEPT ![o] = r]
    /\ UNCHANGED <<kind, count, armed, inputs, requests, call, history>>

(* Seeded defects: the limit of the counter is ignored, or off by one. *)
FitsAlways(val) == TRUE
FitsBelow(val) == count + val < MaxCount

Fits(val) == count + val <= MaxCount

(* EventWrite::io(): EINVAL or success; EAGAIN is NothingDone. *)
PerformWrite(o) ==
    /\ asked[o] = "trigger"
    /\ CompleteIo(o)
    /\ \/ /\ value[o] > MaxCount
          /\ got' = [got EXCEPT ![o] = Error]
          /\ UNCHANGED <<count, given>>
       \/ /\ value[o] <= MaxCount
          /\ Fits(value[o])
          /\ count' = count + value[o]
          /\ given' = given + value[o]
          /\ got' = [got EXCEPT ![o] = 8]
    /\ UNCHANGED <<kind, armed, inputs, requests, call, arming, armedAs,
                   expiredAs>>

Possible(o) == IF asked[o] = "trigger"
               THEN value[o] > MaxCount \/ Fits(value[o])
               ELSE count > 0

(* An event in direction w whose operations all end in EAGAIN: the end of it
   registers again what is pending. *)
NothingDone(w) ==
    /\ ~stuck
    /\ Pending # {}
    /\ \A o \in Pending : Way(o) = w => ~Possible(o)
    /\ interest' = Ways(Pending)
    /\ UNCHANGED <<asyncVars, kind, count, armed, inputs, opVars, call, stuck,
                   history>>

(* cancel() by anybody *)
cancel ==
    /\ kind # "free_timer"
    /\ CancelPending
    /\ UNCHANGED <<kind, count, armed, inputs, opVars, call, history>>

DeliverCancelled(o) ==
    /\ ~stuck
    /\ Deliver(o)
    /\ UNCHANGED <<kind, count, armed, inputs, opVars, call, loopVars, history>>

CallStep == ArmTimer \/ ArmThrows \/ QueueTimerOperation \/ PostZeroWait

Next ==
    \/ \E o \in Ops :
           \/ \E val \in TriggerValues : trigger_with_value(o, val)
           \/ wait_for_event(o)
           \/ wait(o)
           \/ \E d \in Durations : \/ wait_for_expiry_after(o, d)
                                   \/ wait_for_timer_expiry_after(o, d)
           \/ PerformRead(o)
           \/ ReadFails(o)
           \/ PerformWrite(o)
           \/ DeliverCancelled(o)
    \/ \E w \in {"IN", "OUT"} : NothingDone(w)
    \/ RaiseSignal
    \/ CallStep
    \/ expire
    \/ TimerExpires
    \/ cancel

(* The event epoll has: one that can be read is for the waits alone. *)
InEvent  == "IN" \in interest /\ count > 0
OutEvent == "OUT" \in interest /\ count < MaxCount /\ ~InEvent

(***************************************************************************)
(* Time passes, a call comes to its end, and the loop handles an event     *)
(* that epoll keeps reporting (ContextThread!ReadyIsDispatched): it is for *)
(* a direction that is registered, not for whatever operation is pending.  *)
(***************************************************************************)
Fairness ==
    /\ WF_vars(TimerExpires)
    /\ WF_vars(CallStep)
    /\ \A o \in Ops : /\ WF_vars(InEvent /\ PerformRead(o))
                      /\ WF_vars(OutEvent /\ PerformWrite(o))
                      /\ WF_vars(DeliverCancelled(o))
    /\ WF_vars(OutEvent /\ NothingDone("OUT"))

Spec == Init /\ [][Next]_vars /\ Fairness

----------------------------------------------------------------------------
Waits(s) == {o \in Ops : asked[o] = "wait" /\ state[o] = s}

(* The counter stays within what the descriptor can hold. *)
TypeOK ==
    /\ kind \in Kinds
    /\ count \in 0 .. MaxCount
    /\ kind \notin Events => count <= 1
    /\ armed => kind \in {"timer", "free_timer"}
    /\ state \in [Ops -> {"new", "pending", "settled", "delivered"}]
    /\ interest \subseteq {"IN", "OUT"}

(***************************************************************************)
(* "Each triggered event will be consumed by, at most, one waiting         *)
(* consumer" (event.hpp): what was triggered is in the counter or was read *)
(* by exactly one wait, in both modes, with waits and triggers cancelled   *)
(* or failing in between.                                                  *)
(***************************************************************************)
EventsConserved ==
    kind \in Events =>
        given = count + MapThenSumSet(LAMBDA o : got[o],
                           {o \in Waits("delivered") : got[o] # Error})

(***************************************************************************)
(* A wait on a timer never reports an expiry of a setting older than its   *)
(* own: whatever the timer did before is forgotten by the time the wait is *)
(* scheduled.                                                              *)
(***************************************************************************)
ExpiryIsFresh ==
    \A o \in Ops : expiredAs[o] # 0 => expiredAs[o] >= armedAs[o]

(***************************************************************************)
(* A timer has at most one wait scheduled, so that one expiry, which only  *)
(* one read can see, leaves nobody waiting, as long as only one thread at  *)
(* a time is in wait_for_expiry_after().                                   *)
(***************************************************************************)
OneWaitPerTimer ==
    kind \notin Events \cup {"signal"} => Cardinality(Waits("pending")) <= 1

(***************************************************************************)
(* A wait that is reported as successful has taken something from the      *)
(* descriptor; only a Timer's zero wait and a Signal (whose failed read is *)
(* reported as a success with an unset value) are exceptions.              *)
(***************************************************************************)
SuccessMeansRead ==
    \A o \in Waits("delivered") :
        outcome[o] = "io" /\ kind # "signal" /\ duration[o] # "zero"
            => got[o] # 0


(***************************************************************************)
(* Waiters and triggers do not block each other: an event in the counter   *)
(* reaches a waiter if there is one, and a trigger that has no room gets   *)
(* it from a waiter of a counting event.  One thing stops them, a shortcut *)
(* of the scheduler (io_scheduler.cpp:214): schedule() drops the interest  *)
(* of one direction while epoll has no event for the other, and nothing    *)
(* puts it back.                                                           *)
(***************************************************************************)
Deaf == ~(Ways(Pending) \subseteq interest) /\ ~InEvent /\ ~OutEvent

EventsMakeProgress ==
    \/ <>[]Deaf
    \/ /\ (kind \in Events /\ count > 0 /\ Waits("pending") # {})
              ~> (count = 0 \/ Waits("pending") = {})
       /\ \A o \in Ops :
              (/\ asked[o] = "trigger"
               /\ state[o] = "pending"
               /\ kind = "event"
               /\ Waits("pending") # {})
              ~> (state[o] = "delivered" \/ Waits("pending") = {})
============================================================================
