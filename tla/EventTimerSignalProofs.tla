----------------------- MODULE EventTimerSignalProofs -----------------------
(***************************************************************************)
(* Proofs about Event, Timer and Signal, for any number of operations and  *)
(* any counter limit.  ObjectInv is the inductive invariant: what a call   *)
(* of wait_for_expiry_after() may rely on between two of its system calls, *)
(* and what an operation has not done before it is scheduled.              *)
(***************************************************************************)
EXTENDS EventTimerSignal, DataLemmas

Todos == {"settime", "queue", "post"}

ObjectTypes ==
    /\ TypeOK
    /\ armed \in BOOLEAN
    /\ outcome \in [Ops -> {"none", "io", "canceled"}]
    /\ asked \in [Ops -> {"nothing", "trigger", "wait"}]
    /\ value \in [Ops -> Nat]
    /\ duration \in [Ops -> Durations \cup {"none"}]
    /\ got \in [Ops -> Int]
    /\ call \in [op : Ops, todo : Todos] \cup {NoCall}
    /\ arming \in Nat
    /\ armedAs \in [Ops -> Nat]
    /\ expiredAs \in [Ops -> Nat]
    /\ given \in Nat

(* Only events are triggered.  An operation that was not asked for anything
   is not scheduled, and one that is not scheduled has seen no expiry. *)
NewOps ==
    \A o \in Ops : /\ asked[o] = "trigger" => kind \in Events
                   /\ asked[o] = "nothing" => state[o] = "new"
                   /\ state[o] = "new" => expiredAs[o] = 0

(* What waits to be delivered without having been performed is cancelled. *)
SettledOps == \A o \in Ops : state[o] = "settled" => outcome[o] = "canceled"

NonePending == \A o \in Ops : state[o] # "pending"

(* Between its cancel() and its end, wait_for_expiry_after() has the timer
   to itself. *)
CallInProgress ==
    call # NoCall => /\ kind = "timer"
                     /\ state[call.op] = "new"
                     /\ asked[call.op] = "wait"
                     /\ NonePending
                     /\ call.todo = "post" => duration[call.op] = "zero"

(* The free function's timer has no wait before it is set. *)
FreeTimerFirst == kind = "free_timer" /\ arming = 0 => NonePending

OnePending ==
    kind \in {"timer", "free_timer"} =>
        \A o, p \in Ops : state[o] = "pending" /\ state[p] = "pending"
                              => o = p

ArmedBefore == \A o \in Ops : armedAs[o] <= arming

ObjectInv ==
    /\ ObjectTypes
    /\ NewOps
    /\ SettledOps
    /\ CallInProgress
    /\ FreeTimerFirst
    /\ OnePending
    /\ ArmedBefore
    /\ ExpiryIsFresh
    /\ SuccessMeansRead

----------------------------------------------------------------------------
(* All operations of the object use its one descriptor: cancel() settles
   every one of them, and there is at least one. *)
LEMMA CancelEffect ==
    ASSUME ObjectTypes, NEW f \in Fds, CancelAll(f)
    PROVE  /\ state' = [o \in Ops |-> IF state[o] = "pending" THEN "settled"
                                     ELSE state[o]]
           /\ outcome' = [o \in Ops |-> IF state[o] = "pending"
                                       THEN "canceled" ELSE outcome[o]]
<1> DEFINE hit == {o \in Ops : FdOf[o] = f /\ state[o] = "pending"}
<1>1. \A o \in Ops : o \in hit <=> state[o] = "pending"
  BY ObjectAssumption DEF CancelAll
<1>2. /\ state' = [o \in Ops |-> IF o \in hit THEN "settled" ELSE state[o]]
      /\ outcome' = [o \in Ops |-> IF o \in hit THEN "canceled"
                                   ELSE outcome[o]]
  BY DEF CancelAll
<1> HIDE DEF hit
<1> QED
  BY <1>1, <1>2

(* What a call of cancel() leaves: nothing pending, the rest as it was. *)
CancelledAll ==
    /\ state' \in [Ops -> {"new", "pending", "settled", "delivered"}]
    /\ outcome' \in [Ops -> {"none", "io", "canceled"}]
    /\ \A o \in Ops :
         /\ state'[o] # "pending"
         /\ state[o] = "pending" => /\ state'[o] = "settled"
                                    /\ outcome'[o] = "canceled"
         /\ state[o] # "pending" => /\ state'[o] = state[o]
                                    /\ outcome'[o] = outcome[o]

LEMMA CancelledEffect ==
    ASSUME ObjectTypes, CancelIo \/ CancelPending
    PROVE  CancelledAll
<1>t. /\ state \in [Ops -> {"new", "pending", "settled", "delivered"}]
      /\ outcome \in [Ops -> {"none", "io", "canceled"}]
  BY DEF ObjectTypes, TypeOK
<1>1. CASE CancelPending
  BY <1>1, <1>t, CancelEffect DEF CancelPending, CancelledAll
<1>2. CASE Pending = {} /\ UNCHANGED asyncVars
  BY <1>2, <1>t DEF Pending, asyncVars, CancelledAll
<1> QED
  BY <1>1, <1>2 DEF CancelIo

(* Only the two directions of the operations are ever registered. *)
LEMMA InterestStep ==
    ASSUME interest \subseteq {"IN", "OUT"}, [Next]_vars
    PROVE  interest' \subseteq {"IN", "OUT"}
<1>w. ASSUME NEW S
      PROVE  Ways(S) \subseteq {"IN", "OUT"}
  BY DEF Ways, Way
<1>1. ASSUME NEW o, NEW w \in {"IN", "OUT"}, ScheduleIo(o, w)
      PROVE  interest' \subseteq {"IN", "OUT"}
  BY <1>1, <1>w DEF ScheduleIo
<1>2. ASSUME NEW o, CompleteIo(o)
      PROVE  interest' \subseteq {"IN", "OUT"}
  BY <1>2, <1>w DEF CompleteIo
<1>3. CASE CancelIo \/ CancelPending
  BY <1>3 DEF CancelIo, CancelPending, CancelReturns, CancelHangs, loopVars
<1>4. ASSUME NEW w, NothingDone(w)
      PROVE  interest' \subseteq {"IN", "OUT"}
  BY <1>4, <1>w DEF NothingDone
<1>5. CASE UNCHANGED loopVars
  BY <1>5 DEF loopVars
<1>6. ASSUME NEW o \in Ops,
             \/ \E val \in TriggerValues : trigger_with_value(o, val)
             \/ wait_for_event(o) \/ wait(o)
             \/ \E d \in Durations : wait_for_timer_expiry_after(o, d)
      PROVE  interest' \subseteq {"IN", "OUT"}
  <2>1. ScheduleIo(o, "OUT") \/ ScheduleIo(o, "IN") \/ UNCHANGED loopVars
    BY <1>6 DEF trigger_with_value, wait_for_event, wait,
                wait_for_timer_expiry_after
  <2> QED
    BY <1>1, <1>5, <2>1
<1>7. ASSUME NEW o \in Ops,
             \/ PerformRead(o) \/ ReadFails(o) \/ PerformWrite(o)
             \/ DeliverCancelled(o)
      PROVE  interest' \subseteq {"IN", "OUT"}
  <2>1. CompleteIo(o) \/ UNCHANGED loopVars
    BY <1>7 DEF PerformRead, ReadFails, PerformWrite, DeliverCancelled
  <2> QED
    BY <1>2, <1>5, <2>1
<1>8. CASE cancel \/ \E o \in Ops, d \in Durations :
                        wait_for_expiry_after(o, d)
  <2>1. CancelIo \/ CancelPending
    BY <1>8 DEF cancel, wait_for_expiry_after
  <2> QED
    BY <1>3, <2>1
<1>9. CASE CallStep \/ RaiseSignal \/ TimerExpires \/ expire \/ UNCHANGED vars
  <2>1. ScheduleIo(call.op, "IN") \/ UNCHANGED loopVars
    BY <1>9 DEF CallStep, ArmTimer, ArmThrows, QueueTimerOperation,
                PostZeroWait, RaiseSignal, TimerExpires, expire, vars
  <2> QED
    BY <1>1, <1>5, <2>1
<1> QED
  BY <1>4, <1>6, <1>7, <1>8, <1>9 DEF Next

(* The initial states, with the object of any kind *)
LEMMA ObjectInit ==
    Init => ObjectInv
<1> SUFFICES ASSUME Init PROVE ObjectInv
  OBVIOUS
<1>1. ObjectTypes
  <2>1. armed = FALSE /\ call = NoCall /\ kind \in Kinds /\ count = 0
        /\ MaxCount \in Nat
    BY ObjectAssumption DEF Init
  <2>2. armed \in BOOLEAN /\ (armed => kind \in {"timer", "free_timer"})
    BY <2>1, Zenon
  <2> QED
    BY <2>1, <2>2 DEF Init, AsyncInit, ObjectTypes, TypeOK
<1>2. \A o \in Ops : /\ state[o] = "new" /\ asked[o] = "nothing"
                     /\ expiredAs[o] = 0 /\ armedAs[o] = 0
  BY DEF Init, AsyncInit
<1>3. call = NoCall /\ arming = 0
  BY DEF Init
<1> QED
  BY <1>1, <1>2, <1>3
  DEF ObjectInv, NewOps, SettledOps, CallInProgress, FreeTimerFirst,
      NonePending, OnePending, ArmedBefore, ExpiryIsFresh, SuccessMeansRead,
      Waits

(* The types and the bounds of the counter *)
LEMMA ObjectTypesStep ==
    ASSUME ObjectTypes, NewOps, CallInProgress, [Next]_vars
    PROVE  ObjectTypes'
<1>t. /\ state \in [Ops -> {"new", "pending", "settled", "delivered"}]
      /\ count \in Nat /\ MaxCount \in Nat /\ 1 <= MaxCount
  BY ObjectAssumption DEF ObjectTypes, TypeOK
<1>b. armed \in BOOLEAN /\ (armed => kind \in {"timer", "free_timer"})
  BY DEF ObjectTypes, TypeOK
<1>f. ASSUME kind' = kind, armed' = armed \/ armed' = FALSE
      PROVE  /\ armed' \in BOOLEAN
             /\ armed' => kind' \in {"timer", "free_timer"}
  <2>1. CASE armed' = armed
    BY <1>b, <1>f, <2>1, Zenon
  <2>2. CASE armed' = FALSE
    BY <2>2, Zenon
  <2> QED
    BY <1>f, <2>1, <2>2
<1>i. interest' \subseteq {"IN", "OUT"}
  BY InterestStep DEF ObjectTypes, TypeOK
<1> USE <1>t, <1>i DEF ObjectTypes, TypeOK, Todos, Events, requests, opVars,
                 history, asyncVars
<1>1. ASSUME NEW o \in Ops, NEW val \in TriggerValues,
             trigger_with_value(o, val)
      PROVE  ObjectTypes'
  BY <1>1 DEF trigger_with_value, Ask, ScheduleIo, Submit, TriggerValues
<1>2. ASSUME NEW o \in Ops, wait_for_event(o) \/ wait(o)
      PROVE  ObjectTypes'
  BY <1>2 DEF wait_for_event, wait, Ask, ScheduleIo, Submit
<1>3. ASSUME NEW o \in Ops, NEW d \in Durations,
             wait_for_expiry_after(o, d)
      PROVE  ObjectTypes'
  BY <1>3, CancelledEffect
  DEF wait_for_expiry_after, Ask, CancelledAll
<1>4. ASSUME NEW o \in Ops, NEW d \in Durations,
             wait_for_timer_expiry_after(o, d)
      PROVE  ObjectTypes'
  <2>k. /\ kind' = kind /\ kind = "free_timer"
        /\ armed' \in BOOLEAN \/ armed' = armed
    BY <1>4 DEF wait_for_timer_expiry_after, Ask, SetTime
  <2>0. armed' \in BOOLEAN /\ (armed' => kind' \in {"timer", "free_timer"})
    BY <2>k, Zenon
  <2>1. /\ count' \in {0, count} /\ arming' \in Nat
        /\ armedAs' \in [Ops -> Nat]
    BY <1>4 DEF wait_for_timer_expiry_after, SetTime
  <2>2. state' \in [Ops -> {"new", "pending", "settled", "delivered"}]
    BY <1>4 DEF wait_for_timer_expiry_after, ScheduleIo, Submit
  <2>3. outcome' = outcome
    BY <1>4 DEF wait_for_timer_expiry_after, ScheduleIo, Submit
  <2>4. /\ asked' \in [Ops -> {"nothing", "trigger", "wait"}]
        /\ value' \in [Ops -> Nat]
        /\ duration' \in [Ops -> Durations \cup {"none"}]
        /\ UNCHANGED <<got, given, call, expiredAs>>
    BY <1>4 DEF wait_for_timer_expiry_after, Ask
  <2> QED
    BY <2>k, <2>0, <2>1, <2>2, <2>3, <2>4
<1>5. ASSUME NEW o \in Ops, PerformRead(o)
      PROVE  ObjectTypes'
  <2>1. Complete(o)
    BY <1>5 DEF PerformRead, CompleteIo
  <2> QED
    BY <1>5, <2>1 DEF PerformRead, Complete, Taken
<1>6. ASSUME NEW o \in Ops, ReadFails(o)
      PROVE  ObjectTypes'
  <2>1. Complete(o)
    BY <1>6 DEF ReadFails, CompleteIo
  <2> QED
    BY <1>6, <2>1 DEF ReadFails, Complete, Reported, Error
<1>7. ASSUME NEW o \in Ops, PerformWrite(o)
      PROVE  ObjectTypes'
  <2>1. kind \in Events /\ state[o] = "pending"
    BY <1>7 DEF PerformWrite, CompleteIo, Complete, NewOps
  <2>2. /\ count' \in 0 .. MaxCount /\ given' \in Nat
        /\ got' \in [Ops -> Int]
    BY <1>7 DEF PerformWrite, Fits, Error
  <2> QED
    BY <1>7, <2>1, <2>2 DEF PerformWrite, CompleteIo, Complete
<1>8. ASSUME NEW o \in Ops, DeliverCancelled(o)
      PROVE  ObjectTypes'
  BY <1>8 DEF DeliverCancelled, Deliver
<1>9. CASE RaiseSignal \/ TimerExpires
  <2>k. kind' = kind /\ (armed' = armed \/ armed' = FALSE)
    BY <1>9 DEF RaiseSignal, TimerExpires
  <2>1. armed' \in BOOLEAN /\ (armed' => kind' \in {"timer", "free_timer"})
    BY <2>k, <1>f
  <2>2. count' = 1
    BY <1>9 DEF RaiseSignal, TimerExpires
  <2> QED
    BY <1>9, <2>1, <2>2 DEF RaiseSignal, TimerExpires
<1>10. CASE ArmTimer
  BY <1>10 DEF ArmTimer, SetTime, CallInProgress, NoCall
<1>11. CASE ArmThrows
  BY <1>11 DEF ArmThrows
<1>12. CASE QueueTimerOperation
  BY <1>12 DEF QueueTimerOperation, ScheduleIo, Submit
<1>13. CASE PostZeroWait
  <2>1. call.op \in Ops
    BY <1>13 DEF PostZeroWait, NoCall
  <2> QED
    BY <1>13, <2>1 DEF PostZeroWait
<1>14. CASE expire
  BY <1>14 DEF expire, SetTime
<1>15. CASE cancel
  BY <1>15, CancelledEffect DEF cancel, CancelledAll
<1>16. CASE UNCHANGED vars \/ \E w \in {"IN", "OUT"} : NothingDone(w)
  BY <1>16 DEF vars, NothingDone
<1> QED
  BY <1>1, <1>2, <1>3, <1>4, <1>5, <1>6, <1>7, <1>8, <1>9, <1>10, <1>11,
     <1>12, <1>13, <1>14, <1>15, <1>16 DEF Next, CallStep

(* What a Timer's waits, cancellations and expiries may rely on *)
ObjectFacts ==
    /\ NewOps
    /\ SettledOps
    /\ CallInProgress
    /\ FreeTimerFirst
    /\ OnePending
    /\ ArmedBefore
    /\ ExpiryIsFresh
    /\ SuccessMeansRead

LEMMA ObjectFactsStep ==
    ASSUME ObjectTypes, ObjectFacts, [Next]_vars
    PROVE  ObjectFacts'
<1>t. /\ state \in [Ops -> {"new", "pending", "settled", "delivered"}]
      /\ outcome \in [Ops -> {"none", "io", "canceled"}]
      /\ asked \in [Ops -> {"nothing", "trigger", "wait"}]
      /\ duration \in [Ops -> Durations \cup {"none"}]
      /\ got \in [Ops -> Int] /\ count \in Nat /\ arming \in Nat
      /\ armedAs \in [Ops -> Nat] /\ expiredAs \in [Ops -> Nat]
      /\ call \in [op : Ops, todo : Todos] \cup {NoCall}
  BY DEF ObjectTypes, TypeOK
<1> USE <1>t DEF ObjectFacts, NewOps, SettledOps, CallInProgress,
                 FreeTimerFirst, NonePending, OnePending, ArmedBefore,
                 ExpiryIsFresh, SuccessMeansRead, Waits, Events, requests,
                 opVars, history, asyncVars
<1>1. ASSUME NEW o \in Ops, NEW val \in TriggerValues,
             trigger_with_value(o, val)
      PROVE  ObjectFacts'
  BY <1>1 DEF trigger_with_value, Ask, ScheduleIo, Submit
<1>2. ASSUME NEW o \in Ops, wait_for_event(o) \/ wait(o)
      PROVE  ObjectFacts'
  BY <1>2 DEF wait_for_event, wait, Ask, ScheduleIo, Submit
<1>3. ASSUME NEW o \in Ops, NEW d \in Durations,
             wait_for_expiry_after(o, d)
      PROVE  ObjectFacts'
  <2>1. CancelledAll
    BY <1>3, CancelledEffect DEF wait_for_expiry_after
  <2>u. /\ kind = "timer" /\ asked[o] = "nothing"
        /\ asked' = [asked EXCEPT ![o] = "wait"]
        /\ duration' = [duration EXCEPT ![o] = d]
        /\ call' = [op |-> o, todo |-> IF d = "zero" THEN "post"
                                      ELSE "settime"]
        /\ UNCHANGED <<kind, got, arming, armedAs, expiredAs>>
    BY <1>3 DEF wait_for_expiry_after, Ask
  <2>2. /\ NewOps' /\ SettledOps' /\ ArmedBefore' /\ ExpiryIsFresh'
        /\ FreeTimerFirst' /\ OnePending'
    BY <2>u, <2>1 DEF CancelledAll
  <2>3. CallInProgress'
    BY <2>u, <2>1 DEF CancelledAll, NoCall
  <2>4. SuccessMeansRead'
    BY <2>u, <2>1 DEF CancelledAll
  <2> QED
    BY <2>2, <2>3, <2>4
<1>4. ASSUME NEW o \in Ops, NEW d \in Durations,
             wait_for_timer_expiry_after(o, d)
      PROVE  ObjectFacts'
  BY <1>4 DEF wait_for_timer_expiry_after, Ask, SetTime, ScheduleIo, Submit
<1>5. ASSUME NEW o \in Ops, PerformRead(o)
      PROVE  ObjectFacts'
  BY <1>5 DEF PerformRead, CompleteIo, Complete, Taken
<1>6. ASSUME NEW o \in Ops, ReadFails(o)
      PROVE  ObjectFacts'
  BY <1>6 DEF ReadFails, CompleteIo, Complete, Reported, Error
<1>7. ASSUME NEW o \in Ops, PerformWrite(o)
      PROVE  ObjectFacts'
  BY <1>7 DEF PerformWrite, CompleteIo, Complete
<1>8. ASSUME NEW o \in Ops, DeliverCancelled(o)
      PROVE  ObjectFacts'
  BY <1>8 DEF DeliverCancelled, Deliver
<1>9. CASE RaiseSignal \/ TimerExpires
  BY <1>9 DEF RaiseSignal, TimerExpires
<1>10. CASE ArmTimer
  BY <1>10 DEF ArmTimer, SetTime, NoCall
<1>11. CASE ArmThrows
  BY <1>11 DEF ArmThrows
<1>12. CASE QueueTimerOperation
  BY <1>12 DEF QueueTimerOperation, ScheduleIo, Submit, NoCall
<1>13. CASE PostZeroWait
  BY <1>13 DEF PostZeroWait, NoCall
<1>14. CASE expire
  BY <1>14 DEF expire, SetTime
<1>15. CASE cancel
  <2>1. CancelledAll
    BY <1>15, CancelledEffect DEF cancel
  <2>u. UNCHANGED <<kind, count, armed, inputs, opVars, call, history>>
    BY <1>15 DEF cancel
  <2>2. /\ NewOps' /\ SettledOps' /\ ArmedBefore' /\ ExpiryIsFresh'
        /\ FreeTimerFirst' /\ OnePending'
    BY <2>u, <2>1 DEF CancelledAll
  <2>3. CallInProgress' /\ SuccessMeansRead'
    BY <2>u, <2>1 DEF CancelledAll
  <2> QED
    BY <2>2, <2>3
<1>16. CASE UNCHANGED vars \/ \E w \in {"IN", "OUT"} : NothingDone(w)
  BY <1>16 DEF vars, NothingDone
<1> QED
  BY <1>1, <1>2, <1>3, <1>4, <1>5, <1>6, <1>7, <1>8, <1>9, <1>10, <1>11,
     <1>12, <1>13, <1>14, <1>15, <1>16 DEF Next, CallStep

----------------------------------------------------------------------------
LEMMA ObjectInvariant ==
    Spec => []ObjectInv
<1>1. Init => ObjectInv
  BY ObjectInit
<1>2. ObjectInv /\ [Next]_vars => ObjectInv'
  BY ObjectTypesStep, ObjectFactsStep DEF ObjectInv, ObjectFacts
<1> QED
  BY <1>1, <1>2, PTL DEF Spec

(***************************************************************************)
(* The counter of an eventfd stays within its limit, that of a timerfd or  *)
(* signalfd is 0 or 1, and only timers are ever armed.                     *)
(***************************************************************************)
THEOREM ObjectTypeCorrect ==
    Spec => []TypeOK
<1>1. ObjectInv => TypeOK
  BY DEF ObjectInv, ObjectTypes
<1> QED
  BY <1>1, ObjectInvariant, PTL

(***************************************************************************)
(* No wait of a Timer, whatever other threads cancel or expire between the *)
(* system calls of wait_for_expiry_after(), reports an expiry that belongs *)
(* to an older timerfd_settime() than its own.                             *)
(***************************************************************************)
THEOREM ExpiriesAreFresh ==
    Spec => []ExpiryIsFresh
<1>1. ObjectInv => ExpiryIsFresh
  BY DEF ObjectInv
<1> QED
  BY <1>1, ObjectInvariant, PTL

(***************************************************************************)
(* wait_for_expiry_after() cancels first, and the free function has a      *)
(* timer of its own: with one thread at a time in wait_for_expiry_after()  *)
(* a timer never has two waits scheduled.                                  *)
(***************************************************************************)
THEOREM OneWaitOnATimer ==
    Spec => []OneWaitPerTimer
<1>1. ASSUME ObjectInv
      PROVE  OneWaitPerTimer
  <2>1. CASE Waits("pending") = {}
    BY <2>1, FS_EmptySet DEF OneWaitPerTimer
  <2>2. CASE Waits("pending") # {} /\ kind \notin Events \cup {"signal"}
    <3>1. kind \in {"timer", "free_timer"}
      BY <1>1, <2>2, ObjectAssumption
      DEF ObjectInv, ObjectTypes, TypeOK, Events
    <3>2. PICK o \in Ops : o \in Waits("pending")
      BY <2>2 DEF Waits
    <3>3. Waits("pending") = {o}
      BY <1>1, <3>1, <3>2 DEF Waits, ObjectInv, OnePending
    <3> QED
      BY <3>3, FS_Singleton DEF OneWaitPerTimer
  <2> QED
    BY <2>1, <2>2 DEF OneWaitPerTimer
<1> QED
  BY <1>1, ObjectInvariant, PTL

(***************************************************************************)
(* A wait that succeeds has read the descriptor, also when cancellations,  *)
(* failures and the posted completion of a zero wait come in between.      *)
(***************************************************************************)
THEOREM SuccessIsARead ==
    Spec => []SuccessMeansRead
<1>1. ObjectInv => SuccessMeansRead
  BY DEF ObjectInv
<1> QED
  BY <1>1, ObjectInvariant, PTL

----------------------------------------------------------------------------
(* The waits that took something from the counter or were cancelled *)
Served == {o \in Waits("delivered") : got[o] # Error}

(* Nobody has a value before the operation is performed. *)
NothingYet == \A o \in Ops : state[o] # "delivered" => got[o] = 0

ConserveInv == NothingYet /\ EventsConserved

LEMMA ServedFinite ==
    ASSUME ObjectTypes
    PROVE  /\ IsFiniteSet(Served) /\ Served \subseteq Ops
           /\ \A o \in Ops : got[o] \in Int
           /\ Total(got, Served) \in Int
<1>1. Served \subseteq Ops /\ \A o \in Ops : got[o] \in Int
  BY DEF Served, Waits, ObjectTypes
<1>2. IsFiniteSet(Served)
  BY <1>1, FS_Subset, ObjectAssumption
<1> QED
  BY <1>1, <1>2, TotalType

LEMMA ConservedTotal ==
    EventsConserved <=>
        (kind \in Events => given = count + Total(got, Served))
  BY DEF EventsConserved, Total, Served

(* An operation that is done with value v, and is not an error, adds v. *)
LEMMA ServedGrows ==
    ASSUME ObjectTypes, NEW o \in Ops, NEW v \in Int,
           o \notin Served, Served' = Served \cup {o},
           got' = [got EXCEPT ![o] = v]
    PROVE  Total(got', Served') = v + Total(got, Served)
<1>1. /\ IsFiniteSet(Served) /\ Served \subseteq Ops
      /\ \A p \in Ops : got[p] \in Int
      /\ got \in [Ops -> Int]
  BY ServedFinite DEF ObjectTypes
<1>2. /\ got'[o] = v /\ \A p \in Served : got[p] = got'[p]
      /\ \A p \in Served \cup {o} : got'[p] \in Int
  BY <1>1
<1> DEFINE R == Served
           new == got'
<1>3. Total(new, R \cup {o}) = new[o] + Total(new, R)
  <2>1. IsFiniteSet(R) /\ o \notin R /\ \A p \in R \cup {o} : new[p] \in Int
    BY <1>1, <1>2
  <2> HIDE DEF R, new
  <2> QED
    BY <2>1, TotalAdd
<1>4. Total(got, R) = Total(new, R)
  <2>1. IsFiniteSet(R) /\ \A p \in R : got[p] \in Int /\ got[p] = new[p]
    BY <1>1, <1>2
  <2> HIDE DEF R, new
  <2> QED
    BY <2>1, TotalSame
<1> QED
  BY <1>2, <1>3, <1>4

(* A step that serves nobody leaves the sum alone. *)
LEMMA ServedStays ==
    ASSUME ObjectTypes, Served' = Served, \A p \in Served : got'[p] = got[p]
    PROVE  Total(got', Served') = Total(got, Served)
<1>1. IsFiniteSet(Served) /\ \A p \in Served : got[p] \in Int
  BY ServedFinite
<1> DEFINE R == Served
           new == got'
<1>2. IsFiniteSet(R) /\ \A p \in R : got[p] \in Int /\ got[p] = new[p]
  BY <1>1
<1>3. Total(got, R) = Total(new, R)
  <2> HIDE DEF R, new
  <2> QED
    BY <1>2, TotalSame
<1> QED
  BY <1>3

LEMMA NothingYetStep ==
    ASSUME ObjectTypes, CallInProgress, NothingYet, [Next]_vars
    PROVE  NothingYet'
<1>t. /\ state \in [Ops -> {"new", "pending", "settled", "delivered"}]
      /\ got \in [Ops -> Int]
  BY DEF ObjectTypes, TypeOK
<1>1. ASSUME UNCHANGED got,
             \A o \in Ops : state[o] = "delivered" => state'[o] = "delivered"
      PROVE  NothingYet'
  BY <1>1 DEF NothingYet
<1>2. ASSUME NEW o \in Ops, Submit(o) \/ Deliver(o) \/ UNCHANGED state
      PROVE  \A p \in Ops : state[p] = "delivered" => state'[p] = "delivered"
  BY <1>t, <1>2 DEF Submit, Deliver
<1>3. ASSUME NEW o \in Ops, PerformRead(o) \/ ReadFails(o) \/ PerformWrite(o)
      PROVE  NothingYet'
  BY <1>t, <1>3
  DEF PerformRead, ReadFails, PerformWrite, CompleteIo, Complete, NothingYet
<1>4. CASE PostZeroWait
  BY <1>t, <1>4 DEF PostZeroWait, NothingYet
<1>5. ASSUME CancelIo \/ CancelPending
      PROVE  \A p \in Ops : state[p] = "delivered" => state'[p] = "delivered"
  BY <1>5, CancelledEffect DEF CancelledAll
<1>6. ASSUME NEW o \in Ops,
             \/ \E val \in TriggerValues : trigger_with_value(o, val)
             \/ wait_for_event(o) \/ wait(o) \/ DeliverCancelled(o)
             \/ \E d \in Durations : wait_for_timer_expiry_after(o, d)
      PROVE  NothingYet'
  <2>1. UNCHANGED got /\ (Submit(o) \/ Deliver(o) \/ UNCHANGED state)
    BY <1>6 DEF trigger_with_value, wait_for_event, wait, DeliverCancelled,
                wait_for_timer_expiry_after, ScheduleIo, Ask, opVars, asyncVars
  <2> QED
    BY <1>1, <1>2, <2>1
<1>7. CASE cancel \/ \E o \in Ops, d \in Durations :
                        wait_for_expiry_after(o, d)
  <2>1. UNCHANGED got /\ (CancelIo \/ CancelPending)
    BY <1>7 DEF cancel, wait_for_expiry_after, Ask, opVars
  <2> QED
    BY <1>1, <1>5, <2>1
<1>8. CASE QueueTimerOperation
  <2>1. call.op \in Ops
    BY <1>8 DEF QueueTimerOperation, ObjectTypes, NoCall
  <2>2. UNCHANGED got /\ Submit(call.op)
    BY <1>8 DEF QueueTimerOperation, ScheduleIo, opVars
  <2> QED
    BY <1>1, <1>2, <2>1, <2>2
<1>9. CASE \/ RaiseSignal \/ TimerExpires \/ ArmTimer \/ ArmThrows \/ expire
           \/ UNCHANGED vars \/ \E w \in {"IN", "OUT"} : NothingDone(w)
  <2>1. UNCHANGED <<got, state>>
    BY <1>9 DEF RaiseSignal, TimerExpires, ArmTimer, ArmThrows, expire, vars,
                NothingDone, asyncVars, opVars
  <2> QED
    BY <1>1, <2>1
<1> QED
  BY <1>3, <1>4, <1>6, <1>7, <1>8, <1>9 DEF Next, CallStep

LEMMA ConservedStep ==
    ASSUME ObjectInv, ConserveInv, [Next]_vars
    PROVE  EventsConserved'
<1>t. /\ state \in [Ops -> {"new", "pending", "settled", "delivered"}]
      /\ got \in [Ops -> Int] /\ asked \in [Ops -> {"nothing", "trigger",
                                                    "wait"}]
      /\ count \in Nat /\ given \in Nat /\ value \in [Ops -> Nat]
      /\ ObjectTypes /\ Total(got, Served) \in Int
      /\ (armed => kind \notin Events)
  BY ServedFinite DEF ObjectInv, ObjectTypes, TypeOK, Events
<1>k. kind' = kind
  BY CancelledEffect
  DEF Next, CallStep, trigger_with_value, wait_for_event, wait, Ask,
      wait_for_expiry_after, wait_for_timer_expiry_after, PerformRead,
      ReadFails, PerformWrite, DeliverCancelled, RaiseSignal, ArmTimer,
      ArmThrows, QueueTimerOperation, PostZeroWait, expire, TimerExpires,
      cancel, NothingDone, vars
<1>c. (kind \in Events => given' = count' + Total(got', Served'))
          => EventsConserved'
  <2>1. (EventsConserved <=>
            (kind \in Events => given = count + Total(got, Served)))'
    BY ConservedTotal, PTL
  <2> QED
    BY <1>k, <2>1
<1>o. kind \in Events => given = count + Total(got, Served)
  BY ConservedTotal DEF ConserveInv
<1> SUFFICES ASSUME kind \in Events
             PROVE  given' = count' + Total(got', Served')
  BY <1>c
<1>s. ASSUME Served' = Served, UNCHANGED <<count, given, got>>
      PROVE  given' = count' + Total(got', Served')
  BY <1>s, <1>t, <1>o, ServedStays
<1>1. ASSUME NEW o \in Ops,
             \/ \E val \in TriggerValues : trigger_with_value(o, val)
             \/ wait_for_event(o)
      PROVE  given' = count' + Total(got', Served')
  <2>1. /\ UNCHANGED <<count, given, got>> /\ asked[o] = "nothing"
        /\ Submit(o) /\ \A p \in Ops \ {o} : asked'[p] = asked[p]
    BY <1>1, <1>t DEF trigger_with_value, wait_for_event, ScheduleIo, Ask
  <2>2. Served' = Served
    BY <1>t, <2>1 DEF Submit, Served, Waits
  <2> QED
    BY <1>s, <2>1, <2>2
<1>2. ASSUME NEW o \in Ops, PerformRead(o)
      PROVE  given' = count' + Total(got', Served')
  <2> DEFINE v == IF kind = "semaphore" THEN 1 ELSE count
  <2>1. /\ state[o] = "pending" /\ asked[o] = "wait" /\ count > 0
        /\ got' = [got EXCEPT ![o] = v] /\ count' = count - v
        /\ state' = [state EXCEPT ![o] = "delivered"]
        /\ UNCHANGED <<given, asked>>
    BY <1>2 DEF PerformRead, CompleteIo, Complete, Taken, requests
  <2>2. v \in Int /\ v > 0
    BY <1>t, <2>1
  <2> HIDE DEF v
  <2>3. Served' = Served \cup {o} /\ o \notin Served
    BY <1>t, <2>1, <2>2 DEF Served, Waits, Error
  <2>4. Total(got', Served') = v + Total(got, Served)
    BY <1>t, <2>1, <2>2, <2>3, ServedGrows
  <2> QED
    BY <1>t, <1>o, <2>1, <2>2, <2>4
<1>3. ASSUME NEW o \in Ops, ReadFails(o)
      PROVE  given' = count' + Total(got', Served')
  <2>1. /\ state[o] = "pending" /\ got' = [got EXCEPT ![o] = Error]
        /\ state' = [state EXCEPT ![o] = "delivered"]
        /\ UNCHANGED <<count, given, asked>>
    BY <1>3 DEF ReadFails, CompleteIo, Complete, Reported, requests, history,
                Events
  <2>2. Served' = Served /\ \A p \in Served : got'[p] = got[p]
    BY <1>t, <2>1 DEF Served, Waits
  <2>3. Total(got', Served') = Total(got, Served)
    BY <1>t, <2>2, ServedStays
  <2> QED
    BY <1>o, <2>1, <2>3
<1>4. ASSUME NEW o \in Ops, PerformWrite(o)
      PROVE  given' = count' + Total(got', Served')
  <2>1. /\ asked[o] = "trigger" /\ state[o] = "pending"
        /\ state' = [state EXCEPT ![o] = "delivered"]
        /\ \A p \in Ops \ {o} : got'[p] = got[p]
        /\ UNCHANGED asked
    BY <1>4, <1>t DEF PerformWrite, CompleteIo, Complete, requests
  <2>2. \/ UNCHANGED <<count, given>>
        \/ count' = count + value[o] /\ given' = given + value[o]
    BY <1>4 DEF PerformWrite
  <2>3. Served' = Served /\ \A p \in Served : got'[p] = got[p]
    BY <1>t, <2>1 DEF Served, Waits
  <2>4. Total(got', Served') = Total(got, Served)
    BY <1>t, <2>3, ServedStays
  <2>5. value[o] \in Nat
    BY <1>t
  <2> QED
    BY <1>t, <1>o, <2>2, <2>4, <2>5
<1>5. ASSUME NEW o \in Ops, DeliverCancelled(o)
      PROVE  given' = count' + Total(got', Served')
  <2>1. /\ state[o] = "settled" /\ UNCHANGED <<count, given, got, asked>>
        /\ state' = [state EXCEPT ![o] = "delivered"]
    BY <1>5 DEF DeliverCancelled, Deliver, opVars, requests, history
  <2>2. got[o] = 0 /\ o \notin Served
    BY <2>1 DEF ConserveInv, NothingYet, Served, Waits
  <2>3. CASE asked[o] # "wait"
    <3>1. Served' = Served
      BY <1>t, <2>1, <2>3 DEF Served, Waits
    <3> QED
      BY <1>s, <2>1, <3>1
  <2>4. CASE asked[o] = "wait"
    <3>1. /\ Served' = Served \cup {o}
          /\ got' = [got EXCEPT ![o] = 0]
      BY <1>t, <2>1, <2>2, <2>4 DEF Served, Waits, Error
    <3>2. Total(got', Served') = 0 + Total(got, Served)
      BY <1>t, <2>2, <3>1, ServedGrows
    <3> QED
      BY <1>t, <1>o, <2>1, <3>2
  <2> QED
    BY <2>3, <2>4
<1>6. CASE cancel
  <2>1. CancelledAll
    BY <1>t, <1>6, CancelledEffect DEF cancel
  <2>2. UNCHANGED <<count, given, got, asked>>
    BY <1>6 DEF cancel, opVars, requests, history
  <2>3. Served' = Served
    BY <2>1, <2>2 DEF Served, Waits, CancelledAll
  <2> QED
    BY <1>s, <2>2, <2>3
<1>7. CASE UNCHANGED vars \/ \E w \in {"IN", "OUT"} : NothingDone(w)
  <2>1. UNCHANGED <<count, given, got, asked, state>>
    BY <1>7 DEF NothingDone, vars, opVars, requests, history, asyncVars
  <2> QED
    BY <1>s, <2>1 DEF Served, Waits
<1>8. CASE \/ CallStep \/ RaiseSignal \/ expire \/ TimerExpires
           \/ \E o \in Ops : wait(o)
           \/ \E o \in Ops, d \in Durations :
                 \/ wait_for_expiry_after(o, d)
                 \/ wait_for_timer_expiry_after(o, d)
  <2>1. call = NoCall
    BY DEF ObjectInv, CallInProgress, Events
  <2>2. ~armed
    BY <1>t
  <2> QED
    BY <1>8, <2>1, <2>2
    DEF CallStep, ArmTimer, ArmThrows, QueueTimerOperation, PostZeroWait,
        RaiseSignal, expire, TimerExpires, wait, wait_for_expiry_after,
        wait_for_timer_expiry_after, Events, NoCall
<1> QED
  BY <1>1, <1>2, <1>3, <1>4, <1>5, <1>6, <1>7, <1>8 DEF Next

(***************************************************************************)
(* No event is lost or consumed twice, in either mode, for any number of   *)
(* waiters and triggers and whatever is cancelled or fails in between.     *)
(***************************************************************************)
THEOREM EventsAreConserved ==
    Spec => []EventsConserved
<1>1. Init => ConserveInv
  <2> SUFFICES ASSUME Init PROVE ConserveInv
    OBVIOUS
  <2>1. \A o \in Ops : state[o] = "new" /\ got[o] = 0
    BY DEF Init, AsyncInit
  <2>2. Served = {}
    BY <2>1 DEF Served, Waits
  <2>3. Total(got, {}) = 0
    BY FS_EmptySet, TotalTakes
  <2>4. count = 0 /\ given = 0
    BY DEF Init
  <2> QED
    BY <2>1, <2>2, <2>3, <2>4, ConservedTotal DEF ConserveInv, NothingYet
<1>2. ObjectInv /\ ConserveInv /\ [Next]_vars => ConserveInv'
  BY NothingYetStep, ConservedStep DEF ConserveInv, ObjectInv
<1>3. ConserveInv => EventsConserved
  BY DEF ConserveInv
<1> QED
  BY <1>1, <1>2, <1>3, ObjectInvariant, PTL DEF Spec
============================================================================
