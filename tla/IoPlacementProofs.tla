------------------------- MODULE IoPlacementProofs -------------------------
(***************************************************************************)
(* Where every operation is: proofs that IoScheduler neither loses nor     *)
(* duplicates an operation, and that it implements AsyncIo, for any number *)
(* of threads, clients, operations and descriptors.  The effect of each    *)
(* action on the list is first stated as a change of sets.                 *)
(***************************************************************************)
EXTENDS IoSchedulerProofs

(* What cancel(f) finds: the active operations of f. *)
Hit(f) == {o \in ToSet(active) : OpFd[o] = f}

LEMMA ActiveSet ==
    ASSUME ListTypeOK
    PROVE  /\ ToSet(active) = {active[i] : i \in 1..Len(active)}
           /\ ToSet(active) \subseteq IoOps
           /\ ToSet(cancelled) \subseteq IoOps
  BY SetOfSeq DEF ListTypeOK

(* schedule() adds the operation to the list and nothing else. *)
LEMMA ScheduleEffect ==
    ASSUME ListTypeOK, NEW o \in IoOps, Schedule(o)
    PROVE  /\ mutex = Nobody /\ result[o] = "new"
           /\ result' = [result EXCEPT ![o] = "none"]
           /\ ToSet(active') = ToSet(active) \cup {o}
           /\ IsInjective(active) /\ o \notin ToSet(active) =>
                 IsInjective(active')
           /\ UNCHANGED <<cancelled, queue, spliceFd>>
<1>l. active \in Seq(IoOps) /\ Len(active) \in Nat
  BY DEF ListTypeOK
<1>1. PICK p \in SearchPos(active, OpFd[o]) :
           \E q \in RunEnds(active, p, OpFd[o]) :
              active' = InsertAt(active, q, o)
  BY DEF Schedule
<1>2. PICK q \in RunEnds(active, p, OpFd[o]) :
           active' = InsertAt(active, q, o)
  BY <1>1
<1>3. p \in 1..(Len(active) + 1)
  BY <1>l DEF SearchPos, LowerBounds
<1>4. q \in 1..(Len(active) + 1)
  BY <1>l, <1>3 DEF RunEnds
<1>5. /\ ToSet(active') = ToSet(active) \cup {o}
      /\ IsInjective(active) /\ o \notin ToSet(active) =>
            IsInjective(active')
  BY <1>l, <1>2, <1>4, InsertAtSet
<1> QED
  BY <1>5 DEF Schedule, lockVars

(* The range that cancel() marks is exactly what is active of f. *)
LEMMA RangeIsHit ==
    ASSUME ListTypeOK, SortedByFd, NEW f \in Fds,
           NEW p \in LowerBounds(active, f), NEW q \in RunEnds(active, p, f)
    PROVE  /\ {active[i] : i \in p..(q - 1)} = Hit(f)
           /\ p < q => Hit(f) # {}
<1>l. /\ Len(active) \in Nat
      /\ \A i \in 1..Len(active) : OpFd[active[i]] \in Nat
  BY ActiveFds
<1>1. /\ p \in 1..(Len(active) + 1) /\ q \in p..(Len(active) + 1)
      /\ \A i \in 1..(p - 1) : OpFd[active[i]] < f
      /\ \A i \in p..(q - 1) : OpFd[active[i]] = f
      /\ \A i \in q..Len(active) : OpFd[active[i]] > f
  BY CancelRange
<1>f. f \in Nat
  BY IoAssumption
<1>2. ASSUME NEW i \in p..(q - 1)
      PROVE  active[i] \in Hit(f)
  <2>1. i \in 1..Len(active) /\ OpFd[active[i]] = f
    BY <1>l, <1>1
  <2> QED
    BY <2>1, ActiveSet DEF Hit
<1>3. ASSUME NEW i \in 1..Len(active), OpFd[active[i]] = f
      PROVE  i \in p..(q - 1)
  BY <1>l, <1>f, <1>1, <1>3
<1>4. Hit(f) \subseteq {active[i] : i \in p..(q - 1)}
  BY <1>3, ActiveSet DEF Hit
<1>5. p < q => p \in p..(q - 1)
  BY <1>1, <1>l
<1> QED
  BY <1>2, <1>4, <1>5

(* cancel() marks what is active of f and moves it behind the cut. *)
LEMMA CancelEffect ==
    ASSUME ListTypeOK, SortedByFd, IsInjective(active), NEW f \in Fds,
           Cancel(f)
    PROVE  /\ mutex = Nobody /\ Hit(f) # {}
           /\ result' = [o \in IoOps |-> IF o \in Hit(f) THEN "canceled"
                                         ELSE result[o]]
           /\ ToSet(active') = ToSet(active) \ Hit(f)
           /\ ToSet(cancelled') = Hit(f) \cup ToSet(cancelled)
           /\ IsInjective(active')
           /\ IsInjective(cancelled) /\ Hit(f) \cap ToSet(cancelled) = {}
                 => IsInjective(cancelled')
           /\ UNCHANGED <<queue, spliceFd>>
<1>l. /\ active \in Seq(IoOps) /\ Len(active) \in Nat
      /\ cancelled \in Seq(IoOps)
  BY DEF ListTypeOK
<1>1. PICK p \in LowerBounds(active, f) :
           \E q \in RunEnds(active, p, f) :
              /\ p < q
              /\ MarkCancelled(p, q)
              /\ active' = SubSeq(active, 1, p - 1) \o
                           SubSeq(active, q, Len(active))
              /\ cancelled' = MoveToCancelled(SubSeq(active, p, q - 1))
  BY DEF Cancel
<1>2. PICK q \in RunEnds(active, p, f) :
              /\ p < q
              /\ MarkCancelled(p, q)
              /\ active' = SubSeq(active, 1, p - 1) \o
                           SubSeq(active, q, Len(active))
              /\ cancelled' = MoveToCancelled(SubSeq(active, p, q - 1))
  BY <1>1
<1>3. p \in 1..(Len(active) + 1) /\ q \in p..(Len(active) + 1)
  BY CancelRange
<1> DEFINE c == SubSeq(active, p, q - 1)
<1>4. c \in Seq(IoOps)
  BY <1>l, <1>3, PrependCut
<1>5. /\ ToSet(c) = {active[i] : i \in p..(q - 1)}
      /\ ToSet(active') = ToSet(active) \ ToSet(c)
      /\ IsInjective(active') /\ IsInjective(c)
  BY <1>l, <1>2, <1>3, CutSet
<1>6. ToSet(c) = Hit(f) /\ Hit(f) # {}
  BY <1>2, <1>5, RangeIsHit
<1>7. result' = [o \in IoOps |-> IF o \in ToSet(c) THEN "canceled"
                                 ELSE result[o]]
  BY <1>2 DEF MarkCancelled
<1>8. cancelled' = c \o cancelled
  BY <1>2 DEF MoveToCancelled
<1> HIDE DEF c
<1>9. /\ ToSet(cancelled') = ToSet(c) \cup ToSet(cancelled)
      /\ IsInjective(cancelled) /\ ToSet(c) \cap ToSet(cancelled) = {}
            => IsInjective(cancelled')
  BY <1>l, <1>4, <1>5, <1>8, ConcatSet
<1>10. mutex = Nobody /\ UNCHANGED <<queue, spliceFd>>
  BY DEF Cancel, lockVars
<1> QED
  BY <1>5, <1>6, <1>7, <1>9, <1>10

(* A cancel() that does not come back has marked the same operations. *)
LEMMA StuckEffect ==
    ASSUME ListTypeOK, SortedByFd, IsInjective(active), NEW f \in Fds,
           NEW a \in Actors, CancelStuck(a, f)
    PROVE  /\ mutex = Nobody /\ spliceFd' = f /\ Hit(f) # {}
           /\ result' = [o \in IoOps |-> IF o \in Hit(f) THEN "canceled"
                                         ELSE result[o]]
           /\ UNCHANGED <<active, cancelled, queue>>
<1>l. active \in Seq(IoOps) /\ Len(active) \in Nat
  BY DEF ListTypeOK
<1>1. PICK p \in LowerBounds(active, f) :
           \E q \in RunEnds(active, p, f) : p < q /\ MarkCancelled(p, q)
  BY DEF CancelStuck
<1>2. PICK q \in RunEnds(active, p, f) : p < q /\ MarkCancelled(p, q)
  BY <1>1
<1>3. p \in 1..(Len(active) + 1) /\ q \in p..(Len(active) + 1)
  BY CancelRange
<1>4. ToSet(SubSeq(active, p, q - 1)) = {active[i] : i \in p..(q - 1)}
  BY <1>l, <1>3, CutSet
<1>5. ToSet(SubSeq(active, p, q - 1)) = Hit(f) /\ Hit(f) # {}
  BY <1>2, <1>4, RangeIsHit
<1>6. result' = [o \in IoOps |-> IF o \in Hit(f) THEN "canceled"
                                 ELSE result[o]]
  BY <1>2, <1>5 DEF MarkCancelled
<1> QED
  BY <1>5, <1>6 DEF CancelStuck, listVars

(* The endless splice moves operations around and loses none. *)
LEMMA SpliceEffect ==
    ASSUME ListTypeOK, IsInjective(active), NEW a \in Actors, SpliceTurn(a)
    PROVE  /\ ToSet(active') = ToSet(active) /\ IsInjective(active')
           /\ UNCHANGED <<cancelled, queue, result, spliceFd>>
<1>l. active \in Seq(IoOps)
  BY DEF ListTypeOK
<1>1. PICK p \in 1..Len(active) :
           active' = Append(RemoveAt(active, p), active[p])
  BY DEF SpliceTurn
<1>2. ToSet(active') = ToSet(active) /\ IsInjective(active')
  BY <1>l, <1>1, RotateSet
<1> QED
  BY <1>2 DEF SpliceTurn, lockVars

(* process_cancellations() posts what it takes out of the list. *)
LEMMA PostCancelledEffect ==
    ASSUME ListTypeOK, IsInjective(cancelled), NEW t \in Threads,
           PostCancelled(t)
    PROVE  \E o \in ToSet(cancelled) :
              /\ ToSet(cancelled') = ToSet(cancelled) \ {o}
              /\ IsInjective(cancelled')
              /\ queue' = Append(queue, o)
              /\ UNCHANGED <<active, result, spliceFd>>
<1>1. cancelled # <<>> /\ cancelled' = Tail(cancelled)
  BY DEF PostCancelled
<1>2. /\ Head(cancelled) \in ToSet(cancelled)
      /\ ToSet(cancelled') = ToSet(cancelled) \ {Head(cancelled)}
      /\ IsInjective(cancelled')
  BY <1>1, TailSet DEF ListTypeOK
<1>3. queue' = Append(queue, Head(cancelled))
  BY DEF PostCancelled, PostIo
<1>4. UNCHANGED <<active, result, spliceFd>>
  BY DEF PostCancelled
<1> QED
  BY <1>2, <1>3, <1>4

(* process_notifications() posts the operation whose I/O it performed. *)
LEMMA CompleteEffect ==
    ASSUME ListTypeOK, LockTypeOK, IsInjective(active), NEW t \in Threads,
           CompleteItem(t)
    PROVE  \E o \in ToSet(active) :
              /\ result[o] = "none"
              /\ result' = [result EXCEPT ![o] = "io"]
              /\ ToSet(active') = ToSet(active) \ {o}
              /\ IsInjective(active')
              /\ queue' = Append(queue, o)
              /\ UNCHANGED <<cancelled, spliceFd>>
<1>l. active \in Seq(IoOps)
  BY DEF ListTypeOK
<1>1. cur.next \in 1..Len(active)
  BY DEF CompleteItem, HasItem, LockTypeOK, ListTypeOK, Cursor
<1> DEFINE o == active[cur.next]
<1>2. o \in ToSet(active)
  BY <1>1, ActiveSet
<1>3. active' = RemoveAt(active, cur.next)
  BY DEF CompleteItem
<1>4. ToSet(active') = ToSet(active) \ {o} /\ IsInjective(active')
  BY <1>l, <1>1, <1>3, RemoveAtSet
<1>5. /\ result[o] = "none" /\ result' = [result EXCEPT ![o] = "io"]
      /\ queue' = Append(queue, o)
      /\ UNCHANGED <<cancelled, spliceFd>>
  BY DEF CompleteItem, Matches, PostIo
<1> QED
  BY <1>2, <1>4, <1>5

(* No other step touches the list, the results or the queue. *)
LEMMA ListCases ==
    ASSUME SchedulerStep
    PROVE  \/ \E o \in IoOps : Schedule(o)
           \/ \E f \in Fds : Cancel(f)
           \/ \E a \in Actors, f \in Fds : CancelStuck(a, f)
           \/ \E a \in Actors : SpliceTurn(a)
           \/ \E t \in Threads : PostCancelled(t)
           \/ \E t \in Threads : CompleteItem(t)
           \/ UNCHANGED <<active, cancelled, queue, result, spliceFd>>
  BY StepCases, ZenonT(60)
  DEF listVars, lockVars, PollEnter, EndCancellations, StartWaiting,
      EpollReturns, EpollInterrupted, StopWaiting, LockNotifications,
      ProcessWake, BeginEvent, SkipItem, EndEvent, EndNotifications,
      CatchPollError, BecomeReady, BecomeFailed

----------------------------------------------------------------------------
(***************************************************************************)
(* InOnePlace in a form that is inductive: no list holds an operation      *)
(* twice, no two lists share one, and together they hold those that were   *)
(* scheduled.                                                              *)
(***************************************************************************)
Placement ==
    /\ IsInjective(active) /\ IsInjective(cancelled) /\ IsInjective(queue)
    /\ ToSet(active) \cap ToSet(cancelled) = {}
    /\ ToSet(active) \cap ToSet(queue) = {}
    /\ ToSet(cancelled) \cap ToSet(queue) = {}
    /\ ToSet(active) \cup ToSet(cancelled) \cup ToSet(queue)
          = {o \in IoOps : result[o] # "new"}

(***************************************************************************)
(* The result of an operation goes with its place.  An active operation    *)
(* is marked as cancelled only while cancel() is stuck splicing its range. *)
(***************************************************************************)
Outcomes ==
    /\ \A o \in ToSet(active) :
          \/ result[o] = "none"
          \/ result[o] = "canceled" /\ spliceFd = OpFd[o]
    /\ \A o \in ToSet(cancelled) : result[o] = "canceled"
    /\ \A o \in ToSet(queue) : result[o] \in {"io", "canceled"}

(* What the steps of the scheduler do to Placement and Outcomes. *)
LEMMA PlacementStep ==
    ASSUME ListTypeOK, LockTypeOK, ResultTypeOK, queue \in Seq(IoOps),
           MutexOwned, SortedByFd, Placement, Outcomes, SchedulerStep
    PROVE  Placement' /\ Outcomes'
<1>s. /\ ToSet(active) \subseteq IoOps /\ ToSet(cancelled) \subseteq IoOps
      /\ ToSet(queue) \subseteq IoOps
  BY ActiveSet, SetOfSeq
<1>m. mutex = Nobody => spliceFd = Nobody
  BY DEF MutexOwned
<1>f. \A o \in IoOps : OpFd[o] \in Fds /\ OpFd[o] # Nobody
  BY IoAssumption
<1>r. /\ result \in [IoOps -> {"new", "none", "io", "canceled"}]
      /\ IsInjective(active) /\ IsInjective(cancelled) /\ IsInjective(queue)
  BY DEF ResultTypeOK, Placement
<1>q. ASSUME NEW o \in IoOps, o \notin ToSet(queue), queue' = Append(queue, o)
      PROVE  ToSet(queue') = ToSet(queue) \cup {o} /\ IsInjective(queue')
  BY <1>q, <1>r, AppendSet
<1>1. ASSUME NEW o \in IoOps, Schedule(o)
      PROVE  Placement' /\ Outcomes'
  <2>1. /\ mutex = Nobody /\ result[o] = "new"
        /\ result' = [result EXCEPT ![o] = "none"]
        /\ ToSet(active') = ToSet(active) \cup {o}
        /\ IsInjective(active) /\ o \notin ToSet(active) =>
              IsInjective(active')
        /\ UNCHANGED <<cancelled, queue, spliceFd>>
    BY <1>1, ScheduleEffect
  <2>2. o \notin ToSet(active) \cup ToSet(cancelled) \cup ToSet(queue)
    BY <2>1 DEF Placement
  <2>3. {x \in IoOps : result'[x] # "new"}
           = {x \in IoOps : result[x] # "new"} \cup {o}
    BY <1>r, <2>1
  <2>4. Placement'
    BY <1>r, <2>1, <2>2, <2>3 DEF Placement
  <2>5. Outcomes'
    BY <1>r, <1>s, <2>1, <2>2 DEF Outcomes
  <2> QED
    BY <2>4, <2>5
<1>2. ASSUME NEW f \in Fds, Cancel(f)
      PROVE  Placement' /\ Outcomes'
  <2>1. /\ mutex = Nobody
        /\ result' = [o \in IoOps |-> IF o \in Hit(f) THEN "canceled"
                                      ELSE result[o]]
        /\ ToSet(active') = ToSet(active) \ Hit(f)
        /\ ToSet(cancelled') = Hit(f) \cup ToSet(cancelled)
        /\ IsInjective(active')
        /\ IsInjective(cancelled) /\ Hit(f) \cap ToSet(cancelled) = {}
              => IsInjective(cancelled')
        /\ UNCHANGED <<queue, spliceFd>>
    BY <1>2, <1>r, CancelEffect
  <2>2. Hit(f) \subseteq ToSet(active)
    BY DEF Hit
  <2>3. {x \in IoOps : result'[x] # "new"} = {x \in IoOps : result[x] # "new"}
    BY <2>1, <2>2 DEF Placement
  <2>4. Placement'
    BY <1>r, <2>1, <2>2, <2>3 DEF Placement
  <2>5. Outcomes'
    BY <1>s, <2>1, <2>2 DEF Outcomes, Placement
  <2> QED
    BY <2>4, <2>5
<1>3. ASSUME NEW a \in Actors, NEW f \in Fds, CancelStuck(a, f)
      PROVE  Placement' /\ Outcomes'
  <2>1. /\ mutex = Nobody /\ spliceFd' = f
        /\ result' = [o \in IoOps |-> IF o \in Hit(f) THEN "canceled"
                                      ELSE result[o]]
        /\ UNCHANGED <<active, cancelled, queue>>
    BY <1>3, <1>r, StuckEffect
  <2>2. Hit(f) \subseteq ToSet(active) /\ \A o \in Hit(f) : OpFd[o] = f
    BY DEF Hit
  <2>3. {x \in IoOps : result'[x] # "new"} = {x \in IoOps : result[x] # "new"}
    BY <2>1, <2>2 DEF Placement
  <2>4. Placement'
    BY <2>1, <2>3 DEF Placement
  <2>5. Outcomes'
    BY <1>s, <1>m, <1>f, <2>1, <2>2 DEF Outcomes, Placement
  <2> QED
    BY <2>4, <2>5
<1>4. ASSUME NEW a \in Actors, SpliceTurn(a)
      PROVE  Placement' /\ Outcomes'
  <2>1. /\ ToSet(active') = ToSet(active) /\ IsInjective(active')
        /\ UNCHANGED <<cancelled, queue, result, spliceFd>>
    BY <1>4, <1>r, SpliceEffect
  <2> QED
    BY <2>1 DEF Placement, Outcomes
<1>5. ASSUME NEW t \in Threads, PostCancelled(t)
      PROVE  Placement' /\ Outcomes'
  <2>1. PICK o \in ToSet(cancelled) :
              /\ ToSet(cancelled') = ToSet(cancelled) \ {o}
              /\ IsInjective(cancelled')
              /\ queue' = Append(queue, o)
              /\ UNCHANGED <<active, result, spliceFd>>
    BY <1>5, <1>r, PostCancelledEffect
  <2>2. o \notin ToSet(queue) /\ o \notin ToSet(active) /\ o \in IoOps
    BY <1>s DEF Placement
  <2>3. ToSet(queue') = ToSet(queue) \cup {o} /\ IsInjective(queue')
    BY <1>q, <2>1, <2>2
  <2>4. Placement'
    BY <1>r, <2>1, <2>2, <2>3 DEF Placement
  <2>5. Outcomes'
    BY <2>1, <2>3 DEF Outcomes
  <2> QED
    BY <2>4, <2>5
<1>6. ASSUME NEW t \in Threads, CompleteItem(t)
      PROVE  Placement' /\ Outcomes'
  <2>1. PICK o \in ToSet(active) :
              /\ result[o] = "none"
              /\ result' = [result EXCEPT ![o] = "io"]
              /\ ToSet(active') = ToSet(active) \ {o}
              /\ IsInjective(active')
              /\ queue' = Append(queue, o)
              /\ UNCHANGED <<cancelled, spliceFd>>
    BY <1>6, <1>r, CompleteEffect
  <2>2. o \notin ToSet(queue) /\ o \notin ToSet(cancelled) /\ o \in IoOps
    BY <1>s DEF Placement
  <2>3. ToSet(queue') = ToSet(queue) \cup {o} /\ IsInjective(queue')
    BY <1>q, <2>1, <2>2
  <2>4. {x \in IoOps : result'[x] # "new"} = {x \in IoOps : result[x] # "new"}
    BY <1>r, <2>1, <2>2
  <2>5. Placement'
    BY <1>r, <2>1, <2>2, <2>3, <2>4 DEF Placement
  <2>6. Outcomes'
    BY <1>r, <1>s, <2>1, <2>2, <2>3 DEF Outcomes
  <2> QED
    BY <2>5, <2>6
<1>7. ASSUME UNCHANGED <<active, cancelled, queue, result, spliceFd>>
      PROVE  Placement' /\ Outcomes'
  BY <1>7 DEF Placement, Outcomes
<1> QED
  BY <1>1, <1>2, <1>3, <1>4, <1>5, <1>6, <1>7, ListCases

(* The scheduler's invariant together with the places of the operations. *)
PlaceInv == IoInv /\ queue \in Seq(IoOps) /\ Placement /\ Outcomes

LEMMA PlaceInit == IoInit => PlaceInv
<1> SUFFICES ASSUME IoInit PROVE PlaceInv
  OBVIOUS
<1>1. IoInv /\ queue \in Seq(IoOps)
  BY InvInit DEF IoInit
<1>2. ToSet(<<>>) = {} /\ IsInjective(<<>>)
  BY DEF ToSet, IsInjective
<1>3. Placement /\ Outcomes
  BY <1>2 DEF IoInit, Placement, Outcomes
<1> QED
  BY <1>1, <1>3 DEF PlaceInv

LEMMA PlaceStep == PlaceInv /\ [IoNext]_ioVars => PlaceInv'
<1> SUFFICES ASSUME PlaceInv, [IoNext]_ioVars PROVE PlaceInv'
  OBVIOUS
<1>1. CASE IoNext
  <2>1. SchedulerStep
    BY <1>1, NextIsSchedulerStep
  <2>2. IoInv'
    BY <2>1, InvStep DEF PlaceInv
  <2>3. queue' \in Seq(IoOps)
    BY <2>1, QueueStep DEF PlaceInv, IoInv, SchedulerTypeOK
  <2>4. Placement' /\ Outcomes'
    BY <2>1, PlacementStep DEF PlaceInv, IoInv, SchedulerTypeOK
  <2> QED
    BY <2>2, <2>3, <2>4 DEF PlaceInv
<1>2. CASE UNCHANGED ioVars
  <2>1. IoInv'
    BY <1>2, InvStutter DEF PlaceInv
  <2> QED
    BY <1>2, <2>1 DEF PlaceInv, Placement, Outcomes, ioVars, listVars,
                      lockVars
<1> QED
  BY <1>1, <1>2

(* PlaceInv holds in every reachable state of the scheduler. *)
LEMMA PlaceAlways == IoSpec => []PlaceInv
  BY PlaceInit, PlaceStep, PTL DEF IoSpec

(* The lists as one sequence hold a scheduled operation at one position. *)
LEMMA PlacementCounts ==
    ASSUME ListTypeOK, queue \in Seq(IoOps), Placement
    PROVE  InOnePlace
<1> DEFINE lists == active \o cancelled
           all == lists \o queue
<1>1. active \in Seq(IoOps) /\ cancelled \in Seq(IoOps)
  BY DEF ListTypeOK
<1>2. lists \in Seq(IoOps)
  BY <1>1, ConcatProperties
<1>3. /\ ToSet(lists) = ToSet(active) \cup ToSet(cancelled)
      /\ IsInjective(lists)
  BY <1>1, ConcatSet DEF Placement
<1> HIDE DEF lists
<1>4. all \in Seq(IoOps)
  BY <1>2, ConcatProperties
<1>5. ToSet(lists) \cap ToSet(queue) = {}
  BY <1>3 DEF Placement
<1>6. /\ ToSet(all) = ToSet(lists) \cup ToSet(queue)
      /\ IsInjective(all)
  BY <1>2, <1>3, <1>5, ConcatSet DEF Placement
<1> HIDE DEF all
<1>7. ASSUME NEW o \in IoOps
      PROVE  Cardinality({i \in 1..Len(all) : all[i] = o})
                = IF result[o] = "new" THEN 0 ELSE 1
  <2>1. o \in ToSet(all) <=> result[o] # "new"
    BY <1>3, <1>6 DEF Placement
  <2> QED
    BY <1>4, <1>6, <2>1, OnePosition
<1> QED
  BY <1>7 DEF InOnePlace, all, lists

(***************************************************************************)
(* No operation is lost and none is posted twice, whatever cancel(),       *)
(* schedule() and late events do to the list in between.                   *)
(***************************************************************************)
THEOREM NeverLostNorDuplicated == IoSpec => []InOnePlace
<1>1. PlaceInv => InOnePlace
  BY PlacementCounts DEF PlaceInv, IoInv, SchedulerTypeOK
<1> QED
  BY <1>1, PlaceAlways, PTL

----------------------------------------------------------------------------
(* The scheduler implements AsyncIo, step by step. *)

(* The abstract state of an operation, in terms of its place. *)
Place(o, res, in) ==
    IF res[o] = "new" THEN "new"
    ELSE IF res[o] = "none" THEN "pending"
    ELSE IF o \in in THEN "settled" ELSE "delivered"

LEMMA RefinementInit == IoInit => Abstract!AsyncInit
  BY DEF IoInit, Abstract!AsyncInit, OpState, OpOutcome

(***************************************************************************)
(* schedule() is Submit, cancel() is CancelAll even if it never returns,   *)
(* process_notifications() is Complete, process_cancellations() is         *)
(* Deliver; nothing else can be seen from outside.                         *)
(***************************************************************************)
LEMMA RefinementStep ==
    ASSUME PlaceInv, PlaceInv', SchedulerStep
    PROVE  Abstract!AsyncNext \/ UNCHANGED Abstract!asyncVars
<1> DEFINE In == ToSet(active) \cup ToSet(cancelled)
<1>t. /\ ListTypeOK /\ LockTypeOK /\ MutexOwned /\ SortedByFd
      /\ queue \in Seq(IoOps) /\ Placement /\ Outcomes
      /\ result \in [IoOps -> {"new", "none", "io", "canceled"}]
      /\ result' \in [IoOps -> {"new", "none", "io", "canceled"}]
      /\ Placement' /\ Outcomes'
  BY DEF PlaceInv, IoInv, SchedulerTypeOK, ResultTypeOK
<1>i. IsInjective(active) /\ IsInjective(cancelled)
  BY <1>t DEF Placement
<1>s. ToSet(active) \subseteq IoOps /\ ToSet(cancelled) \subseteq IoOps
  BY <1>t, ActiveSet
<1>m. mutex = Nobody => spliceFd = Nobody
  BY <1>t DEF MutexOwned
<1>f. \A o \in IoOps : OpFd[o] \in Fds /\ OpFd[o] # Nobody
  BY IoAssumption
<1>a. OpState = [o \in IoOps |-> Place(o, result, In)]
  <2>1. ToSet(active \o cancelled) = In
    BY <1>t, ConcatSet DEF ListTypeOK
  <2> QED
    BY <1>t, <2>1 DEF OpState, Place
<1>b. OpState' = [o \in IoOps |-> Place(o, result', In')]
  <2>1. active' \in Seq(IoOps) /\ cancelled' \in Seq(IoOps)
    BY DEF PlaceInv, IoInv, SchedulerTypeOK, ListTypeOK
  <2>2. ToSet(active' \o cancelled') = In'
    BY <2>1, ConcatSet
  <2> QED
    BY <1>t, <2>2 DEF OpState, Place
<1>c. /\ OpOutcome = [o \in IoOps |-> IF result[o] \in {"new", "none"}
                                      THEN "none" ELSE result[o]]
      /\ OpOutcome' = [o \in IoOps |-> IF result'[o] \in {"new", "none"}
                                       THEN "none" ELSE result'[o]]
  BY DEF OpOutcome
<1>d. ASSUME NEW o \in IoOps, result[o] \in {"io", "canceled"}
      PROVE  Place(o, result, In) \in {"settled", "delivered"}
  BY <1>d DEF Place
<1>1. ASSUME NEW o \in IoOps, Schedule(o)
      PROVE  Abstract!Submit(o)
  <2>1. /\ result[o] = "new"
        /\ result' = [result EXCEPT ![o] = "none"]
        /\ ToSet(active') = ToSet(active) \cup {o}
        /\ UNCHANGED cancelled
    BY <1>1, <1>t, ScheduleEffect
  <2>2. In' = In \cup {o}
    BY <2>1
  <2> HIDE DEF In
  <2>3. OpState' = [OpState EXCEPT ![o] = "pending"] /\ OpState[o] = "new"
    BY <1>a, <1>b, <1>t, <2>1, <2>2 DEF Place
  <2>4. OpOutcome' = OpOutcome
    BY <1>c, <1>t, <2>1
  <2> QED
    BY <2>3, <2>4 DEF Abstract!Submit
<1>2. ASSUME NEW f \in Fds,
             \/ Cancel(f)
             \/ \E a \in Actors : CancelStuck(a, f)
      PROVE  Abstract!CancelAll(f)
  <2>1. /\ mutex = Nobody /\ Hit(f) # {}
        /\ result' = [o \in IoOps |-> IF o \in Hit(f) THEN "canceled"
                                      ELSE result[o]]
        /\ ToSet(active') \cup ToSet(cancelled') = In
    <3>1. Hit(f) \subseteq ToSet(active)
      BY DEF Hit
    <3>2. CASE Cancel(f)
      <4>1. /\ mutex = Nobody /\ Hit(f) # {}
            /\ result' = [o \in IoOps |-> IF o \in Hit(f) THEN "canceled"
                                          ELSE result[o]]
            /\ ToSet(active') = ToSet(active) \ Hit(f)
            /\ ToSet(cancelled') = Hit(f) \cup ToSet(cancelled)
        BY <1>t, <1>i, <3>2, CancelEffect
      <4> QED
        BY <3>1, <4>1
    <3>3. CASE \E a \in Actors : CancelStuck(a, f)
      <4>1. /\ mutex = Nobody /\ Hit(f) # {}
            /\ result' = [o \in IoOps |-> IF o \in Hit(f) THEN "canceled"
                                          ELSE result[o]]
            /\ UNCHANGED <<active, cancelled>>
        BY <1>t, <1>i, <3>3, StuckEffect
      <4> QED
        BY <4>1
    <3> QED
      BY <1>2, <3>2, <3>3
  <2> DEFINE hit == {o \in IoOps : OpFd[o] = f /\ OpState[o] = "pending"}
  <2>2. ASSUME NEW o \in IoOps
        PROVE  o \in Hit(f) <=> OpFd[o] = f /\ result[o] = "none"
    <3>1. o \in Hit(f) => OpFd[o] = f /\ result[o] = "none"
      BY <1>m, <1>f, <1>t, <2>1 DEF Hit, Outcomes
    <3>2. result[o] = "none" => o \in ToSet(active)
      BY <1>t DEF Placement, Outcomes
    <3> QED
      BY <3>1, <3>2 DEF Hit
  <2>3. ASSUME NEW o \in IoOps
        PROVE  OpState[o] = "pending" <=> result[o] = "none"
    BY <1>a DEF Place
  <2>4. hit = Hit(f) /\ Hit(f) \subseteq In
    <3>1. Hit(f) \subseteq ToSet(active)
      BY DEF Hit
    <3> QED
      BY <1>s, <2>2, <2>3, <3>1
  <2>5. In' = In
    BY <2>1
  <2> HIDE DEF In, hit
  <2>6. OpState' = [o \in IoOps |-> IF o \in hit THEN "settled"
                                    ELSE OpState[o]]
    BY <1>a, <1>b, <2>1, <2>4, <2>5 DEF Place
  <2>7. OpOutcome' = [o \in IoOps |-> IF o \in hit THEN "canceled"
                                      ELSE OpOutcome[o]]
    BY <1>c, <2>1, <2>4
  <2> QED
    BY <2>1, <2>4, <2>6, <2>7 DEF Abstract!CancelAll, hit
<1>3. ASSUME NEW a \in Actors, SpliceTurn(a)
      PROVE  UNCHANGED Abstract!asyncVars
  <2>1. /\ ToSet(active') = ToSet(active)
        /\ UNCHANGED <<cancelled, result>>
    BY <1>3, <1>t, <1>i, SpliceEffect
  <2>2. OpState' = OpState /\ OpOutcome' = OpOutcome
    BY <1>a, <1>b, <1>c, <2>1
  <2> QED
    BY <2>2 DEF Abstract!asyncVars
<1>4. ASSUME NEW t \in Threads, PostCancelled(t)
      PROVE  \E o \in IoOps : Abstract!Deliver(o)
  <2>1. PICK o \in ToSet(cancelled) :
              /\ ToSet(cancelled') = ToSet(cancelled) \ {o}
              /\ UNCHANGED <<active, result>>
    BY <1>4, <1>t, <1>i, PostCancelledEffect
  <2>2. /\ o \in IoOps /\ o \in In /\ o \notin ToSet(active)
        /\ result[o] = "canceled"
    BY <1>s, <1>t DEF Placement, Outcomes
  <2>3. In' = In \ {o}
    BY <2>1, <2>2
  <2> HIDE DEF In
  <2>4. OpState' = [OpState EXCEPT ![o] = "delivered"]
        /\ OpState[o] = "settled"
    BY <1>a, <1>b, <2>1, <2>2, <2>3 DEF Place
  <2>5. OpOutcome' = OpOutcome
    BY <1>c, <2>1
  <2> QED
    BY <2>2, <2>4, <2>5 DEF Abstract!Deliver
<1>5. ASSUME NEW t \in Threads, CompleteItem(t)
      PROVE  \E o \in IoOps : Abstract!Complete(o)
  <2>1. PICK o \in ToSet(active) :
              /\ result[o] = "none"
              /\ result' = [result EXCEPT ![o] = "io"]
              /\ ToSet(active') = ToSet(active) \ {o}
              /\ UNCHANGED cancelled
    BY <1>5, <1>t, <1>i, CompleteEffect
  <2>2. o \in IoOps /\ o \notin ToSet(cancelled)
    BY <1>s, <1>t DEF Placement
  <2>3. In' = In \ {o}
    BY <2>1, <2>2
  <2> HIDE DEF In
  <2>4. OpState' = [OpState EXCEPT ![o] = "delivered"]
        /\ OpState[o] = "pending"
    BY <1>a, <1>b, <1>t, <2>1, <2>2, <2>3 DEF Place
  <2>5. OpOutcome' = [OpOutcome EXCEPT ![o] = "io"]
    BY <1>c, <1>t, <2>1, <2>2
  <2> QED
    BY <2>2, <2>4, <2>5 DEF Abstract!Complete
<1>6. ASSUME UNCHANGED <<active, cancelled, result>>
      PROVE  UNCHANGED Abstract!asyncVars
  BY <1>6 DEF Abstract!asyncVars, OpState, OpOutcome
<1> QED
  BY <1>1, <1>2, <1>3, <1>4, <1>5, <1>6, ListCases DEF Abstract!AsyncNext

(***************************************************************************)
(* schedule(), cancel() and poll_once() are indivisible to their callers   *)
(* for any number of threads and clients: what submitted operations and    *)
(* their handlers can observe is a behaviour of AsyncIo.                   *)
(***************************************************************************)
THEOREM SchedulerImplementsAsyncIo == IoSpec => ImplementsAsyncIo
<1>1. IoInit => Abstract!AsyncInit
  BY RefinementInit
<1>2. /\ PlaceInv /\ PlaceInv' /\ [IoNext]_ioVars
      => [Abstract!AsyncNext]_(Abstract!asyncVars)
  <2> SUFFICES ASSUME PlaceInv, PlaceInv', [IoNext]_ioVars
               PROVE  [Abstract!AsyncNext]_(Abstract!asyncVars)
    OBVIOUS
  <2>1. CASE IoNext
    BY <2>1, NextIsSchedulerStep, RefinementStep
  <2>2. CASE UNCHANGED ioVars
    BY <2>2 DEF Abstract!asyncVars, OpState, OpOutcome, ioVars, listVars
  <2> QED
    BY <2>1, <2>2
<1> QED
  BY <1>1, <1>2, PlaceAlways, PTL
  DEF IoSpec, ImplementsAsyncIo, Abstract!AsyncSpec

----------------------------------------------------------------------------
(* What epoll is told *)

(***************************************************************************)
(* events_to_reregister holds directions of items that were skipped and    *)
(* are still in the list behind the cursor.                                *)
(***************************************************************************)
ReregIsSkipped ==
    cur.fd # Nobody =>
        cur.rereg \subseteq
            {Dir(active[i]) : i \in {j \in 1..(cur.next - 1) :
                                       OpFd[active[j]] = cur.fd}}

LEMMA ReregStep ==
    ASSUME ListTypeOK, LockTypeOK, MutexOwned, CursorSound, ReregIsSkipped,
           SchedulerStep
    PROVE  ReregIsSkipped'
<1> USE DEF listVars, lockVars, kernelVars, pollVars
<1>l. /\ active \in Seq(IoOps) /\ Len(active) \in Nat
      /\ cur.next \in Nat \ {0}
  BY ActiveFds DEF LockTypeOK, Cursor
<1>n. NoCursor.fd = Nobody
  BY DEF NoCursor
<1>1. ASSUME cur' = NoCursor
      PROVE  ReregIsSkipped'
  BY <1>1, <1>n DEF ReregIsSkipped
<1>2. ASSUME \/ \E o \in IoOps : Schedule(o)
             \/ \E f \in Fds : Cancel(f)
             \/ \E a \in Actors : SpliceTurn(a)
      PROVE  cur' = NoCursor
  <2>1. (mutex = Nobody \/ spliceFd # Nobody) /\ cur' = cur
    BY <1>2 DEF Schedule, Cancel, SpliceTurn
  <2> QED
    BY <2>1, IdleCursor
<1>3. ASSUME NEW t \in Threads, BeginEvent(t)
      PROVE  ReregIsSkipped'
  <2>1. PICK e, p : cur' = [fd |-> e.fd, readable |-> e.readable,
                            next |-> p, rereg |-> {}]
    BY <1>3 DEF BeginEvent
  <2>2. cur'.rereg = {}
    BY <2>1
  <2> QED
    BY <2>2 DEF ReregIsSkipped
<1>4. ASSUME NEW t \in Threads, SkipItem(t)
      PROVE  ReregIsSkipped'
  <2>1. /\ cur.fd # Nobody /\ cur.next <= Len(active)
        /\ OpFd[active[cur.next]] = cur.fd
        /\ active' = active
        /\ cur' = [cur EXCEPT !.next = @ + 1,
                              !.rereg = @ \cup {Dir(active[cur.next])}]
    BY <1>4 DEF SkipItem, HasItem
  <2>2. /\ cur'.fd = cur.fd /\ cur'.next = cur.next + 1
        /\ cur'.rereg = cur.rereg \cup {Dir(active[cur.next])}
    BY <2>1 DEF LockTypeOK, Cursor
  <2>3. \A j \in 1..(cur.next - 1) : j \in 1..(cur'.next - 1)
    BY <1>l, <2>2
  <2>4. cur.next \in 1..(cur'.next - 1)
    BY <1>l, <2>2
  <2> QED
    BY <2>1, <2>2, <2>3, <2>4 DEF ReregIsSkipped
<1>5. ASSUME NEW t \in Threads, CompleteItem(t)
      PROVE  ReregIsSkipped'
  <2>1. /\ cur.next \in 1..Len(active) /\ cur' = cur
        /\ active' = RemoveAt(active, cur.next)
    BY <1>l, <1>5 DEF CompleteItem, HasItem
  <2>2. \A i \in 1..(Len(active) - 1) :
           active'[i] = IF i < cur.next THEN active[i] ELSE active[i + 1]
    BY <1>l, <2>1, RemoveAtElements
  <2>3. \A i \in 1..(cur.next - 1) : active'[i] = active[i]
    BY <1>l, <2>1, <2>2
  <2> QED
    BY <2>1, <2>3 DEF ReregIsSkipped
<1>6. ASSUME UNCHANGED <<active, cur>>
      PROVE  ReregIsSkipped'
  BY <1>6 DEF ReregIsSkipped
<1>7. \/ \E o \in IoOps : Schedule(o)
      \/ \E f \in Fds : Cancel(f)
      \/ \E a \in Actors : SpliceTurn(a)
      \/ \E t \in Threads : BeginEvent(t)
      \/ \E t \in Threads : SkipItem(t)
      \/ \E t \in Threads : CompleteItem(t)
      \/ cur' = NoCursor
      \/ UNCHANGED <<active, cur>>
  BY StepCases, ZenonT(60)
  DEF CancelStuck, PollEnter, PostCancelled, EndCancellations, StartWaiting,
      EpollReturns, EpollInterrupted, StopWaiting, LockNotifications,
      ProcessWake, EndEvent, EndNotifications, CatchPollError, BecomeReady,
      BecomeFailed
<1> QED
  BY <1>1, <1>2, <1>3, <1>4, <1>5, <1>6, <1>7

(* The directions of what is active of f are those that f is wanted for. *)
LEMMA WantedOfHit ==
    ASSUME ListTypeOK
    PROVE  \A f : Wanted(f) = {Dir(o) : o \in Hit(f)}
  BY ActiveSet DEF Wanted, Hit

(* Every registration is settled with directions still wanted. *)
LEMMA InterestStep ==
    ASSUME ListTypeOK, LockTypeOK, KernelTypeOK, MutexOwned, SortedByFd,
           CursorSound, IsInjective(active), ReregIsSkipped,
           InterestIsWanted, SchedulerStep, ListTypeOK'
    PROVE  InterestIsWanted'
<1> USE DEF listVars, lockVars, kernelVars, pollVars
<1>l. /\ active \in Seq(IoOps) /\ Len(active) \in Nat
      /\ active' \in Seq(IoOps)
  BY DEF ListTypeOK
<1>n. NoCursor.fd = Nobody /\ \A f \in Fds : f # Nobody
  BY IoAssumption DEF NoCursor
<1>h. ASSUME NEW f \in Fds, f # cur.fd
      PROVE  interest[f] \subseteq {Dir(o) : o \in Hit(f)}
  BY <1>h, WantedOfHit DEF InterestIsWanted, SettledFds
<1>s. ASSUME \A f \in Fds :
                f # cur'.fd => interest'[f] \subseteq {Dir(o) : o \in Hit(f)'}
      PROVE  InterestIsWanted'
  <2>1. ToSet(active') = {active'[i] : i \in 1..Len(active')}
    BY <1>l, SetOfSeq
  <2>2. \A f : Wanted(f)' = {Dir(o) : o \in Hit(f)'}
    BY <2>1 DEF Wanted, Hit
  <2> QED
    BY <1>s, <2>2 DEF InterestIsWanted, SettledFds
<1>1. ASSUME NEW o \in IoOps, Schedule(o)
      PROVE  InterestIsWanted'
  <2>1. PICK p \in SearchPos(active, OpFd[o]) :
             \E q \in RunEnds(active, p, OpFd[o]) :
                interest' = [interest EXCEPT ![OpFd[o]] =
                       {Dir(o)} \cup {Dir(active[i]) : i \in p..(q - 1)}]
    BY <1>1 DEF Schedule
  <2>2. PICK q \in RunEnds(active, p, OpFd[o]) :
             interest' = [interest EXCEPT ![OpFd[o]] =
                       {Dir(o)} \cup {Dir(active[i]) : i \in p..(q - 1)}]
    BY <2>1
  <2>3. ToSet(active') = ToSet(active) \cup {o}
    BY <1>1, ScheduleEffect
  <2>4. cur = NoCursor
    BY <1>1, IdleCursor DEF Schedule
  <2>5. \A f : Hit(f) \subseteq Hit(f)'
    BY <2>3 DEF Hit
  <2>6. o \in Hit(OpFd[o])'
    BY <2>3 DEF Hit
  <2>7. ASSUME NEW i \in p..(q - 1)
        PROVE  active[i] \in Hit(OpFd[o])
    <3>1. p \in 1..(Len(active) + 1)
      BY <1>l DEF SearchPos, LowerBounds
    <3>2. q \in p..(Len(active) + 1) /\ OpFd[active[i]] = OpFd[o]
      BY DEF RunEnds
    <3>3. i \in 1..Len(active)
      BY <1>l, <3>1, <3>2
    <3> QED
      BY <3>2, <3>3, ActiveSet DEF Hit
  <2>8. interest'[OpFd[o]] \subseteq {Dir(x) : x \in Hit(OpFd[o])'}
    <3>1. OpFd[o] \in Fds
      BY IoAssumption
    <3>2. interest'[OpFd[o]]
             = {Dir(o)} \cup {Dir(active[i]) : i \in p..(q - 1)}
      BY <2>2, <3>1 DEF KernelTypeOK
    <3> QED
      BY <2>5, <2>6, <2>7, <3>2
  <2>9. ASSUME NEW f \in Fds, f # OpFd[o]
        PROVE  interest'[f] \subseteq {Dir(x) : x \in Hit(f)'}
    <3>1. interest'[f] = interest[f]
      BY <2>2, <2>9 DEF KernelTypeOK
    <3>2. interest[f] \subseteq {Dir(x) : x \in Hit(f)}
      BY <1>h, <1>n, <2>4
    <3> QED
      BY <2>5, <3>1, <3>2
  <2> QED
    BY <1>s, <2>8, <2>9
<1>2. ASSUME NEW g \in Fds, Cancel(g)
      PROVE  InterestIsWanted'
  <2>1. ToSet(active') = ToSet(active) \ Hit(g)
    BY <1>2, CancelEffect
  <2>2. cur = NoCursor
    BY <1>2, IdleCursor DEF Cancel
  <2>3. ASSUME NEW f \in Fds
        PROVE  interest'[f] \subseteq {Dir(x) : x \in Hit(f)'}
    <3>1. CASE f = g
      BY <1>2, <3>1 DEF Cancel, Deregister, KernelTypeOK
    <3>2. CASE f # g
      <4>1. interest'[f] = interest[f]
        BY <1>2, <3>2 DEF Cancel, Deregister, KernelTypeOK
      <4>2. Hit(f)' = Hit(f)
        BY <2>1, <3>2 DEF Hit
      <4> QED
        BY <1>h, <1>n, <2>2, <4>1, <4>2
    <3> QED
      BY <3>1, <3>2
  <2> QED
    BY <1>s, <2>3
<1>3. ASSUME NEW a \in Actors, SpliceTurn(a)
      PROVE  InterestIsWanted'
  <2>1. ToSet(active') = ToSet(active) /\ UNCHANGED <<cur, interest>>
    BY <1>3, SpliceEffect DEF SpliceTurn
  <2>2. \A f : Hit(f)' = Hit(f)
    BY <2>1 DEF Hit
  <2> QED
    BY <1>h, <1>s, <2>1, <2>2
<1>4. ASSUME NEW t \in Threads, CompleteItem(t)
      PROVE  InterestIsWanted'
  <2>1. /\ cur.next \in 1..Len(active) /\ OpFd[active[cur.next]] = cur.fd
        /\ active' = RemoveAt(active, cur.next)
        /\ UNCHANGED <<cur, interest>>
    BY <1>4 DEF CompleteItem, HasItem, LockTypeOK, ListTypeOK, Cursor
  <2>2. ToSet(active') = ToSet(active) \ {active[cur.next]}
    BY <1>l, <2>1, RemoveAtSet
  <2>3. ASSUME NEW f, f # cur.fd
        PROVE  Hit(f)' = Hit(f)
    BY <2>1, <2>2, <2>3 DEF Hit
  <2> QED
    BY <1>h, <1>s, <2>1, <2>3
<1>5. ASSUME NEW t \in Threads, BeginEvent(t)
      PROVE  InterestIsWanted'
  <2>1. cur = NoCursor /\ UNCHANGED <<active, interest>>
    BY <1>5 DEF BeginEvent
  <2>2. \A f : Hit(f)' = Hit(f)
    BY <2>1 DEF Hit
  <2> QED
    BY <1>h, <1>n, <1>s, <2>1, <2>2
<1>6. ASSUME NEW t \in Threads, SkipItem(t)
      PROVE  InterestIsWanted'
  <2>1. cur'.fd = cur.fd /\ UNCHANGED <<active, interest>>
    BY <1>6 DEF SkipItem, LockTypeOK, Cursor
  <2>2. \A f : Hit(f)' = Hit(f)
    BY <2>1 DEF Hit
  <2> QED
    BY <1>h, <1>s, <2>1, <2>2
<1>7. ASSUME NEW t \in Threads, EndEvent(t)
      PROVE  InterestIsWanted'
  <2>1. cur.fd \in Fds /\ cur.fd # Nobody /\ active' = active
    BY <1>7 DEF EndEvent, LockTypeOK, Cursor
  <2>2. interest' = [interest EXCEPT ![cur.fd] = cur.rereg]
    BY <1>7 DEF EndEvent, Deregister, Reregister
  <2>3. \A f : Hit(f)' = Hit(f)
    BY <2>1 DEF Hit
  <2>4. cur.rereg \subseteq {Dir(x) : x \in Hit(cur.fd)}
    <3>1. ASSUME NEW j \in 1..(cur.next - 1), OpFd[active[j]] = cur.fd
          PROVE  active[j] \in Hit(cur.fd)
      <4>1. j \in 1..Len(active)
        BY <1>l, <2>1 DEF CursorSound, LockTypeOK, Cursor
      <4> QED
        BY <3>1, <4>1, ActiveSet DEF Hit
    <3> QED
      BY <2>1, <3>1 DEF ReregIsSkipped
  <2>5. ASSUME NEW f \in Fds
        PROVE  interest'[f] \subseteq {Dir(x) : x \in Hit(f)'}
    <3>1. CASE f = cur.fd
      <4>1. interest'[f] = cur.rereg
        BY <2>2, <3>1 DEF KernelTypeOK
      <4> QED
        BY <2>3, <2>4, <3>1, <4>1
    <3>2. CASE f # cur.fd
      <4>1. interest'[f] = interest[f]
        BY <2>2, <3>2 DEF KernelTypeOK
      <4> QED
        BY <1>h, <2>3, <3>2, <4>1
    <3> QED
      BY <3>1, <3>2
  <2> QED
    BY <1>s, <2>5
<1>8. ASSUME UNCHANGED <<active, cur, interest>>
      PROVE  InterestIsWanted'
  BY <1>8 DEF InterestIsWanted, SettledFds, Wanted
<1>9. \/ \E o \in IoOps : Schedule(o)
      \/ \E f \in Fds : Cancel(f)
      \/ \E a \in Actors : SpliceTurn(a)
      \/ \E t \in Threads : CompleteItem(t)
      \/ \E t \in Threads : BeginEvent(t)
      \/ \E t \in Threads : SkipItem(t)
      \/ \E t \in Threads : EndEvent(t)
      \/ UNCHANGED <<active, cur, interest>>
  BY StepCases, ZenonT(60)
  DEF CancelStuck, PollEnter, PostCancelled, EndCancellations, StartWaiting,
      EpollReturns, EpollInterrupted, StopWaiting, LockNotifications,
      ProcessWake, EndNotifications, CatchPollError, BecomeReady,
      BecomeFailed
<1> QED
  BY <1>1, <1>2, <1>3, <1>4, <1>5, <1>6, <1>7, <1>8, <1>9

(***************************************************************************)
(* epoll is never left interested in a direction no active operation waits *)
(* for, so level triggering causes no busy loop, whatever was skipped,     *)
(* completed, cancelled or scheduled in between.                           *)
(***************************************************************************)
THEOREM NoStaleInterest == IoSpec => []InterestIsWanted
<1> DEFINE Inv == ReregIsSkipped /\ InterestIsWanted
<1>1. IoInit => Inv
  <2> SUFFICES ASSUME IoInit PROVE Inv
    OBVIOUS
  <2>1. cur.fd = Nobody
    BY DEF IoInit, NoCursor
  <2>2. \A f \in Fds : interest[f] = {}
    BY DEF IoInit
  <2> QED
    BY <2>1, <2>2 DEF ReregIsSkipped, InterestIsWanted, SettledFds
<1>2. PlaceInv /\ PlaceInv' /\ Inv /\ [IoNext]_ioVars => Inv'
  <2> SUFFICES ASSUME PlaceInv, PlaceInv', Inv, [IoNext]_ioVars
               PROVE  Inv'
    OBVIOUS
  <2>1. CASE IoNext
    <3>1. SchedulerStep
      BY <2>1, NextIsSchedulerStep
    <3>2. /\ ListTypeOK /\ LockTypeOK /\ KernelTypeOK /\ MutexOwned
          /\ SortedByFd /\ CursorSound /\ IsInjective(active) /\ ListTypeOK'
      BY DEF PlaceInv, IoInv, SchedulerTypeOK, Placement
    <3> QED
      BY <3>1, <3>2, ReregStep, InterestStep
  <2>2. CASE UNCHANGED ioVars
    BY <2>2 DEF ioVars, listVars, lockVars, ReregIsSkipped,
                InterestIsWanted, SettledFds, Wanted
  <2> QED
    BY <2>1, <2>2
<1>3. Inv => InterestIsWanted
  OBVIOUS
<1> QED
  BY <1>1, <1>2, <1>3, PlaceAlways, PTL DEF IoSpec
============================================================================
