------------------------- MODULE IoSchedulerProofs -------------------------
(***************************************************************************)
(* Proofs about IoScheduler, for any number of threads, clients,           *)
(* operations and descriptors.                                             *)
(***************************************************************************)
EXTENDS IoScheduler, DataLemmas

(* A step of the scheduler, whoever calls schedule() and cancel(). *)
SchedulerStep ==
    \/ \E t \in Threads : PollerStep(t) \/ EpollInterrupted(t)
    \/ \E a \in Actors : ClientStep(a)
    \/ EnvStep

(***************************************************************************)
(* Every state change of the scheduler is one of these actions; the proofs *)
(* below go through them one by one.                                       *)
(***************************************************************************)
LEMMA StepCases ==
    ASSUME SchedulerStep
    PROVE  \/ \E o \in IoOps : Schedule(o)
           \/ \E f \in Fds : Cancel(f)
           \/ \E a \in Actors, f \in Fds : CancelStuck(a, f)
           \/ \E a \in Actors : SpliceTurn(a)
           \/ \E t \in Threads, b \in BOOLEAN : PollEnter(t, b)
           \/ \E t \in Threads : \/ PostCancelled(t) \/ EndCancellations(t)
                                 \/ StartWaiting(t) \/ EpollReturns(t)
                                 \/ EpollInterrupted(t) \/ StopWaiting(t)
                                 \/ LockNotifications(t) \/ ProcessWake(t)
                                 \/ BeginEvent(t) \/ SkipItem(t)
                                 \/ CompleteItem(t) \/ EndEvent(t)
                                 \/ EndNotifications(t) \/ CatchPollError(t)
           \/ \E o \in IoOps : BecomeReady(OpFd[o], Dir(o))
           \/ \E f \in Fds : BecomeFailed(f)
  BY DEF SchedulerStep, PollerStep, PollStep, ClientStep, EnvStep

----------------------------------------------------------------------------
(* Types and counters *)

LEMMA TypeInit == IoInit => SchedulerTypeOK
<1> SUFFICES ASSUME IoInit PROVE SchedulerTypeOK
  OBVIOUS
<1>1. ListTypeOK
  BY DEF IoInit, ListTypeOK
<1>2. LockTypeOK
  BY DEF IoInit, LockTypeOK, NoCursor, Cursor
<1>3. KernelTypeOK
  BY DEF IoInit, KernelTypeOK
<1>4. PollTypeOK
  BY DEF IoInit, PollTypeOK, PollPcs
<1>5. ResultTypeOK
  BY DEF IoInit, ResultTypeOK
<1>6. FlagTypeOK
  BY DEF IoInit, FlagTypeOK
<1>7. waiting \in Nat
  BY DEF IoInit
<1> QED
  BY <1>1, <1>2, <1>3, <1>4, <1>5, <1>6, <1>7 DEF SchedulerTypeOK

(* An operation waits in one of the two directions. *)
LEMMA DirType == \A o : Dir(o) \in Direction
  BY DEF Dir, Direction

(***************************************************************************)
(* The list stays a list of operations and poll_queue_length_ its length:  *)
(* insertions, splices and erasures move operations without losing any,    *)
(* and what leaves the list is subtracted before the lock is released.     *)
(***************************************************************************)
LEMMA ListStep ==
    ASSUME ListTypeOK, LockTypeOK, PollLengthExact, SchedulerStep
    PROVE  ListTypeOK' /\ PollLengthExact'
<1> USE DEF listVars, lockVars, kernelVars, pollVars
<1>l. /\ active \in Seq(IoOps) /\ cancelled \in Seq(IoOps)
      /\ Len(active) \in Nat /\ Len(cancelled) \in Nat
      /\ pollLen \in Nat /\ count \in Nat
      /\ pollLen = Len(active) + Len(cancelled) + count
  BY DEF ListTypeOK, PollLengthExact
<1>1. ASSUME NEW o \in IoOps, Schedule(o)
      PROVE  ListTypeOK' /\ PollLengthExact'
  <2>1. PICK p \in SearchPos(active, OpFd[o]) :
             \E q \in RunEnds(active, p, OpFd[o]) :
                active' = InsertAt(active, q, o)
    BY <1>1 DEF Schedule
  <2>2. PICK q \in RunEnds(active, p, OpFd[o]) :
             active' = InsertAt(active, q, o)
    BY <2>1
  <2>3. p \in 1..(Len(active) + 1)
    BY <1>l DEF SearchPos, LowerBounds
  <2>4. q \in 1..(Len(active) + 1)
    BY <1>l, <2>3 DEF RunEnds
  <2>5. active' \in Seq(IoOps) /\ Len(active') = Len(active) + 1
    BY <1>l, <2>2, <2>4, InsertAtElements
  <2>6. cancelled' = cancelled /\ count' = count /\ pollLen' = pollLen + 1
    BY <1>1 DEF Schedule
  <2> QED
    BY <1>l, <2>5, <2>6 DEF ListTypeOK, PollLengthExact
<1>2. ASSUME NEW f \in Fds, Cancel(f)
      PROVE  ListTypeOK' /\ PollLengthExact'
  <2>1. PICK p \in LowerBounds(active, f) :
             \E q \in RunEnds(active, p, f) :
                /\ active' = SubSeq(active, 1, p - 1) \o
                             SubSeq(active, q, Len(active))
                /\ cancelled' = MoveToCancelled(SubSeq(active, p, q - 1))
    BY <1>2 DEF Cancel
  <2>2. PICK q \in RunEnds(active, p, f) :
                /\ active' = SubSeq(active, 1, p - 1) \o
                             SubSeq(active, q, Len(active))
                /\ cancelled' = MoveToCancelled(SubSeq(active, p, q - 1))
    BY <2>1
  <2>3. p \in 1..(Len(active) + 1)
    BY <1>l DEF LowerBounds
  <2>4. q \in p..(Len(active) + 1)
    BY <1>l, <2>3 DEF RunEnds
  <2>5. active' \in Seq(IoOps) /\ Len(active') = Len(active) - (q - p)
    <3>1. /\ SubSeq(active, 1, p - 1) \o SubSeq(active, q, Len(active))
                \in Seq(IoOps)
          /\ Len(SubSeq(active, 1, p - 1) \o SubSeq(active, q, Len(active)))
                = Len(active) - (q - p)
      BY <1>l, <2>3, <2>4, CutElements
    <3> QED
      BY <2>2, <3>1, Zenon
  <2>6. cancelled' \in Seq(IoOps) /\ Len(cancelled') = (q - p) + Len(cancelled)
    BY <1>l, <2>2, <2>3, <2>4, PrependCut DEF MoveToCancelled
  <2>7. count' = count /\ pollLen' = pollLen
    BY <1>2 DEF Cancel
  <2> QED
    BY <1>l, <2>3, <2>4, <2>5, <2>6, <2>7 DEF ListTypeOK, PollLengthExact
<1>3. ASSUME NEW a \in Actors, SpliceTurn(a)
      PROVE  ListTypeOK' /\ PollLengthExact'
  <2>1. PICK p \in 1..Len(active) :
             active' = Append(RemoveAt(active, p), active[p])
    BY <1>3 DEF SpliceTurn
  <2>2. RemoveAt(active, p) \in Seq(IoOps) /\
        Len(RemoveAt(active, p)) = Len(active) - 1
    BY <1>l, RemoveAtElements
  <2>3. active[p] \in IoOps
    BY <1>l, ElementOfSeq
  <2>4. active' \in Seq(IoOps) /\ Len(active') = Len(active)
    BY <1>l, <2>1, <2>2, <2>3, AppendProperties
  <2>5. cancelled' = cancelled /\ count' = count /\ pollLen' = pollLen
    BY <1>3 DEF SpliceTurn
  <2> QED
    BY <1>l, <2>4, <2>5 DEF ListTypeOK, PollLengthExact
<1>4. ASSUME NEW t \in Threads, PostCancelled(t)
      PROVE  ListTypeOK' /\ PollLengthExact'
  <2>1. cancelled # <<>> /\ cancelled' = Tail(cancelled)
    BY <1>4 DEF PostCancelled
  <2>2. cancelled' \in Seq(IoOps) /\ Len(cancelled') = Len(cancelled) - 1
    BY <1>l, <2>1, HeadTailProperties
  <2>3. active' = active /\ count' = count + 1 /\ pollLen' = pollLen
    BY <1>4 DEF PostCancelled
  <2> QED
    BY <1>l, <2>2, <2>3 DEF ListTypeOK, PollLengthExact
<1>5. ASSUME NEW t \in Threads, EndCancellations(t) \/ EndNotifications(t)
      PROVE  ListTypeOK' /\ PollLengthExact'
  <2>1. /\ active' = active /\ cancelled' = cancelled
        /\ count' = 0 /\ pollLen' = pollLen - count
    BY <1>5 DEF EndCancellations, EndNotifications, DecrementCount
  <2> QED
    BY <1>l, <2>1 DEF ListTypeOK, PollLengthExact
<1>6. ASSUME NEW t \in Threads, CompleteItem(t)
      PROVE  ListTypeOK' /\ PollLengthExact'
  <2>1. cur.next \in 1..Len(active)
    BY <1>l, <1>6 DEF CompleteItem, HasItem, LockTypeOK, Cursor
  <2>2. active' = RemoveAt(active, cur.next)
    BY <1>6 DEF CompleteItem
  <2>3. active' \in Seq(IoOps) /\ Len(active') = Len(active) - 1
    BY <1>l, <2>1, <2>2, RemoveAtElements
  <2>4. cancelled' = cancelled /\ count' = count + 1 /\ pollLen' = pollLen
    BY <1>6 DEF CompleteItem
  <2> QED
    BY <1>l, <2>3, <2>4 DEF ListTypeOK, PollLengthExact
<1>7. ASSUME UNCHANGED <<listVars, count>>
      PROVE  ListTypeOK' /\ PollLengthExact'
  BY <1>l, <1>7 DEF ListTypeOK, PollLengthExact
<1>8. \/ \E o \in IoOps : Schedule(o)
      \/ \E f \in Fds : Cancel(f)
      \/ \E a \in Actors : SpliceTurn(a)
      \/ \E t \in Threads : PostCancelled(t)
      \/ \E t \in Threads : EndCancellations(t) \/ EndNotifications(t)
      \/ \E t \in Threads : CompleteItem(t)
      \/ UNCHANGED <<listVars, count>>
  BY StepCases, ZenonT(60)
  DEF CancelStuck, PollEnter, StartWaiting, EpollReturns, EpollInterrupted,
      StopWaiting, LockNotifications, ProcessWake, BeginEvent, SkipItem,
      EndEvent, CatchPollError, BecomeReady, BecomeFailed
<1> QED
  BY <1>1, <1>2, <1>3, <1>4, <1>5, <1>6, <1>7, <1>8

(* The lock, the cursor of process_notifications() and the splice. *)
LEMMA LockStep ==
    ASSUME ListTypeOK, LockTypeOK, PollTypeOK, SchedulerStep
    PROVE  LockTypeOK'
<1> USE DEF listVars, lockVars, kernelVars, pollVars, LockTypeOK
<1>1. ASSUME NEW a \in Actors, NEW f \in Fds, CancelStuck(a, f)
      PROVE  LockTypeOK'
  BY <1>1 DEF CancelStuck
<1>2. ASSUME NEW t \in Threads, NEW b \in BOOLEAN, PollEnter(t, b)
      PROVE  LockTypeOK'
  BY <1>2 DEF PollEnter, Actors
<1>3. ASSUME NEW t \in Threads, LockNotifications(t)
      PROVE  LockTypeOK'
  BY <1>3 DEF LockNotifications, Actors
<1>4. ASSUME NEW t \in Threads, EndCancellations(t) \/ EndNotifications(t)
      PROVE  LockTypeOK'
  BY <1>4 DEF EndCancellations, EndNotifications
<1>5. ASSUME NEW t \in Threads, BeginEvent(t)
      PROVE  LockTypeOK'
  <2>1. PICK e \in events[t] :
             /\ e.fd # WakeFd
             /\ \E p \in LowerBounds(active, e.fd) :
                   cur' = [fd |-> e.fd, readable |-> e.readable,
                           next |-> p, rereg |-> {}]
    BY <1>5 DEF BeginEvent
  <2>2. e.fd \in Fds /\ e.readable \in BOOLEAN
    BY <2>1 DEF PollTypeOK, Event
  <2>3. PICK p \in LowerBounds(active, e.fd) :
             cur' = [fd |-> e.fd, readable |-> e.readable,
                     next |-> p, rereg |-> {}]
    BY <2>1
  <2>4. p \in Nat \ {0}
    BY DEF LowerBounds, ListTypeOK
  <2>5. cur' \in Cursor
    BY <2>2, <2>3, <2>4 DEF Cursor
  <2>6. UNCHANGED <<mutex, spliceFd>>
    BY <1>5 DEF BeginEvent
  <2> QED
    BY <2>5, <2>6
<1>6. ASSUME NEW t \in Threads, SkipItem(t)
      PROVE  LockTypeOK'
  <2>1. PICK d \in Direction :
             cur' = [cur EXCEPT !.next = @ + 1, !.rereg = @ \cup {d}]
    BY <1>6, DirType DEF SkipItem
  <2>2. /\ cur.fd \in Fds \cup {Nobody} /\ cur.readable \in BOOLEAN
        /\ cur.next + 1 \in Nat \ {0}
        /\ cur.rereg \cup {d} \in SUBSET Direction
    BY DEF Cursor
  <2>3. cur' = [fd |-> cur.fd, readable |-> cur.readable,
                next |-> cur.next + 1, rereg |-> cur.rereg \cup {d}]
    BY <2>1 DEF Cursor
  <2>4. cur' \in Cursor
    BY <2>2, <2>3 DEF Cursor
  <2>5. UNCHANGED <<mutex, spliceFd>>
    BY <1>6 DEF SkipItem
  <2> QED
    BY <2>4, <2>5
<1>7. ASSUME NEW t \in Threads, EndEvent(t)
      PROVE  LockTypeOK'
  BY <1>7 DEF EndEvent, Cursor, NoCursor
<1>8. ASSUME UNCHANGED <<mutex, spliceFd, cur>>
      PROVE  LockTypeOK'
  BY <1>8
<1>9. \/ \E a \in Actors, f \in Fds : CancelStuck(a, f)
      \/ \E t \in Threads, b \in BOOLEAN : PollEnter(t, b)
      \/ \E t \in Threads : LockNotifications(t)
      \/ \E t \in Threads : EndCancellations(t) \/ EndNotifications(t)
      \/ \E t \in Threads : BeginEvent(t) \/ SkipItem(t) \/ EndEvent(t)
      \/ UNCHANGED <<mutex, spliceFd, cur>>
  BY StepCases
  DEF Schedule, Cancel, SpliceTurn, PostCancelled, StartWaiting, EpollReturns,
      EpollInterrupted, StopWaiting, ProcessWake, CompleteItem,
      CatchPollError, BecomeReady, BecomeFailed
<1> QED
  BY <1>1, <1>2, <1>3, <1>4, <1>5, <1>6, <1>7, <1>8, <1>9

(* What epoll knows and what the kernel reports. *)
LEMMA KernelStep ==
    ASSUME ListTypeOK, LockTypeOK, KernelTypeOK, SchedulerStep
    PROVE  KernelTypeOK'
<1> USE DEF listVars, lockVars, kernelVars, pollVars, KernelTypeOK
<1>1. ASSUME NEW o \in IoOps, Schedule(o)
      PROVE  KernelTypeOK'
  <2>1. PICK p \in SearchPos(active, OpFd[o]) :
             \E q \in RunEnds(active, p, OpFd[o]) :
                interest' = [interest EXCEPT ![OpFd[o]] =
                               {Dir(o)} \cup {Dir(active[i]) : i \in p..(q - 1)}]
    BY <1>1 DEF Schedule
  <2>2. PICK q \in RunEnds(active, p, OpFd[o]) :
             interest' = [interest EXCEPT ![OpFd[o]] =
                            {Dir(o)} \cup {Dir(active[i]) : i \in p..(q - 1)}]
    BY <2>1
  <2>3. {Dir(o)} \cup {Dir(active[i]) : i \in p..(q - 1)} \in SUBSET Direction
    BY DirType
  <2>4. interest' \in [Fds -> SUBSET Direction]
    BY <2>2, <2>3
  <2>5. UNCHANGED <<ready, err>>
    BY <1>1 DEF Schedule
  <2> QED
    BY <2>4, <2>5
<1>2. ASSUME NEW f \in Fds, Cancel(f)
      PROVE  KernelTypeOK'
  BY <1>2 DEF Cancel, Deregister
<1>3. ASSUME NEW t \in Threads, CompleteItem(t)
      PROVE  KernelTypeOK'
  BY <1>3 DEF CompleteItem, Consume
<1>4. ASSUME NEW t \in Threads, EndEvent(t)
      PROVE  KernelTypeOK'
  BY <1>4 DEF EndEvent, Deregister, Reregister, LockTypeOK, Cursor
<1>5. ASSUME NEW o \in IoOps, BecomeReady(OpFd[o], Dir(o))
      PROVE  KernelTypeOK'
  <2>1. OpFd[o] \in Fds /\ Dir(o) \in Direction
    BY IoAssumption, DirType
  <2> QED
    BY <1>5, <2>1 DEF BecomeReady
<1>6. ASSUME NEW f \in Fds, BecomeFailed(f)
      PROVE  KernelTypeOK'
  BY <1>6 DEF BecomeFailed
<1>7. ASSUME UNCHANGED <<interest, ready, err>>
      PROVE  KernelTypeOK'
  BY <1>7
<1>8. \/ \E o \in IoOps : Schedule(o)
      \/ \E f \in Fds : Cancel(f)
      \/ \E t \in Threads : CompleteItem(t) \/ EndEvent(t)
      \/ \E o \in IoOps : BecomeReady(OpFd[o], Dir(o))
      \/ \E f \in Fds : BecomeFailed(f)
      \/ UNCHANGED <<interest, ready, err>>
  BY StepCases, ZenonT(60)
  DEF CancelStuck, SpliceTurn, PollEnter, PostCancelled, EndCancellations,
      StartWaiting, EpollReturns, EpollInterrupted, StopWaiting,
      LockNotifications, ProcessWake, BeginEvent, SkipItem, EndNotifications,
      CatchPollError
<1> QED
  BY <1>1, <1>2, <1>3, <1>4, <1>5, <1>6, <1>7, <1>8

(* The local variables of poll_once(). *)
LEMMA PollTypeStep ==
    ASSUME KernelTypeOK, PollTypeOK, SchedulerStep
    PROVE  PollTypeOK'
<1> USE DEF listVars, lockVars, kernelVars, pollVars, PollTypeOK, PollPcs
<1>1. ASSUME NEW t \in Threads, NEW b \in BOOLEAN, PollEnter(t, b)
      PROVE  PollTypeOK'
  BY <1>1 DEF PollEnter
<1>2. ASSUME NEW t \in Threads, EndCancellations(t)
      PROVE  PollTypeOK'
  <2>1. CASE active = <<>>
    BY <1>2, <2>1 DEF EndCancellations, LeavePoll
  <2>2. CASE active # <<>>
    BY <1>2, <2>2 DEF EndCancellations, PollTimeout
  <2> QED
    BY <2>1, <2>2
<1>3. ASSUME NEW t \in Threads,
             \/ StartWaiting(t) \/ EpollInterrupted(t) \/ StopWaiting(t)
             \/ LockNotifications(t) \/ CatchPollError(t)
      PROVE  PollTypeOK'
  BY <1>3 DEF StartWaiting, EpollInterrupted, StopWaiting, LockNotifications,
              CatchPollError
<1>4. ASSUME NEW t \in Threads, EpollReturns(t)
      PROVE  PollTypeOK'
  <2>1. Pending \subseteq Event
    <3>1. ASSUME NEW f \in Fds, NEW b \in BOOLEAN
          PROVE  [fd |-> f, readable |-> b] \in Event
      BY DEF Event
    <3>2. [fd |-> WakeFd, readable |-> TRUE] \in Event
      BY DEF Event
    <3> QED
      BY <3>1, <3>2, Zenon DEF Pending
  <2>2. PICK n : /\ \E E \in kSubset(n, Pending) :
                       events' = [events EXCEPT ![t] = E]
                 /\ full' = [full EXCEPT ![t] = (n = MaxEvents)]
    BY <1>4 DEF EpollReturns
  <2>3. events' \in [Threads -> SUBSET Event]
    BY <2>1, <2>2 DEF kSubset
  <2>4. full' \in [Threads -> BOOLEAN]
    BY <2>2
  <2>5. /\ timeout' \in [Threads -> BOOLEAN]
        /\ pollPc' \in [Threads -> PollPcs]
        /\ block' = block
    BY <1>4 DEF EpollReturns
  <2> QED
    BY <2>3, <2>4, <2>5
<1>5. ASSUME NEW t \in Threads, ProcessWake(t) \/ BeginEvent(t)
      PROVE  PollTypeOK'
  BY <1>5 DEF ProcessWake, BeginEvent
<1>6. ASSUME NEW t \in Threads, EndNotifications(t)
      PROVE  PollTypeOK'
  <2>1. CASE full[t] /\ ~ block[t]
    BY <1>6, <2>1 DEF EndNotifications
  <2>2. CASE ~ (full[t] /\ ~ block[t])
    BY <1>6, <2>2 DEF EndNotifications, LeavePoll
  <2> QED
    BY <2>1, <2>2
<1>7. ASSUME UNCHANGED pollVars
      PROVE  PollTypeOK'
  BY <1>7
<1>8. \/ \E t \in Threads, b \in BOOLEAN : PollEnter(t, b)
      \/ \E t \in Threads : \/ StartWaiting(t) \/ EpollInterrupted(t)
                            \/ StopWaiting(t) \/ LockNotifications(t)
                            \/ CatchPollError(t)
      \/ \E t \in Threads : \/ EndCancellations(t) \/ EpollReturns(t)
                            \/ EndNotifications(t)
      \/ \E t \in Threads : ProcessWake(t) \/ BeginEvent(t)
      \/ UNCHANGED pollVars
  BY StepCases
  DEF Schedule, Cancel, CancelStuck, SpliceTurn, PostCancelled, SkipItem,
      CompleteItem, EndEvent, BecomeReady, BecomeFailed
<1> QED
  BY <1>1, <1>2, <1>3, <1>4, <1>5, <1>6, <1>7, <1>8

(* An operation's result. *)
LEMMA ResultStep ==
    ASSUME ResultTypeOK, SchedulerStep
    PROVE  ResultTypeOK'
<1> USE DEF listVars, lockVars, kernelVars, pollVars, ResultTypeOK
<1>1. ASSUME NEW o \in IoOps, Schedule(o)
      PROVE  ResultTypeOK'
  BY <1>1 DEF Schedule
<1>2. ASSUME NEW f \in Fds, Cancel(f) \/ \E a \in Actors : CancelStuck(a, f)
      PROVE  ResultTypeOK'
  <2>1. PICK p, q : MarkCancelled(p, q)
    BY <1>2 DEF Cancel, CancelStuck
  <2> QED
    BY <2>1 DEF MarkCancelled
<1>3. ASSUME NEW t \in Threads, CompleteItem(t)
      PROVE  ResultTypeOK'
  BY <1>3 DEF CompleteItem
<1>4. ASSUME UNCHANGED result
      PROVE  ResultTypeOK'
  BY <1>4
<1>5. \/ \E o \in IoOps : Schedule(o)
      \/ \E f \in Fds : Cancel(f) \/ \E a \in Actors : CancelStuck(a, f)
      \/ \E t \in Threads : CompleteItem(t)
      \/ UNCHANGED result
  BY StepCases
  DEF SpliceTurn, PollEnter, PostCancelled, EndCancellations, StartWaiting,
      EpollReturns, EpollInterrupted, StopWaiting, LockNotifications,
      ProcessWake, BeginEvent, SkipItem, EndEvent, EndNotifications,
      CatchPollError, BecomeReady, BecomeFailed
<1> QED
  BY <1>1, <1>2, <1>3, <1>4, <1>5

(* The wake event and the record of failed contracts. *)
LEMMA FlagStep ==
    ASSUME FlagTypeOK, SchedulerStep
    PROVE  FlagTypeOK'
<1> USE DEF listVars, lockVars, kernelVars, pollVars
<1>1. wake' \in BOOLEAN
  BY StepCases, ZenonT(60)
  DEF FlagTypeOK, Trigger, PostIo,
      Schedule, Cancel, CancelStuck, SpliceTurn, PollEnter, PostCancelled,
      EndCancellations, StartWaiting, EpollReturns, EpollInterrupted,
      StopWaiting, LockNotifications, ProcessWake, BeginEvent, SkipItem,
      CompleteItem, EndEvent, EndNotifications, CatchPollError, BecomeReady,
      BecomeFailed
<1>2. aborted' \in BOOLEAN
  BY StepCases, ZenonT(60)
  DEF FlagTypeOK, Expect,
      Schedule, Cancel, CancelStuck, SpliceTurn, PollEnter, PostCancelled,
      EndCancellations, StartWaiting, EpollReturns, EpollInterrupted,
      StopWaiting, LockNotifications, ProcessWake, BeginEvent, SkipItem,
      CompleteItem, EndEvent, EndNotifications, CatchPollError, BecomeReady,
      BecomeFailed
<1> QED
  BY <1>1, <1>2 DEF FlagTypeOK

(***************************************************************************)
(* threads_waiting goes up and down exactly when a thread enters and       *)
(* leaves the set of waiters, so it never goes below zero.                 *)
(***************************************************************************)
LEMMA WaitingStep ==
    ASSUME PollTypeOK, WaitingExact, SchedulerStep
    PROVE  waiting' \in Nat /\ WaitingExact'
<1> USE DEF listVars, lockVars, kernelVars, pollVars
<1>w. Waiters \subseteq Threads /\ IsFiniteSet(Waiters)
  <2>1. Waiters \subseteq Threads
    BY DEF Waiters
  <2> QED
    BY <2>1, IoAssumption, FS_Subset
<1>1. ASSUME NEW t \in Threads, StartWaiting(t)
      PROVE  WaitingExact'
  <2>1. t \notin Waiters /\ Waiters' = Waiters \cup {t}
    BY <1>1 DEF StartWaiting, Waiters, PollTypeOK
  <2> QED
    BY <1>1, <1>w, <2>1, FS_AddElement DEF StartWaiting, WaitingExact
<1>2. ASSUME NEW t \in Threads, EpollInterrupted(t) \/ StopWaiting(t)
      PROVE  WaitingExact'
  <2>1. t \in Waiters /\ Waiters' = Waiters \ {t}
    BY <1>2 DEF EpollInterrupted, StopWaiting, Waiters, PollTypeOK
  <2>2. waiting' = waiting - 1
    BY <1>2 DEF EpollInterrupted, StopWaiting
  <2> QED
    BY <1>w, <2>1, <2>2, FS_RemoveElement DEF WaitingExact
<1>3. ASSUME UNCHANGED waiting, Waiters' = Waiters
      PROVE  WaitingExact'
  BY <1>3 DEF WaitingExact
<1>4. ASSUME NEW t \in Threads, EpollReturns(t)
      PROVE  UNCHANGED waiting /\ Waiters' = Waiters
  BY <1>4 DEF EpollReturns, Waiters, PollTypeOK
<1>5. ASSUME NEW t \in Threads,
             \/ \E b \in BOOLEAN : PollEnter(t, b)
             \/ EndCancellations(t) \/ LockNotifications(t)
             \/ EndNotifications(t) \/ CatchPollError(t)
      PROVE  UNCHANGED waiting /\ Waiters' = Waiters
  <2>1. /\ UNCHANGED waiting
        /\ pollPc[t] \notin {"epoll", "leave"}
        /\ \E where \in PollPcs \ {"epoll", "leave"} :
              pollPc' = [pollPc EXCEPT ![t] = where]
    BY <1>5 DEF PollEnter, EndCancellations, LockNotifications,
                EndNotifications, CatchPollError, LeavePoll, PollPcs
  <2> QED
    BY <2>1 DEF Waiters, PollTypeOK
<1>6. ASSUME UNCHANGED <<waiting, pollPc>>
      PROVE  WaitingExact'
  BY <1>6 DEF WaitingExact, Waiters
<1>7. \/ \E t \in Threads : StartWaiting(t) \/ EpollReturns(t)
      \/ \E t \in Threads : EpollInterrupted(t) \/ StopWaiting(t)
      \/ \E t \in Threads : \/ \E b \in BOOLEAN : PollEnter(t, b)
                            \/ EndCancellations(t) \/ LockNotifications(t)
                            \/ EndNotifications(t) \/ CatchPollError(t)
      \/ UNCHANGED <<waiting, pollPc>>
  BY StepCases
  DEF Schedule, Cancel, CancelStuck, SpliceTurn, PostCancelled, ProcessWake,
      BeginEvent, SkipItem, CompleteItem, EndEvent, BecomeReady, BecomeFailed
<1>8. WaitingExact'
  BY <1>1, <1>2, <1>3, <1>4, <1>5, <1>6, <1>7
<1>9. IsFiniteSet(Waiters')
  <2>1. Waiters' \subseteq Threads
    BY DEF Waiters
  <2> QED
    BY <2>1, IoAssumption, FS_Subset
<1> QED
  BY <1>8, <1>9, FS_CardinalityType DEF WaitingExact

----------------------------------------------------------------------------
(* Types and counters: the first layer of the inductive invariant. *)
CountInv == SchedulerTypeOK /\ PollLengthExact /\ WaitingExact

LEMMA CountInit == IoInit => CountInv
<1> SUFFICES ASSUME IoInit PROVE CountInv
  OBVIOUS
<1>1. PollLengthExact
  BY DEF IoInit, PollLengthExact
<1>2. WaitingExact
  <2>1. Waiters = {}
    BY DEF IoInit, Waiters
  <2> QED
    BY <2>1, FS_EmptySet DEF IoInit, WaitingExact
<1> QED
  BY <1>1, <1>2, TypeInit DEF CountInv

LEMMA CountStep == CountInv /\ SchedulerStep => CountInv'
  BY ListStep, LockStep, KernelStep, PollTypeStep, ResultStep, FlagStep,
     WaitingStep
  DEF CountInv, SchedulerTypeOK

LEMMA CountStutter == CountInv /\ UNCHANGED ioVars => CountInv'
  BY DEF CountInv, SchedulerTypeOK, ListTypeOK, LockTypeOK, KernelTypeOK,
         PollTypeOK, ResultTypeOK, FlagTypeOK, PollLengthExact, WaitingExact,
         Waiters, ioVars, listVars, lockVars, kernelVars, pollVars

(* Clients are actors. *)
LEMMA NextIsSchedulerStep == IoNext => SchedulerStep
  BY DEF IoNext, SchedulerStep, Actors

(***************************************************************************)
(* poll_queue_length_ is exact in every reachable state of the scheduler,  *)
(* for any number of threads and operations: empty() never hides a pending *)
(* operation, and the counter never wraps.                                 *)
(***************************************************************************)
THEOREM PollLengthIsExact == IoSpec => []PollLengthExact
<1>1. IoInit => CountInv
  BY CountInit
<1>2. CountInv /\ [IoNext]_ioVars => CountInv'
  BY CountStep, CountStutter, NextIsSchedulerStep
<1>3. CountInv => PollLengthExact
  BY DEF CountInv
<1> QED
  BY <1>1, <1>2, <1>3, PTL DEF IoSpec

----------------------------------------------------------------------------
(* Ownership of the lock *)

LEMMA MutexStep ==
    ASSUME LockTypeOK, PollTypeOK, MutexOwned, SchedulerStep
    PROVE  MutexOwned'
<1> USE IoAssumption DEF listVars, lockVars, kernelVars, pollVars
<1> USE DEF PollTypeOK, MutexOwned
<1>n. \A t \in Threads : t # Nobody
  BY DEF Actors
<1>1. ASSUME NEW a \in Actors, NEW f \in Fds, CancelStuck(a, f)
      PROVE  MutexOwned'
  BY <1>1, <1>n DEF CancelStuck, LockTypeOK
<1>2. ASSUME NEW t \in Threads,
             \/ \E b \in BOOLEAN : PollEnter(t, b)
             \/ LockNotifications(t)
      PROVE  MutexOwned'
  BY <1>2, <1>n DEF PollEnter, LockNotifications
<1>3. ASSUME NEW t \in Threads, EndCancellations(t)
      PROVE  MutexOwned'
  BY <1>3, <1>n DEF EndCancellations, LeavePoll
<1>4. ASSUME NEW t \in Threads, EndNotifications(t)
      PROVE  MutexOwned'
  BY <1>4, <1>n DEF EndNotifications, LeavePoll
<1>5. ASSUME NEW t \in Threads,
             \/ StartWaiting(t) \/ EpollReturns(t) \/ EpollInterrupted(t)
             \/ StopWaiting(t) \/ CatchPollError(t)
      PROVE  MutexOwned'
  <2>1. /\ UNCHANGED <<mutex, spliceFd, cur>>
        /\ pollPc[t] \notin {"cancellations", "process"}
        /\ \E where \in PollPcs \ {"cancellations", "process"} :
              pollPc' = [pollPc EXCEPT ![t] = where]
    BY <1>5 DEF StartWaiting, EpollReturns, EpollInterrupted, StopWaiting,
                CatchPollError, PollPcs
  <2> QED
    BY <2>1
<1>6. ASSUME NEW t \in Threads, BeginEvent(t) \/ SkipItem(t)
      PROVE  MutexOwned'
  <2>1. pollPc[t] = "process" /\ UNCHANGED <<mutex, spliceFd, pollPc>>
    BY <1>6 DEF BeginEvent, SkipItem
  <2> QED
    BY <2>1
<1>7. ASSUME NEW t \in Threads, EndEvent(t)
      PROVE  MutexOwned'
  BY <1>7 DEF EndEvent
<1>8. ASSUME UNCHANGED <<mutex, spliceFd, cur, pollPc>>
      PROVE  MutexOwned'
  BY <1>8
<1>9. \/ \E a \in Actors, f \in Fds : CancelStuck(a, f)
      \/ \E t \in Threads : \/ \E b \in BOOLEAN : PollEnter(t, b)
                            \/ LockNotifications(t)
      \/ \E t \in Threads : EndCancellations(t) \/ EndNotifications(t)
      \/ \E t \in Threads : \/ StartWaiting(t) \/ EpollReturns(t)
                            \/ EpollInterrupted(t) \/ StopWaiting(t)
                            \/ CatchPollError(t)
      \/ \E t \in Threads : BeginEvent(t) \/ SkipItem(t)
      \/ \E t \in Threads : EndEvent(t)
      \/ UNCHANGED <<mutex, spliceFd, cur, pollPc>>
  BY StepCases
  DEF Schedule, Cancel, SpliceTurn, PostCancelled, ProcessWake, CompleteItem,
      BecomeReady, BecomeFailed
<1> QED
  BY <1>1, <1>2, <1>3, <1>4, <1>5, <1>6, <1>7, <1>8, <1>9

----------------------------------------------------------------------------
(* The order of the list *)

(* What the list holds are operations, and descriptors are numbers. *)
LEMMA ActiveFds ==
    ASSUME ListTypeOK
    PROVE  /\ active \in Seq(IoOps) /\ Len(active) \in Nat
           /\ \A i \in 1..Len(active) : /\ active[i] \in IoOps
                                        /\ OpFd[active[i]] \in Fds
                                        /\ OpFd[active[i]] \in Nat
<1>1. active \in Seq(IoOps) /\ Len(active) \in Nat
  BY DEF ListTypeOK
<1>2. \A i \in 1..Len(active) : active[i] \in IoOps
  BY <1>1, ElementOfSeq
<1>3. \A o \in IoOps : OpFd[o] \in Fds
  BY IoAssumption
<1>4. \A f \in Fds : f \in Nat
  BY IoAssumption
<1> QED
  BY <1>1, <1>2, <1>3, <1>4

(* schedule() finds the place where the new operation belongs. *)
LEMMA InsertPosition ==
    ASSUME ListTypeOK, SortedByFd, NEW f \in Fds,
           NEW p \in SearchPos(active, f), NEW q \in RunEnds(active, p, f)
    PROVE  /\ q \in 1..(Len(active) + 1)
           /\ \A i \in 1..(q - 1) : OpFd[active[i]] <= f
           /\ \A i \in q..Len(active) : OpFd[active[i]] >= f
<1>l. /\ active \in Seq(IoOps) /\ Len(active) \in Nat
      /\ \A i \in 1..Len(active) : OpFd[active[i]] \in Nat
  BY ActiveFds
<1>f. f \in Nat
  BY IoAssumption
<1>p. p \in 1..(Len(active) + 1)
  BY <1>l DEF SearchPos, LowerBounds
<1>q. /\ q \in p..(Len(active) + 1)
      /\ \A i \in p..(q - 1) : OpFd[active[i]] = f
  BY DEF RunEnds
<1>1. CASE active # <<>> /\ f <= OpFd[active[1]]
  <2>1. p = 1 /\ 1 \in 1..Len(active)
    BY <1>1, <1>l DEF SearchPos
  <2> QED
    BY <1>1, <1>l, <1>f, <1>q, <2>1 DEF SortedByFd
<1>2. CASE /\ ~ (active # <<>> /\ f <= OpFd[active[1]])
           /\ active # <<>> /\ f >= OpFd[active[Len(active)]]
  <2>1. p = Len(active) + 1 /\ q = Len(active) + 1
    BY <1>2, <1>l, <1>q DEF SearchPos
  <2>2. Len(active) \in 1..Len(active)
    BY <1>2, <1>l
  <2> QED
    BY <1>2, <1>l, <1>f, <2>1, <2>2 DEF SortedByFd
<1>3. CASE /\ ~ (active # <<>> /\ f <= OpFd[active[1]])
           /\ ~ (active # <<>> /\ f >= OpFd[active[Len(active)]])
  <2>1. p \in LowerBounds(active, f)
    BY <1>3 DEF SearchPos
  <2> QED
    BY <1>l, <1>f, <1>p, <1>q, <2>1 DEF LowerBounds
<1> QED
  BY <1>1, <1>2, <1>3

(***************************************************************************)
(* cancel() finds the operations of the descriptor in one piece: those     *)
(* before it are below the descriptor, those behind it above.              *)
(***************************************************************************)
LEMMA CancelRange ==
    ASSUME ListTypeOK, SortedByFd, NEW f \in Fds,
           NEW p \in LowerBounds(active, f), NEW q \in RunEnds(active, p, f)
    PROVE  /\ p \in 1..(Len(active) + 1) /\ q \in p..(Len(active) + 1)
           /\ \A i \in 1..(p - 1) : OpFd[active[i]] < f
           /\ \A i \in p..(q - 1) : OpFd[active[i]] = f
           /\ \A i \in q..Len(active) : OpFd[active[i]] > f
<1>l. /\ Len(active) \in Nat
      /\ \A i \in 1..Len(active) : OpFd[active[i]] \in Nat
  BY ActiveFds
<1>f. f \in Nat
  BY IoAssumption
<1>p. /\ p \in 1..(Len(active) + 1)
      /\ \A i \in 1..(p - 1) : OpFd[active[i]] < f
      /\ \A i \in p..Len(active) : OpFd[active[i]] >= f
  BY DEF LowerBounds
<1>q. /\ q \in p..(Len(active) + 1)
      /\ \A i \in p..(q - 1) : OpFd[active[i]] = f
      /\ q <= Len(active) => OpFd[active[q]] # f
  BY DEF RunEnds
<1>1. ASSUME NEW i \in q..Len(active)
      PROVE  OpFd[active[i]] > f
  <2>1. q \in 1..Len(active) /\ i \in 1..Len(active) /\ q <= i
    BY <1>l, <1>p, <1>q
  <2>2. OpFd[active[q]] > f
    BY <1>l, <1>f, <1>p, <1>q, <2>1
  <2>3. OpFd[active[q]] <= OpFd[active[i]]
    BY <2>1 DEF SortedByFd
  <2> QED
    BY <1>l, <1>f, <2>1, <2>2, <2>3
<1> QED
  BY <1>p, <1>q, <1>1

(***************************************************************************)
(* The list stays ordered: schedule() inserts in the right place, the      *)
(* other operations only take items out, and a splice that does not end    *)
(* rotates items of one descriptor at the end of the list.                 *)
(***************************************************************************)
LEMMA SortedStep ==
    ASSUME ListTypeOK, LockTypeOK, MutexOwned, SortedByFd, SpliceAtEnd,
           SchedulerStep
    PROVE  SortedByFd' /\ SpliceAtEnd'
<1> USE DEF listVars, lockVars, kernelVars, pollVars
<1>l. /\ active \in Seq(IoOps) /\ Len(active) \in Nat
      /\ \A i \in 1..Len(active) : OpFd[active[i]] \in Nat
  BY ActiveFds
<1>s. \A i, j \in 1..Len(active) :
         i <= j => OpFd[active[i]] <= OpFd[active[j]]
  BY DEF SortedByFd
<1>1. ASSUME NEW o \in IoOps, Schedule(o)
      PROVE  SortedByFd' /\ SpliceAtEnd'
  <2>1. PICK p \in SearchPos(active, OpFd[o]) :
             \E q \in RunEnds(active, p, OpFd[o]) :
                active' = InsertAt(active, q, o)
    BY <1>1 DEF Schedule
  <2>2. PICK q \in RunEnds(active, p, OpFd[o]) :
             active' = InsertAt(active, q, o)
    BY <2>1
  <2>f. OpFd[o] \in Fds /\ OpFd[o] \in Nat
    BY IoAssumption
  <2>3. /\ q \in 1..(Len(active) + 1)
        /\ \A i \in 1..(q - 1) : OpFd[active[i]] <= OpFd[o]
        /\ \A i \in q..Len(active) : OpFd[active[i]] >= OpFd[o]
    BY <2>f, InsertPosition
  <2>4. /\ Len(active') = Len(active) + 1
        /\ \A i \in 1..(Len(active) + 1) :
              active'[i] = IF i < q THEN active[i]
                           ELSE IF i = q THEN o ELSE active[i - 1]
    BY <1>l, <2>2, <2>3, InsertAtElements
  <2>5. SortedByFd'
    <3> SUFFICES ASSUME NEW i \in 1..(Len(active) + 1),
                        NEW j \in 1..(Len(active) + 1), i <= j
                 PROVE  OpFd[active'[i]] <= OpFd[active'[j]]
      BY <2>4 DEF SortedByFd
    <3>1. CASE j < q
      BY <1>l, <1>s, <2>3, <2>4, <3>1
    <3>2. CASE j = q
      <4>1. active'[j] = o
        BY <2>3, <2>4, <3>2
      <4>2. CASE i = q
        BY <2>f, <3>2, <4>1, <4>2
      <4>3. CASE i < q
        <5>1. i \in 1..(q - 1) /\ active'[i] = active[i]
          BY <2>3, <2>4, <4>3
        <5> QED
          BY <2>3, <4>1, <5>1
      <4> QED
        BY <2>3, <3>2, <4>2, <4>3
    <3>3. CASE j > q /\ i < q
      BY <1>l, <1>s, <2>3, <2>4, <3>3, SMTT(40)
    <3>4. CASE j > q /\ i = q
      <4>1. active'[i] = o
        BY <2>3, <2>4, <3>4
      <4>2. j - 1 \in q..Len(active) /\ active'[j] = active[j - 1]
        BY <1>l, <2>3, <2>4, <3>4
      <4>3. OpFd[active[j - 1]] >= OpFd[o]
        BY <2>3, <4>2
      <4> QED
        BY <1>l, <2>f, <2>3, <4>1, <4>2, <4>3
    <3>5. CASE j > q /\ i > q
      BY <1>l, <1>s, <2>3, <2>4, <3>5
    <3> QED
      BY <2>3, <3>1, <3>2, <3>3, <3>4, <3>5
  <2>6. spliceFd' = Nobody
    BY <1>1 DEF Schedule, MutexOwned
  <2> QED
    BY <2>5, <2>6 DEF SpliceAtEnd
<1>2. ASSUME NEW f \in Fds, Cancel(f)
      PROVE  SortedByFd' /\ SpliceAtEnd'
  <2>1. PICK p \in LowerBounds(active, f) :
             \E q \in RunEnds(active, p, f) :
                active' = SubSeq(active, 1, p - 1) \o
                          SubSeq(active, q, Len(active))
    BY <1>2 DEF Cancel
  <2>2. PICK q \in RunEnds(active, p, f) :
                active' = SubSeq(active, 1, p - 1) \o
                          SubSeq(active, q, Len(active))
    BY <2>1
  <2>3. p \in 1..(Len(active) + 1) /\ q \in p..(Len(active) + 1)
    BY DEF LowerBounds, RunEnds
  <2>4. /\ Len(active') = Len(active) - (q - p)
        /\ \A i \in 1..(Len(active) - (q - p)) :
              active'[i] = IF i < p THEN active[i] ELSE active[i + (q - p)]
    BY <1>l, <2>2, <2>3, CutElements
  <2>5. SortedByFd'
    <3> SUFFICES ASSUME NEW i \in 1..(Len(active) - (q - p)),
                        NEW j \in 1..(Len(active) - (q - p)), i <= j
                 PROVE  OpFd[active'[i]] <= OpFd[active'[j]]
      BY <2>4 DEF SortedByFd
    <3>1. PICK k \in 1..Len(active) : /\ active'[i] = active[k]
                                      /\ k = IF i < p THEN i ELSE i + (q - p)
      <4>1. CASE i < p
        BY <1>l, <2>3, <2>4, <4>1
      <4>2. CASE i >= p
        <5>1. /\ i + (q - p) \in 1..Len(active)
              /\ active'[i] = active[i + (q - p)]
          BY <1>l, <2>3, <2>4, <4>2
        <5>2. ~ (i < p)
          BY <1>l, <2>3, <2>4, <4>2
        <5> QED
          BY <5>1, <5>2
      <4> QED
        BY <1>l, <2>3, <2>4, <4>1, <4>2
    <3>2. PICK m \in 1..Len(active) : /\ active'[j] = active[m]
                                      /\ m = IF j < p THEN j ELSE j + (q - p)
      <4>1. CASE j < p
        BY <1>l, <2>3, <2>4, <4>1
      <4>2. CASE j >= p
        <5>1. /\ j + (q - p) \in 1..Len(active)
              /\ active'[j] = active[j + (q - p)]
          BY <1>l, <2>3, <2>4, <4>2
        <5>2. ~ (j < p)
          BY <1>l, <2>3, <2>4, <4>2
        <5> QED
          BY <5>1, <5>2
      <4> QED
        BY <1>l, <2>3, <2>4, <4>1, <4>2
    <3>3. k <= m
      BY <1>l, <2>3, <3>1, <3>2
    <3> QED
      BY <1>s, <3>1, <3>2, <3>3
  <2>6. spliceFd' = Nobody
    BY <1>2 DEF Cancel, MutexOwned
  <2> QED
    BY <2>5, <2>6 DEF SpliceAtEnd
<1>3. ASSUME NEW a \in Actors, NEW f \in Fds, CancelStuck(a, f)
      PROVE  SortedByFd' /\ SpliceAtEnd'
  <2>1. PICK p \in LowerBounds(active, f) :
             \E q \in RunEnds(active, p, f) : q = Len(active) + 1
    BY <1>3 DEF CancelStuck, SpliceNeverEnds
  <2>2. /\ \A i \in 1..(p - 1) : OpFd[active[i]] < f
        /\ \A i \in p..Len(active) : OpFd[active[i]] = f
        /\ p \in 1..(Len(active) + 1)
    BY <1>l, <2>1 DEF LowerBounds, RunEnds
  <2>3. f \in Nat
    BY IoAssumption
  <2>4. \A i \in 1..Len(active) : OpFd[active[i]] <= f
    BY <1>l, <2>2, <2>3
  <2>5. UNCHANGED active /\ spliceFd' = f
    BY <1>3 DEF CancelStuck
  <2> QED
    BY <2>4, <2>5 DEF SortedByFd, SpliceAtEnd
<1>4. ASSUME NEW a \in Actors, SpliceTurn(a)
      PROVE  SortedByFd' /\ SpliceAtEnd'
  <2>1. PICK p \in LowerBounds(active, spliceFd) \cap (1..Len(active)) :
             active' = Append(RemoveAt(active, p), active[p])
    BY <1>4 DEF SpliceTurn
  <2>f. spliceFd \in Nat /\ spliceFd # Nobody
    BY <1>4, IoAssumption DEF SpliceTurn, LockTypeOK
  <2>2. /\ \A i \in p..Len(active) : OpFd[active[i]] = spliceFd
        /\ \A i \in 1..Len(active) : OpFd[active[i]] <= spliceFd
    BY <1>l, <2>1, <2>f DEF LowerBounds, SpliceAtEnd
  <2>3. /\ RemoveAt(active, p) \in Seq(IoOps)
        /\ Len(RemoveAt(active, p)) = Len(active) - 1
        /\ \A i \in 1..(Len(active) - 1) :
              RemoveAt(active, p)[i]
                = IF i < p THEN active[i] ELSE active[i + 1]
    BY <1>l, <2>1, RemoveAtElements
  <2>4. active[p] \in IoOps
    BY <1>l, <2>1, ElementOfSeq
  <2>5. /\ Len(active') = Len(active)
        /\ \A i \in 1..(Len(active) - 1) :
              active'[i] = IF i < p THEN active[i] ELSE active[i + 1]
        /\ active'[Len(active)] = active[p]
    BY <1>l, <2>1, <2>3, <2>4, AppendProperties
  <2>6. \A i \in 1..Len(active) : OpFd[active'[i]] = OpFd[active[i]]
    <3> SUFFICES ASSUME NEW i \in 1..Len(active)
                 PROVE  OpFd[active'[i]] = OpFd[active[i]]
      OBVIOUS
    <3>1. CASE i = Len(active)
      BY <1>l, <2>1, <2>2, <2>5, <3>1
    <3>2. CASE i < p /\ i # Len(active)
      BY <1>l, <2>5, <3>2
    <3>3. CASE i >= p /\ i # Len(active)
      <4>1. /\ i \in p..Len(active) /\ i + 1 \in p..Len(active)
            /\ active'[i] = active[i + 1]
        BY <1>l, <2>1, <2>5, <3>3
      <4> QED
        BY <2>2, <4>1
    <3>4. i < p \/ i >= p
      OBVIOUS
    <3> QED
      BY <3>1, <3>2, <3>3, <3>4, Zenon
  <2>7. spliceFd' = spliceFd
    BY <1>4 DEF SpliceTurn
  <2> QED
    BY <1>s, <2>2, <2>5, <2>6, <2>7 DEF SortedByFd, SpliceAtEnd
<1>5. ASSUME NEW t \in Threads, CompleteItem(t)
      PROVE  SortedByFd' /\ SpliceAtEnd'
  <2>1. cur.next \in 1..Len(active)
    BY <1>l, <1>5 DEF CompleteItem, HasItem, LockTypeOK, Cursor
  <2>2. active' = RemoveAt(active, cur.next)
    BY <1>5 DEF CompleteItem
  <2>3. /\ Len(active') = Len(active) - 1
        /\ \A i \in 1..(Len(active) - 1) :
              active'[i] = IF i < cur.next THEN active[i] ELSE active[i + 1]
    BY <1>l, <2>1, <2>2, RemoveAtElements
  <2>4. SortedByFd'
    <3> SUFFICES ASSUME NEW i \in 1..(Len(active) - 1),
                        NEW j \in 1..(Len(active) - 1), i <= j
                 PROVE  OpFd[active'[i]] <= OpFd[active'[j]]
      BY <2>3 DEF SortedByFd
    <3>1. PICK k \in 1..Len(active) : /\ active'[i] = active[k]
                                      /\ k = IF i < cur.next THEN i ELSE i + 1
      <4>1. CASE i < cur.next
        BY <1>l, <2>1, <2>3, <4>1
      <4>2. CASE i >= cur.next
        <5>1. /\ i + 1 \in 1..Len(active)
              /\ active'[i] = active[i + 1]
          BY <1>l, <2>1, <2>3, <4>2
        <5>2. ~ (i < cur.next)
          BY <1>l, <2>1, <2>3, <4>2
        <5> QED
          BY <5>1, <5>2
      <4> QED
        BY <1>l, <2>1, <2>3, <4>1, <4>2
    <3>2. PICK m \in 1..Len(active) : /\ active'[j] = active[m]
                                      /\ m = IF j < cur.next THEN j ELSE j + 1
      <4>1. CASE j < cur.next
        BY <1>l, <2>1, <2>3, <4>1
      <4>2. CASE j >= cur.next
        <5>1. /\ j + 1 \in 1..Len(active)
              /\ active'[j] = active[j + 1]
          BY <1>l, <2>1, <2>3, <4>2, SMTT(40)
        <5>2. ~ (j < cur.next)
          BY <1>l, <2>1, <2>3, <4>2
        <5> QED
          BY <5>1, <5>2
      <4> QED
        BY <1>l, <2>1, <2>3, <4>1, <4>2
    <3>3. k <= m
      BY <1>l, <2>1, <3>1, <3>2
    <3> QED
      BY <1>s, <3>1, <3>2, <3>3
  <2>5. spliceFd' = Nobody
    BY <1>5 DEF CompleteItem, MutexOwned
  <2> QED
    BY <2>4, <2>5 DEF SpliceAtEnd
<1>6. ASSUME UNCHANGED <<active, spliceFd>>
      PROVE  SortedByFd' /\ SpliceAtEnd'
  BY <1>6 DEF SortedByFd, SpliceAtEnd
<1>7. \/ \E o \in IoOps : Schedule(o)
      \/ \E f \in Fds : Cancel(f)
      \/ \E a \in Actors, f \in Fds : CancelStuck(a, f)
      \/ \E a \in Actors : SpliceTurn(a)
      \/ \E t \in Threads : CompleteItem(t)
      \/ UNCHANGED <<active, spliceFd>>
  BY StepCases, ZenonT(60)
  DEF PollEnter, PostCancelled, EndCancellations, StartWaiting, EpollReturns,
      EpollInterrupted, StopWaiting, LockNotifications, ProcessWake,
      BeginEvent, SkipItem, EndEvent, EndNotifications, CatchPollError,
      BecomeReady, BecomeFailed
<1> QED
  BY <1>1, <1>2, <1>3, <1>4, <1>5, <1>6, <1>7

----------------------------------------------------------------------------
(* The cursor of process_notifications() and the registrations *)

(* While the lock is free, or a splice holds it, nobody has a cursor. *)
LEMMA IdleCursor ==
    ASSUME MutexOwned, mutex = Nobody \/ spliceFd # Nobody
    PROVE  cur = NoCursor
<1>1. \A t \in Threads : t # Nobody
  BY IoAssumption DEF Actors
<1> QED
  BY <1>1 DEF MutexOwned

LEMMA CursorStep ==
    ASSUME ListTypeOK, LockTypeOK, PollTypeOK, MutexOwned, SortedByFd,
           CursorSound, PendingIsRegistered, SchedulerStep
    PROVE  CursorSound'
<1> USE DEF listVars, lockVars, kernelVars, pollVars
<1>l. /\ active \in Seq(IoOps) /\ Len(active) \in Nat
      /\ \A i \in 1..Len(active) : /\ OpFd[active[i]] \in Fds
                                   /\ OpFd[active[i]] \in Nat
  BY ActiveFds
<1>c. /\ cur.next \in Nat \ {0} /\ cur.fd \in Fds \cup {Nobody}
      /\ cur = [fd |-> cur.fd, readable |-> cur.readable,
                next |-> cur.next, rereg |-> cur.rereg]
  BY DEF LockTypeOK, Cursor
<1>1. ASSUME cur' = NoCursor
      PROVE  CursorSound'
  BY <1>1 DEF CursorSound, NoCursor
<1>2. ASSUME NEW t \in Threads, BeginEvent(t)
      PROVE  CursorSound'
  <2>1. PICK e \in events[t] :
             /\ e.fd # WakeFd
             /\ \E p \in LowerBounds(active, e.fd) :
                   cur' = [fd |-> e.fd, readable |-> e.readable,
                           next |-> p, rereg |-> {}]
    BY <1>2 DEF BeginEvent
  <2>2. e.fd \in Fds /\ e.fd # Nobody
    BY <2>1, IoAssumption DEF PollTypeOK, Event
  <2>3. PICK p \in LowerBounds(active, e.fd) :
             cur' = [fd |-> e.fd, readable |-> e.readable,
                     next |-> p, rereg |-> {}]
    BY <2>1
  <2>4. /\ p \in 1..(Len(active) + 1)
        /\ \A i \in 1..(p - 1) : OpFd[active[i]] < e.fd
        /\ \A i \in p..Len(active) : OpFd[active[i]] >= e.fd
    BY DEF LowerBounds
  <2>5. UNCHANGED <<active, interest>>
    BY <1>2 DEF BeginEvent
  <2>6. ASSUME NEW i \in p..Len(active), OpFd[active[i]] = e.fd
        PROVE  interest[e.fd] # {}
    <3>1. e.fd \in SettledFds
      BY <1>2, <2>2 DEF BeginEvent, NoCursor, SettledFds
    <3>2. i \in 1..Len(active)
      BY <1>l, <2>4
    <3>3. Dir(active[i]) \in Wanted(e.fd)
      BY <2>6, <3>2 DEF Wanted
    <3> QED
      BY <3>1, <3>3 DEF PendingIsRegistered
  <2>7. /\ cur'.fd = e.fd /\ cur'.next = p /\ cur'.rereg = {}
    BY <2>3
  <2>8. p <= Len(active) + 1
    BY <1>l, <2>4
  <2> QED
    BY <2>2, <2>4, <2>5, <2>6, <2>7, <2>8 DEF CursorSound
<1>3. ASSUME NEW t \in Threads, SkipItem(t)
      PROVE  CursorSound'
  <2>1. /\ cur.fd # Nobody /\ cur.next <= Len(active)
        /\ OpFd[active[cur.next]] = cur.fd
        /\ UNCHANGED <<active, interest>>
    BY <1>3 DEF SkipItem, HasItem
  <2>2. PICK d \in Direction :
             cur' = [cur EXCEPT !.next = @ + 1, !.rereg = @ \cup {d}]
    BY <1>3, DirType DEF SkipItem
  <2>3. /\ cur'.fd = cur.fd /\ cur'.next = cur.next + 1
        /\ cur'.rereg # {}
    BY <1>c, <2>2
  <2>4. cur.next \in cur.next..Len(active)
    BY <1>l, <1>c, <2>1
  <2>5. interest[cur.fd] # {}
    BY <2>1, <2>4 DEF CursorSound
  <2>6. \A i \in (cur.next + 1)..Len(active) : OpFd[active[i]] >= cur.fd
    BY <1>l, <1>c, <2>1 DEF CursorSound
  <2>7. cur.next + 1 <= Len(active) + 1
    BY <1>l, <1>c, <2>1
  <2> QED
    BY <2>1, <2>3, <2>5, <2>6, <2>7 DEF CursorSound
<1>4. ASSUME NEW t \in Threads, CompleteItem(t)
      PROVE  CursorSound'
  <2>1. /\ cur.fd # Nobody /\ cur.next \in 1..Len(active)
        /\ UNCHANGED <<cur, interest>>
        /\ active' = RemoveAt(active, cur.next)
    BY <1>c, <1>l, <1>4 DEF CompleteItem, HasItem
  <2>2. /\ Len(active') = Len(active) - 1
        /\ \A i \in 1..(Len(active) - 1) :
              active'[i] = IF i < cur.next THEN active[i] ELSE active[i + 1]
    BY <1>l, <2>1, RemoveAtElements
  <2>3. \A i \in cur.next..Len(active') :
           /\ i + 1 \in cur.next..Len(active)
           /\ active'[i] = active[i + 1]
    BY <1>l, <2>1, <2>2
  <2>4. \A i \in 1..(cur.next - 1) : active'[i] = active[i]
    BY <1>l, <2>1, <2>2
  <2>5. cur.next <= Len(active') + 1
    BY <1>l, <2>1, <2>2
  <2>6. \A i \in cur.next..Len(active') : OpFd[active'[i]] >= cur.fd
    BY <2>1, <2>3 DEF CursorSound
  <2>7. cur.rereg = {} =>
           \A i \in 1..(cur.next - 1) : OpFd[active'[i]] < cur.fd
    BY <2>1, <2>4 DEF CursorSound
  <2>8. (\/ cur.rereg # {}
         \/ \E i \in cur.next..Len(active') : OpFd[active'[i]] = cur.fd)
           => interest[cur.fd] # {}
    BY <2>1, <2>3 DEF CursorSound
  <2> QED
    BY <2>1, <2>5, <2>6, <2>7, <2>8 DEF CursorSound
<1>5. ASSUME UNCHANGED <<active, cur, interest>>
      PROVE  CursorSound'
  BY <1>5 DEF CursorSound
<1>6. \/ \E t \in Threads : BeginEvent(t) \/ SkipItem(t) \/ CompleteItem(t)
      \/ cur' = NoCursor
      \/ UNCHANGED <<active, cur, interest>>
  BY StepCases, IdleCursor, ZenonT(60)
  DEF Schedule, Cancel, CancelStuck, SpliceTurn, PollEnter, PostCancelled,
      EndCancellations, StartWaiting, EpollReturns, EpollInterrupted,
      StopWaiting, LockNotifications, ProcessWake, EndEvent,
      EndNotifications, CatchPollError, BecomeReady, BecomeFailed
<1> QED
  BY <1>1, <1>2, <1>3, <1>4, <1>5, <1>6

(***************************************************************************)
(* No settled descriptor loses its registration while an operation of it   *)
(* is active: the thread that processes an event puts the registration     *)
(* back, or has seen that nothing is left, before it moves on.             *)
(***************************************************************************)
LEMMA RegisteredStep ==
    ASSUME ListTypeOK, LockTypeOK, KernelTypeOK, PollTypeOK, MutexOwned,
           SortedByFd, CursorSound, PendingIsRegistered, SchedulerStep
    PROVE  PendingIsRegistered'
<1> USE DEF listVars, lockVars, kernelVars, pollVars
<1>l. /\ active \in Seq(IoOps) /\ Len(active) \in Nat
      /\ \A i \in 1..Len(active) : /\ OpFd[active[i]] \in Fds
                                   /\ OpFd[active[i]] \in Nat
  BY ActiveFds
<1>r. ASSUME NEW i \in 1..Len(active), OpFd[active[i]] # cur.fd
      PROVE  interest[OpFd[active[i]]] # {}
  <2>1. OpFd[active[i]] \in SettledFds
    BY <1>l, <1>r DEF SettledFds
  <2>2. Dir(active[i]) \in Wanted(OpFd[active[i]])
    BY DEF Wanted
  <2> QED
    BY <2>1, <2>2 DEF PendingIsRegistered
<1>s. ASSUME \A i \in 1..Len(active') :
                \/ OpFd[active'[i]] = cur'.fd
                \/ interest'[OpFd[active'[i]]] # {}
      PROVE  PendingIsRegistered'
  BY <1>s DEF PendingIsRegistered, SettledFds, Wanted
<1>n. NoCursor.fd = Nobody /\ \A f \in Fds : f # Nobody
  BY IoAssumption DEF NoCursor
<1>1. ASSUME NEW o \in IoOps, Schedule(o)
      PROVE  PendingIsRegistered'
  <2>1. PICK p \in SearchPos(active, OpFd[o]) :
             \E q \in RunEnds(active, p, OpFd[o]) :
                /\ active' = InsertAt(active, q, o)
                /\ interest' = [interest EXCEPT ![OpFd[o]] =
                       {Dir(o)} \cup {Dir(active[i]) : i \in p..(q - 1)}]
    BY <1>1 DEF Schedule
  <2>2. PICK q \in RunEnds(active, p, OpFd[o]) :
                /\ active' = InsertAt(active, q, o)
                /\ interest' = [interest EXCEPT ![OpFd[o]] =
                       {Dir(o)} \cup {Dir(active[i]) : i \in p..(q - 1)}]
    BY <2>1
  <2>f. OpFd[o] \in Fds
    BY IoAssumption
  <2>3. q \in 1..(Len(active) + 1)
    BY <2>f, InsertPosition
  <2>4. /\ Len(active') = Len(active) + 1
        /\ \A i \in 1..(Len(active) + 1) :
              active'[i] = IF i < q THEN active[i]
                           ELSE IF i = q THEN o ELSE active[i - 1]
    BY <1>l, <2>2, <2>3, InsertAtElements, SMTT(40)
  <2>5. interest'[OpFd[o]] # {}
    BY <2>2, <2>f DEF KernelTypeOK
  <2>6. \A f \in Fds : f # OpFd[o] => interest'[f] = interest[f]
    BY <2>2 DEF KernelTypeOK
  <2>7. cur = NoCursor
    BY <1>1, IdleCursor DEF Schedule
  <2>8. ASSUME NEW i \in 1..Len(active')
        PROVE  interest'[OpFd[active'[i]]] # {}
    <3>1. CASE active'[i] = o
      BY <2>5, <3>1
    <3>2. CASE active'[i] # o
      <4>1. PICK k \in 1..Len(active) : active'[i] = active[k]
        <5>1. CASE i < q
          BY <1>l, <2>3, <2>4, <5>1
        <5>2. CASE i > q
          <6>1. i - 1 \in 1..Len(active) /\ active'[i] = active[i - 1]
            BY <1>l, <2>3, <2>4, <5>2
          <6> QED
            BY <6>1
        <5> QED
          BY <1>l, <2>3, <2>4, <3>2, <5>1, <5>2
      <4>2. OpFd[active[k]] \in Fds
        BY <1>l
      <4>3. interest[OpFd[active[k]]] # {}
        BY <1>r, <1>n, <2>7, <4>2
      <4> QED
        BY <2>5, <2>6, <4>1, <4>2, <4>3
    <3> QED
      BY <3>1, <3>2
  <2> QED
    BY <1>s, <2>8
<1>2. ASSUME NEW f \in Fds, Cancel(f)
      PROVE  PendingIsRegistered'
  <2>1. PICK p \in LowerBounds(active, f) :
             \E q \in RunEnds(active, p, f) :
                active' = SubSeq(active, 1, p - 1) \o
                          SubSeq(active, q, Len(active))
    BY <1>2 DEF Cancel
  <2>2. PICK q \in RunEnds(active, p, f) :
                active' = SubSeq(active, 1, p - 1) \o
                          SubSeq(active, q, Len(active))
    BY <2>1
  <2>3. /\ p \in 1..(Len(active) + 1) /\ q \in p..(Len(active) + 1)
        /\ \A i \in 1..(p - 1) : OpFd[active[i]] < f
        /\ \A i \in q..Len(active) : OpFd[active[i]] > f
    BY CancelRange
  <2>p. p \in 1..(Len(active) + 1) /\ q \in p..(Len(active) + 1)
    BY <2>3
  <2>4. /\ Len(active') = Len(active) - (q - p)
        /\ \A i \in 1..(Len(active) - (q - p)) :
              active'[i] = IF i < p THEN active[i] ELSE active[i + (q - p)]
    BY <1>l, <2>2, <2>p, CutElements
  <2>5. \A g \in Fds : g # f => interest'[g] = interest[g]
    BY <1>2 DEF Cancel, Deregister, KernelTypeOK
  <2>6. cur = NoCursor
    BY <1>2, IdleCursor DEF Cancel
  <2>f. f \in Nat
    BY IoAssumption
  <2>7. ASSUME NEW i \in 1..Len(active')
        PROVE  interest'[OpFd[active'[i]]] # {}
    <3>1. PICK k \in 1..Len(active) :
               active'[i] = active[k] /\ OpFd[active[k]] # f
      <4>1. CASE i < p
        <5>1. /\ i \in 1..(p - 1) /\ i \in 1..Len(active)
              /\ active'[i] = active[i]
          BY <1>l, <2>3, <2>4, <4>1
        <5>2. OpFd[active[i]] # f
          BY <1>l, <2>f, <2>3, <5>1
        <5> QED
          BY <5>1, <5>2
      <4>2. CASE i >= p
        <5>1. /\ i + (q - p) \in q..Len(active)
              /\ i + (q - p) \in 1..Len(active)
              /\ active'[i] = active[i + (q - p)]
          BY <1>l, <2>3, <2>4, <4>2
        <5>2. OpFd[active[i + (q - p)]] # f
          BY <1>l, <2>f, <2>3, <5>1
        <5> QED
          BY <5>1, <5>2
      <4>3. i < p \/ i >= p
        BY <1>l, <2>3, <2>4
      <4> QED
        BY <4>1, <4>2, <4>3, Zenon
    <3>2. OpFd[active[k]] \in Fds
      BY <1>l
    <3>3. interest[OpFd[active[k]]] # {}
      BY <1>r, <1>n, <2>6, <3>2
    <3> QED
      BY <2>5, <3>1, <3>2, <3>3
  <2> QED
    BY <1>s, <2>7
<1>3. ASSUME NEW a \in Actors, SpliceTurn(a)
      PROVE  PendingIsRegistered'
  <2>1. PICK p \in 1..Len(active) :
             active' = Append(RemoveAt(active, p), active[p])
    BY <1>3 DEF SpliceTurn
  <2>2. /\ RemoveAt(active, p) \in Seq(IoOps)
        /\ Len(RemoveAt(active, p)) = Len(active) - 1
        /\ \A i \in 1..(Len(active) - 1) :
              RemoveAt(active, p)[i]
                = IF i < p THEN active[i] ELSE active[i + 1]
    BY <1>l, RemoveAtElements
  <2>3. active[p] \in IoOps
    BY <1>l, ElementOfSeq
  <2>4. /\ Len(active') = Len(active)
        /\ \A i \in 1..(Len(active) - 1) :
              active'[i] = IF i < p THEN active[i] ELSE active[i + 1]
        /\ active'[Len(active)] = active[p]
    BY <1>l, <2>1, <2>2, <2>3, AppendProperties
  <2>5. UNCHANGED <<cur, interest>>
    BY <1>3 DEF SpliceTurn
  <2>6. ASSUME NEW i \in 1..Len(active')
        PROVE  \E k \in 1..Len(active) : active'[i] = active[k]
    <3>1. CASE i = Len(active)
      BY <2>4, <3>1
    <3>2. CASE i # Len(active) /\ i < p
      BY <1>l, <2>4, <3>2
    <3>3. CASE i # Len(active) /\ ~ (i < p)
      <4>1. i + 1 \in 1..Len(active) /\ active'[i] = active[i + 1]
        BY <1>l, <2>4, <3>3
      <4> QED
        BY <4>1
    <3> QED
      BY <3>1, <3>2, <3>3
  <2> QED
    BY <1>r, <1>s, <2>5, <2>6
<1>4. ASSUME NEW t \in Threads, CompleteItem(t)
      PROVE  PendingIsRegistered'
  <2>1. /\ cur.next \in 1..Len(active)
        /\ UNCHANGED <<cur, interest>>
        /\ active' = RemoveAt(active, cur.next)
    BY <1>l, <1>4 DEF CompleteItem, HasItem, LockTypeOK, Cursor
  <2>2. /\ Len(active') = Len(active) - 1
        /\ \A i \in 1..(Len(active) - 1) :
              active'[i] = IF i < cur.next THEN active[i] ELSE active[i + 1]
    BY <1>l, <2>1, RemoveAtElements
  <2>3. ASSUME NEW i \in 1..Len(active')
        PROVE  \E k \in 1..Len(active) : active'[i] = active[k]
    <3>1. CASE i < cur.next
      BY <1>l, <2>1, <2>2, <3>1
    <3>2. CASE ~ (i < cur.next)
      <4>1. i + 1 \in 1..Len(active) /\ active'[i] = active[i + 1]
        BY <1>l, <2>2, <3>2
      <4> QED
        BY <4>1
    <3> QED
      BY <3>1, <3>2
  <2> QED
    BY <1>r, <1>s, <2>1, <2>3
<1>5. ASSUME NEW t \in Threads, BeginEvent(t)
      PROVE  PendingIsRegistered'
  <2>1. cur = NoCursor /\ UNCHANGED <<active, interest>>
    BY <1>5 DEF BeginEvent
  <2> QED
    BY <1>l, <1>n, <1>r, <1>s, <2>1
<1>6. ASSUME NEW t \in Threads, SkipItem(t)
      PROVE  PendingIsRegistered'
  <2>1. UNCHANGED <<active, interest>>
    BY <1>6 DEF SkipItem
  <2>2. PICK d \in Direction :
             cur' = [cur EXCEPT !.next = @ + 1, !.rereg = @ \cup {d}]
    BY <1>6, DirType DEF SkipItem
  <2>3. cur'.fd = cur.fd
    BY <2>2 DEF LockTypeOK, Cursor
  <2> QED
    BY <1>r, <1>s, <2>1, <2>3
<1>7. ASSUME NEW t \in Threads, EndEvent(t)
      PROVE  PendingIsRegistered'
  <2>1. cur.fd # Nobody /\ ~ HasItem /\ UNCHANGED active
    BY <1>7 DEF EndEvent
  <2>f. cur.fd \in Fds /\ cur.fd \in Nat /\ cur.next \in Nat \ {0}
    BY <2>1, IoAssumption DEF LockTypeOK, Cursor
  <2>2. \A g \in Fds : g # cur.fd => interest'[g] = interest[g]
    BY <1>7, <2>f DEF EndEvent, Deregister, Reregister, KernelTypeOK
  <2>3. ASSUME NEW i \in 1..Len(active), OpFd[active[i]] = cur.fd
        PROVE  interest'[cur.fd] # {}
    <3>1. CASE cur.rereg # {}
      BY <1>7, <2>f, <3>1 DEF EndEvent, Reregister, KernelTypeOK
    <3>2. CASE cur.rereg = {}
      <4>1. ~ (i < cur.next)
        BY <1>l, <2>1, <2>f, <2>3, <3>2 DEF CursorSound
      <4>2. cur.next \in 1..Len(active) /\ cur.next <= i
        BY <1>l, <2>f, <4>1
      <4>3. OpFd[active[cur.next]] <= cur.fd
        BY <2>3, <4>2 DEF SortedByFd
      <4>4. OpFd[active[cur.next]] >= cur.fd
        BY <1>l, <2>1, <2>f, <4>2 DEF CursorSound
      <4>5. OpFd[active[cur.next]] = cur.fd
        BY <1>l, <2>f, <4>2, <4>3, <4>4
      <4> QED
        BY <1>l, <2>1, <4>2, <4>5 DEF HasItem
    <3> QED
      BY <3>1, <3>2
  <2> QED
    BY <1>l, <1>r, <1>s, <2>1, <2>2, <2>3
<1>8. ASSUME UNCHANGED <<active, cur, interest>>
      PROVE  PendingIsRegistered'
  BY <1>r, <1>s, <1>8
<1>9. \/ \E o \in IoOps : Schedule(o)
      \/ \E f \in Fds : Cancel(f)
      \/ \E a \in Actors : SpliceTurn(a)
      \/ \E t \in Threads : \/ CompleteItem(t) \/ BeginEvent(t)
                            \/ SkipItem(t) \/ EndEvent(t)
      \/ UNCHANGED <<active, cur, interest>>
  BY StepCases, ZenonT(60)
  DEF CancelStuck, PollEnter, PostCancelled, EndCancellations, StartWaiting,
      EpollReturns, EpollInterrupted, StopWaiting, LockNotifications,
      ProcessWake, EndNotifications, CatchPollError, BecomeReady, BecomeFailed
<1> QED
  BY <1>1, <1>2, <1>3, <1>4, <1>5, <1>6, <1>7, <1>8, <1>9

----------------------------------------------------------------------------
(* Contracts *)

(***************************************************************************)
(* No EXIOS_EXPECT of the scheduler fails: the counters are exact, and a   *)
(* descriptor that is registered again still has its registration.         *)
(***************************************************************************)
LEMMA ContractStep ==
    ASSUME ListTypeOK, LockTypeOK, PollLengthExact, CursorSound,
           NoContractFailure, SchedulerStep
    PROVE  NoContractFailure'
<1> USE DEF listVars, lockVars, kernelVars, pollVars
<1>l. /\ Len(active) \in Nat /\ Len(cancelled) \in Nat
      /\ pollLen \in Nat /\ count \in Nat
      /\ pollLen = Len(active) + Len(cancelled) + count
  BY DEF ListTypeOK, PollLengthExact
<1>c. pollLen >= count
  BY <1>l
<1>1. ASSUME NEW t \in Threads, EndCancellations(t)
      PROVE  ~ aborted'
  <2>1. active = <<>> => pollLen - count = 0
    BY <1>1, <1>l DEF EndCancellations
  <2>2. pollLen' = pollLen - count
    BY <1>1 DEF EndCancellations, DecrementCount
  <2>3. CASE active = <<>>
    <3>1. Expect(pollLen >= count /\ pollLen' = 0)
      BY <1>1, <2>3 DEF EndCancellations
    <3>2. pollLen' = 0
      BY <2>1, <2>2, <2>3
    <3> QED
      BY <1>c, <3>1, <3>2 DEF Expect, NoContractFailure
  <2>4. CASE active # <<>>
    <3>1. Expect(pollLen >= count)
      BY <1>1, <2>4 DEF EndCancellations
    <3> QED
      BY <1>c, <3>1 DEF Expect, NoContractFailure
  <2> QED
    BY <2>3, <2>4
<1>2. ASSUME NEW t \in Threads, EndNotifications(t)
      PROVE  ~ aborted'
  <2>1. Expect(pollLen >= count)
    BY <1>2 DEF EndNotifications
  <2> QED
    BY <1>c, <2>1 DEF Expect, NoContractFailure
<1>3. ASSUME NEW t \in Threads, EndEvent(t)
      PROVE  ~ aborted'
  <2>1. cur.rereg # {} => interest[cur.fd] # {}
    BY <1>3 DEF EndEvent, CursorSound
  <2>3. CASE cur.rereg = {}
    <3>1. UNCHANGED aborted
      BY <1>3, <2>3 DEF EndEvent
    <3> QED
      BY <3>1 DEF NoContractFailure
  <2>4. CASE cur.rereg # {}
    <3>1. Expect(interest[cur.fd] # {})
      BY <1>3, <2>4 DEF EndEvent
    <3> QED
      BY <2>1, <2>4, <3>1 DEF Expect, NoContractFailure
  <2> QED
    BY <2>3, <2>4
<1>4. \/ \E t \in Threads : \/ EndCancellations(t) \/ EndNotifications(t)
                            \/ EndEvent(t)
      \/ UNCHANGED aborted
  BY StepCases
  DEF Schedule, Cancel, CancelStuck, SpliceTurn, PollEnter, PostCancelled,
      StartWaiting, EpollReturns, EpollInterrupted, StopWaiting,
      LockNotifications, ProcessWake, BeginEvent, SkipItem, CompleteItem,
      CatchPollError, BecomeReady, BecomeFailed
<1> QED
  BY <1>1, <1>2, <1>3, <1>4 DEF NoContractFailure

----------------------------------------------------------------------------
(* The inductive invariant *)

LEMMA InvInit == IoInit => IoInv
<1> SUFFICES ASSUME IoInit PROVE IoInv
  OBVIOUS
<1>1. SchedulerTypeOK /\ PollLengthExact /\ WaitingExact
  BY CountInit DEF CountInv
<1>2. MutexOwned /\ SpliceAtEnd /\ NoContractFailure
  BY DEF IoInit, MutexOwned, SpliceAtEnd, NoContractFailure
<1>3. SortedByFd /\ PendingIsRegistered
  BY DEF IoInit, SortedByFd, PendingIsRegistered, Wanted
<1>4. CursorSound
  BY DEF IoInit, CursorSound, NoCursor
<1> QED
  BY <1>1, <1>2, <1>3, <1>4 DEF IoInv

LEMMA InvStep == IoInv /\ SchedulerStep => IoInv'
<1> SUFFICES ASSUME IoInv, SchedulerStep PROVE IoInv'
  OBVIOUS
<1>1. CountInv'
  BY CountStep DEF IoInv, CountInv
<1>2. MutexOwned'
  BY MutexStep DEF IoInv, SchedulerTypeOK
<1>3. SortedByFd' /\ SpliceAtEnd'
  BY SortedStep DEF IoInv, SchedulerTypeOK
<1>4. CursorSound'
  BY CursorStep DEF IoInv, SchedulerTypeOK
<1>5. PendingIsRegistered'
  BY RegisteredStep DEF IoInv, SchedulerTypeOK
<1>6. NoContractFailure'
  BY ContractStep DEF IoInv, SchedulerTypeOK
<1> QED
  BY <1>1, <1>2, <1>3, <1>4, <1>5, <1>6 DEF IoInv, CountInv

LEMMA InvStutter == IoInv /\ UNCHANGED ioVars => IoInv'
<1> SUFFICES ASSUME IoInv, UNCHANGED ioVars PROVE IoInv'
  OBVIOUS
<1>1. CountInv'
  BY CountStutter DEF IoInv, CountInv
<1>2. MutexOwned' /\ SortedByFd' /\ SpliceAtEnd'
  BY DEF IoInv, MutexOwned, SortedByFd, SpliceAtEnd, ioVars, listVars,
         lockVars, kernelVars, pollVars
<1>3. CursorSound' /\ PendingIsRegistered' /\ NoContractFailure'
  BY DEF IoInv, CursorSound, PendingIsRegistered, SettledFds, Wanted,
         NoContractFailure, ioVars, listVars, lockVars, kernelVars, pollVars
<1> QED
  BY <1>1, <1>2, <1>3 DEF IoInv, CountInv

(***************************************************************************)
(* The whole inductive invariant of the scheduler holds in every reachable *)
(* state, however many threads poll and however schedule() and cancel()    *)
(* come in between.                                                        *)
(***************************************************************************)
THEOREM SchedulerInvariant == IoSpec => []IoInv
<1>1. IoInit => IoInv
  BY InvInit
<1>2. IoInv /\ [IoNext]_ioVars => IoInv'
  BY InvStep, InvStutter, NextIsSchedulerStep
<1> QED
  BY <1>1, <1>2, PTL DEF IoSpec

(***************************************************************************)
(* The list that the binary searches of schedule(), cancel() and           *)
(* process_notifications() rely on is always ordered by descriptor.        *)
(***************************************************************************)
THEOREM ListIsSorted == IoSpec => []SortedByFd
<1>1. IoInv => SortedByFd
  BY DEF IoInv
<1> QED
  BY <1>1, SchedulerInvariant, PTL

(***************************************************************************)
(* A descriptor with an active operation is registered with epoll whenever *)
(* no thread is processing an event of it.                                 *)
(***************************************************************************)
THEOREM PendingStaysRegistered == IoSpec => []PendingIsRegistered
<1>1. IoInv => PendingIsRegistered
  BY DEF IoInv
<1> QED
  BY <1>1, SchedulerInvariant, PTL

(***************************************************************************)
(* With descriptors that stay open no EXIOS_EXPECT of io_scheduler.cpp     *)
(* fails: poll_queue_length_ does not underflow, it is zero when the list  *)
(* is empty, and EPOLL_CTL_MOD always finds the descriptor registered.     *)
(***************************************************************************)
THEOREM ContractsHold == IoSpec => []NoContractFailure
<1>1. IoInv => NoContractFailure
  BY DEF IoInv
<1> QED
  BY <1>1, SchedulerInvariant, PTL

----------------------------------------------------------------------------
(* Type correctness of the scheduler on its own *)

(* Only operations are ever posted. *)
LEMMA QueueStep ==
    ASSUME ListTypeOK, LockTypeOK, queue \in Seq(IoOps), SchedulerStep
    PROVE  queue' \in Seq(IoOps)
<1> USE DEF listVars, lockVars, kernelVars, pollVars
<1>1. ASSUME NEW t \in Threads, PostCancelled(t)
      PROVE  queue' \in Seq(IoOps)
  <2>1. Head(cancelled) \in IoOps
    BY <1>1, HeadTailProperties DEF PostCancelled, ListTypeOK
  <2>2. queue' = Append(queue, Head(cancelled))
    BY <1>1 DEF PostCancelled, PostIo
  <2> QED
    BY <2>1, <2>2, AppendProperties
<1>2. ASSUME NEW t \in Threads, CompleteItem(t)
      PROVE  queue' \in Seq(IoOps)
  <2>1. cur.next \in 1..Len(active)
    BY <1>2 DEF CompleteItem, HasItem, LockTypeOK, ListTypeOK, Cursor
  <2>2. active[cur.next] \in IoOps
    BY <2>1, ActiveFds
  <2>3. queue' = Append(queue, active[cur.next])
    BY <1>2 DEF CompleteItem, PostIo
  <2> QED
    BY <2>2, <2>3, AppendProperties
<1>3. \/ \E t \in Threads : PostCancelled(t) \/ CompleteItem(t)
      \/ UNCHANGED queue
  BY StepCases
  DEF Schedule, Cancel, CancelStuck, SpliceTurn, PollEnter, EndCancellations,
      StartWaiting, EpollReturns, EpollInterrupted, StopWaiting,
      LockNotifications, ProcessWake, BeginEvent, SkipItem, EndEvent,
      EndNotifications, CatchPollError, BecomeReady, BecomeFailed
<1> QED
  BY <1>1, <1>2, <1>3

(***************************************************************************)
(* Every variable of the scheduler keeps its type: in particular neither   *)
(* poll_queue_length_ nor threads_waiting ever goes below zero.            *)
(***************************************************************************)
THEOREM SchedulerTypeCorrect == IoSpec => []IoTypeOK
<1> DEFINE TInv == CountInv /\ queue \in Seq(IoOps)
<1>1. IoInit => TInv
  BY CountInit DEF IoInit
<1>2. TInv /\ SchedulerStep => TInv'
  BY CountStep, QueueStep DEF CountInv, SchedulerTypeOK
<1>3. TInv /\ UNCHANGED ioVars => TInv'
  BY CountStutter DEF ioVars
<1>4. TInv /\ [IoNext]_ioVars => TInv'
  BY <1>2, <1>3, NextIsSchedulerStep
<1>5. TInv => IoTypeOK
  BY DEF CountInv, IoTypeOK
<1> QED
  BY <1>1, <1>4, <1>5, PTL DEF IoSpec

============================================================================
