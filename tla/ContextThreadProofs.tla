------------------------ MODULE ContextThreadProofs ------------------------
(***************************************************************************)
(* Proofs about ContextThread, for any number of threads, clients and      *)
(* operations: the scheduler inside the loop keeps its invariant, every    *)
(* operation is in one place until it is dispatched or discarded, the Work *)
(* count is exact, and no thread sleeps while completions are queued.      *)
(***************************************************************************)
EXTENDS ContextThread, IoPlacementProofs

(* Everything the loop, its users and its environment can do. *)
LEMMA NextCases ==
    ASSUME Next
    PROVE  \/ \E a \in Actors, o \in PostOps : Post(a, o)
           \/ \E a \in Actors, o \in IoOps : ScheduleIo(a, o)
           \/ \E a \in Actors, f \in Fds : CancelIo(a, f)
           \/ \E a \in Actors : KeepSplicing(a)
           \/ \E a \in Actors : CallWake(a) \/ CallNotify(a)
           \/ \E c \in Clients : ReleaseClientWork(c)
           \/ \E t \in Threads : \/ CallRun(t) \/ LoopTest(t) \/ Check(t)
                                 \/ FallAsleep(t) \/ SpuriousWakeup(t)
                                 \/ TakeCompletions(t) \/ Dispatch(t)
                                 \/ EndHandler(t, "drain")
                                 \/ EndHandler(t, "unwind")
                                 \/ Peek(t) \/ TestEmpty(t)
                                 \/ EndRunOnce(t) \/ Unwind(t) \/ Rethrow(t)
           \/ \E t \in Threads : \/ CallPoll(t) \/ PollPosts(t)
                                 \/ PollGoesOn(t) \/ PollInterrupted(t)
                                 \/ PollThrew(t)
           \/ EnvStep /\ UNCHANGED <<userVars, loopVars>>
           \/ Destroy \/ DiscardCompletion \/ CloseEpoll \/ DiscardOperation
           \/ EndDestroy
           \/ UNCHANGED vars
  BY DEF Next, LoopStep, UserStep, CallStep, HandlerReturns, HandlerThrows,
         Teardown

(* The steps of the loop that are steps of its scheduler. *)
SchedulerPart ==
    \/ \E a \in Actors, o \in IoOps : ScheduleIo(a, o)
    \/ \E a \in Actors, f \in Fds : CancelIo(a, f)
    \/ \E a \in Actors : KeepSplicing(a)
    \/ \E t \in Threads : \/ CallPoll(t) \/ PollPosts(t) \/ PollGoesOn(t)
                          \/ PollInterrupted(t) \/ PollThrew(t)
    \/ EnvStep /\ UNCHANGED <<userVars, loopVars>>

LEMMA SchedulerPartSteps ==
    ASSUME SchedulerPart, more \in [Threads -> BOOLEAN]
    PROVE  /\ SchedulerStep
           /\ UNCHANGED <<tmp, running, dispatched, discarded, posted, holds,
                          life, call>>
<1> USE DEF userVars, lifeVars, loopVars
<1>1. ASSUME NEW a \in Actors, NEW o \in IoOps, ScheduleIo(a, o)
      PROVE  SchedulerStep
  BY <1>1 DEF ScheduleIo, SchedulerStep, ClientStep
<1>2. ASSUME NEW a \in Actors, NEW f \in Fds, CancelIo(a, f)
      PROVE  SchedulerStep
  BY <1>2 DEF CancelIo, SchedulerStep, ClientStep
<1>3. ASSUME NEW a \in Actors, KeepSplicing(a)
      PROVE  SchedulerStep
  BY <1>3 DEF KeepSplicing, SchedulerStep, ClientStep
<1>4. ASSUME NEW t \in Threads, CallPoll(t)
      PROVE  SchedulerStep
  <2>1. PollEnter(t, ~ more[t]) /\ (~ more[t]) \in BOOLEAN
    BY <1>4 DEF CallPoll
  <2> QED
    BY <2>1 DEF SchedulerStep, PollerStep
<1>5. ASSUME NEW t \in Threads, PollPosts(t) \/ PollGoesOn(t)
      PROVE  SchedulerStep
  BY <1>5 DEF PollPosts, PollGoesOn, SchedulerStep, PollerStep, PollStep
<1>6. ASSUME NEW t \in Threads, PollInterrupted(t)
      PROVE  SchedulerStep
  BY <1>6 DEF PollInterrupted, SchedulerStep
<1>7. ASSUME NEW t \in Threads, PollThrew(t)
      PROVE  SchedulerStep
  <2>1. CatchPollError(t)
    BY <1>7 DEF PollThrew, CatchPollError
  <2> QED
    BY <2>1 DEF SchedulerStep, PollerStep
<1>8. ASSUME EnvStep
      PROVE  SchedulerStep
  BY <1>8 DEF SchedulerStep
<1>9. SchedulerStep
  BY <1>1, <1>2, <1>3, <1>4, <1>5, <1>6, <1>7, <1>8 DEF SchedulerPart
<1>10. UNCHANGED <<tmp, running, dispatched, discarded, posted, holds, life,
                   call>>
  BY DEF SchedulerPart, ScheduleIo, CancelIo, KeepSplicing, CallPoll,
         PollPosts, PollGoesOn, PollInterrupted, PollThrew
<1> QED
  BY <1>9, <1>10

----------------------------------------------------------------------------
(* Types *)

LoopTypeOK ==
    /\ queue \in Seq(Ops)
    /\ pc \in [Threads -> Pcs]
    /\ tmp \in [Threads -> Seq(Ops)]
    /\ running \in [Threads -> Ops \cup {Nobody}]
    /\ more \in [Threads -> BOOLEAN]
    /\ call \in [Actors -> {"none", "wake", "notify"}]
    /\ holds \in [Clients -> BOOLEAN]
    /\ posted \subseteq PostOps
    /\ dispatched \subseteq Ops /\ discarded \subseteq Ops
    /\ life \in {"alive", "completions", "operations", "gone"}

(* Every step moves at most one thread and may wake those that sleep. *)
LEMMA PcMoves ==
    ASSUME pc \in [Threads -> Pcs], Next
    PROVE  /\ pc' \in [Threads -> Pcs]
           /\ Awake(pc) \in [Threads -> Pcs]
<1> USE DEF Pcs
<1>a. Awake(pc) \in [Threads -> Pcs]
  BY DEF Awake
<1>1. ASSUME NEW t \in Threads, NEW where \in Pcs,
             Go(t, where) \/ Returned(t, where)
      PROVE  pc' \in [Threads -> Pcs]
  BY <1>a, <1>1 DEF Go, Returned
<1>2. ASSUME NotifyAll \/ UNCHANGED pc
      PROVE  pc' \in [Threads -> Pcs]
  BY <1>a, <1>2 DEF NotifyAll
<1>3. \/ \E t \in Threads, where \in Pcs : Go(t, where) \/ Returned(t, where)
      \/ NotifyAll \/ UNCHANGED pc
  BY NextCases
  DEF Post, ScheduleIo, CancelIo, KeepSplicing, CallWake, CallNotify,
      ReleaseClientWork, CallRun, LoopTest, Check, FallAsleep,
      SpuriousWakeup, TakeCompletions, Dispatch, EndHandler, Peek, TestEmpty,
      EndRunOnce, Unwind, Rethrow, CallPoll, PollPosts, PollGoesOn,
      PollInterrupted, PollThrew, Destroy, DiscardCompletion, CloseEpoll,
      DiscardOperation, EndDestroy, vars, loopVars
<1> QED
  BY <1>a, <1>1, <1>2, <1>3

LEMMA LoopTypeStep ==
    ASSUME LoopTypeOK, ListTypeOK, LockTypeOK, Next
    PROVE  LoopTypeOK'
<1> USE DEF listVars, lockVars, kernelVars, pollVars, ioVars, lifeVars,
            userVars, loopVars, vars
<1>t. /\ queue \in Seq(Ops) /\ tmp \in [Threads -> Seq(Ops)]
      /\ pc \in [Threads -> Pcs] /\ more \in [Threads -> BOOLEAN]
      /\ \A t \in Threads : tmp[t] \in Seq(Ops)
      /\ IoOps \subseteq Ops /\ PostOps \subseteq Ops
  BY DEF LoopTypeOK, Ops
<1>1. pc' \in [Threads -> Pcs]
  BY <1>t, PcMoves
<1>2. queue' \in Seq(Ops)
  <2>1. ASSUME NEW o \in Ops, queue' = Append(queue, o)
        PROVE  queue' \in Seq(Ops)
    BY <1>t, <2>1, AppendProperties
  <2>2. ASSUME NEW a \in Actors, NEW o \in PostOps, Post(a, o)
        PROVE  queue' \in Seq(Ops)
    BY <1>t, <2>1, <2>2 DEF Post
  <2>3. ASSUME NEW t \in Threads, PollPosts(t)
        PROVE  queue' \in Seq(Ops)
    <3>1. CASE PostCancelled(t)
      <4>1. Head(cancelled) \in IoOps
        BY <3>1, HeadTailProperties DEF PostCancelled, ListTypeOK
      <4> QED
        BY <1>t, <2>1, <3>1, <4>1 DEF PostCancelled, PostIo
    <3>2. CASE CompleteItem(t)
      <4>1. cur.next \in 1..Len(active)
        BY <3>2 DEF CompleteItem, HasItem, LockTypeOK, ListTypeOK, Cursor
      <4>2. active[cur.next] \in IoOps
        BY <4>1, ActiveFds
      <4> QED
        BY <1>t, <2>1, <3>2, <4>2 DEF CompleteItem, PostIo
    <3> QED
      BY <2>3, <3>1, <3>2 DEF PollPosts
  <2>4. ASSUME NEW t \in Threads, Unwind(t)
        PROVE  queue' \in Seq(Ops)
    <3>1. queue' = tmp[t] \o queue /\ tmp[t] \in Seq(Ops)
      BY <1>t, <2>4 DEF Unwind, PutBack
    <3> QED
      BY <1>t, <3>1, ConcatProperties
  <2>5. ASSUME NEW t \in Threads, TakeCompletions(t)
        PROVE  queue' \in Seq(Ops)
    BY <2>5, EmptySeq DEF TakeCompletions
  <2>6. ASSUME DiscardCompletion
        PROVE  queue' \in Seq(Ops)
    BY <1>t, <2>6, HeadTailProperties DEF DiscardCompletion
  <2>7. \/ \E a \in Actors, o \in PostOps : Post(a, o)
        \/ \E t \in Threads : PollPosts(t) \/ Unwind(t) \/ TakeCompletions(t)
        \/ DiscardCompletion
        \/ UNCHANGED queue
    BY NextCases, ZenonT(60)
    DEF ScheduleIo, CancelIo, KeepSplicing, CallWake, CallNotify,
        ReleaseClientWork, CallRun, LoopTest, Check, FallAsleep,
        SpuriousWakeup, Dispatch, EndHandler, Peek, TestEmpty, EndRunOnce,
        Rethrow, CallPoll, PollGoesOn, PollInterrupted, PollThrew, EnvStep,
        Destroy, CloseEpoll, DiscardOperation, EndDestroy,
        Schedule, Cancel, CancelStuck, SpliceTurn, PollEnter,
        EndCancellations, StartWaiting, EpollReturns, EpollInterrupted,
        StopWaiting, LockNotifications, ProcessWake, BeginEvent, SkipItem,
        EndEvent, EndNotifications, BecomeReady, BecomeFailed
  <2> QED
    BY <1>t, <2>2, <2>3, <2>4, <2>5, <2>6, <2>7
<1>3. tmp' \in [Threads -> Seq(Ops)] /\ dispatched' \subseteq Ops
  <2>1. ASSUME NEW t \in Threads, TakeCompletions(t)
        PROVE  tmp' \in [Threads -> Seq(Ops)] /\ dispatched' \subseteq Ops
    BY <1>t, <2>1 DEF TakeCompletions, LoopTypeOK
  <2>2. ASSUME NEW t \in Threads, Unwind(t)
        PROVE  tmp' \in [Threads -> Seq(Ops)] /\ dispatched' \subseteq Ops
    BY <1>t, <2>2, EmptySeq DEF Unwind, LoopTypeOK
  <2>3. ASSUME NEW t \in Threads, Dispatch(t)
        PROVE  tmp' \in [Threads -> Seq(Ops)] /\ dispatched' \subseteq Ops
    <3>1. Tail(tmp[t]) \in Seq(Ops) /\ Head(tmp[t]) \in Ops
      BY <1>t, <2>3, HeadTailProperties DEF Dispatch
    <3> QED
      BY <1>t, <2>3, <3>1 DEF Dispatch, LoopTypeOK
  <2>4. \/ \E t \in Threads : TakeCompletions(t) \/ Unwind(t) \/ Dispatch(t)
        \/ UNCHANGED <<tmp, dispatched>>
    BY NextCases
    DEF Post, ScheduleIo, CancelIo, KeepSplicing, CallWake, CallNotify,
        ReleaseClientWork, CallRun, LoopTest, Check, FallAsleep,
        SpuriousWakeup, EndHandler, Peek, TestEmpty, EndRunOnce, Rethrow,
        CallPoll, PollPosts, PollGoesOn, PollInterrupted, PollThrew, Destroy,
        DiscardCompletion, CloseEpoll, DiscardOperation, EndDestroy
  <2> QED
    BY <1>t, <2>1, <2>2, <2>3, <2>4 DEF LoopTypeOK
<1>4. running' \in [Threads -> Ops \cup {Nobody}]
  <2>1. ASSUME NEW t \in Threads, Dispatch(t)
        PROVE  running' \in [Threads -> Ops \cup {Nobody}]
    <3>1. Head(tmp[t]) \in Ops
      BY <1>t, <2>1, HeadTailProperties DEF Dispatch
    <3> QED
      BY <2>1, <3>1 DEF Dispatch, LoopTypeOK
  <2>2. ASSUME NEW t \in Threads, NEW where, EndHandler(t, where)
        PROVE  running' \in [Threads -> Ops \cup {Nobody}]
    BY <2>2 DEF EndHandler, LoopTypeOK
  <2>3. \/ \E t \in Threads : \/ Dispatch(t) \/ EndHandler(t, "drain")
                              \/ EndHandler(t, "unwind")
        \/ UNCHANGED running
    BY NextCases
    DEF Post, ScheduleIo, CancelIo, KeepSplicing, CallWake, CallNotify,
        ReleaseClientWork, CallRun, LoopTest, Check, FallAsleep,
        SpuriousWakeup, TakeCompletions, Peek, TestEmpty, EndRunOnce, Unwind,
        Rethrow, CallPoll, PollPosts, PollGoesOn, PollInterrupted, PollThrew,
        Destroy, DiscardCompletion, CloseEpoll, DiscardOperation, EndDestroy
  <2> QED
    BY <2>1, <2>2, <2>3 DEF LoopTypeOK
<1>5. more' \in [Threads -> BOOLEAN]
  <2>1. ASSUME NEW t \in Threads, Peek(t) \/ TestEmpty(t) \/ CallPoll(t)
        PROVE  more' \in [Threads -> BOOLEAN]
    BY <1>t, <2>1 DEF Peek, MoreCompletionsReady, TestEmpty, CallPoll
  <2>2. \/ \E t \in Threads : Peek(t) \/ TestEmpty(t) \/ CallPoll(t)
        \/ UNCHANGED more
    BY NextCases
    DEF Post, ScheduleIo, CancelIo, KeepSplicing, CallWake, CallNotify,
        ReleaseClientWork, CallRun, LoopTest, Check, FallAsleep,
        SpuriousWakeup, TakeCompletions, Dispatch, EndHandler, EndRunOnce,
        Unwind, Rethrow, PollPosts, PollGoesOn, PollInterrupted, PollThrew,
        Destroy, DiscardCompletion, CloseEpoll, DiscardOperation, EndDestroy
  <2> QED
    BY <1>t, <2>1, <2>2
<1>6. call' \in [Actors -> {"none", "wake", "notify"}]
  <2>1. ASSUME NEW a \in Actors, NEW c \in {"none", "wake", "notify"},
               call' = [call EXCEPT ![a] = c]
        PROVE  call' \in [Actors -> {"none", "wake", "notify"}]
    BY <2>1 DEF LoopTypeOK
  <2>2. \/ \E a \in Actors, c \in {"none", "wake", "notify"} :
              call' = [call EXCEPT ![a] = c]
        \/ UNCHANGED call
    BY NextCases
    DEF Actors, Release, Post, ScheduleIo, CancelIo, KeepSplicing, CallWake,
        CallNotify, ReleaseClientWork, CallRun, LoopTest, Check, FallAsleep,
        SpuriousWakeup, TakeCompletions, Dispatch, EndHandler, Peek,
        TestEmpty, EndRunOnce, Unwind, Rethrow, CallPoll, PollPosts,
        PollGoesOn, PollInterrupted, PollThrew, Destroy, DiscardCompletion,
        CloseEpoll, DiscardOperation, EndDestroy
  <2> QED
    BY <2>1, <2>2 DEF LoopTypeOK
<1>7. /\ holds' \in [Clients -> BOOLEAN]
      /\ posted' \subseteq PostOps
      /\ life' \in {"alive", "completions", "operations", "gone"}
  <2>1. holds' \in [Clients -> BOOLEAN]
    BY NextCases, ZenonT(60)
    DEF LoopTypeOK, Post, ScheduleIo, CancelIo, KeepSplicing, CallWake,
        CallNotify, ReleaseClientWork, CallRun, LoopTest, Check, FallAsleep,
        SpuriousWakeup, TakeCompletions, Dispatch, EndHandler, Peek,
        TestEmpty, EndRunOnce, Unwind, Rethrow, CallPoll, PollPosts,
        PollGoesOn, PollInterrupted, PollThrew, Destroy, DiscardCompletion,
        CloseEpoll, DiscardOperation, EndDestroy
  <2>2. posted' \subseteq PostOps
    BY NextCases
    DEF LoopTypeOK, Post, ScheduleIo, CancelIo, KeepSplicing, CallWake,
        CallNotify, ReleaseClientWork, CallRun, LoopTest, Check, FallAsleep,
        SpuriousWakeup, TakeCompletions, Dispatch, EndHandler, Peek,
        TestEmpty, EndRunOnce, Unwind, Rethrow, CallPoll, PollPosts,
        PollGoesOn, PollInterrupted, PollThrew, Destroy, DiscardCompletion,
        CloseEpoll, DiscardOperation, EndDestroy
  <2>3. life' \in {"alive", "completions", "operations", "gone"}
    BY NextCases
    DEF LoopTypeOK, Post, ScheduleIo, CancelIo, KeepSplicing, CallWake,
        CallNotify, ReleaseClientWork, CallRun, LoopTest, Check, FallAsleep,
        SpuriousWakeup, TakeCompletions, Dispatch, EndHandler, Peek,
        TestEmpty, EndRunOnce, Unwind, Rethrow, CallPoll, PollPosts,
        PollGoesOn, PollInterrupted, PollThrew, Destroy, DiscardCompletion,
        CloseEpoll, DiscardOperation, EndDestroy
  <2> QED
    BY <2>1, <2>2, <2>3
<1>8. discarded' \subseteq Ops
  <2>1. ASSUME DiscardCompletion
        PROVE  discarded' \subseteq Ops
    <3>1. Head(queue) \in Ops
      BY <1>t, <2>1, HeadTailProperties DEF DiscardCompletion
    <3> QED
      BY <2>1, <3>1 DEF DiscardCompletion, Discard, LoopTypeOK
  <2>2. ASSUME DiscardOperation
        PROVE  discarded' \subseteq Ops
    <3>1. Operations \in Seq(IoOps) /\ Operations # <<>>
      BY <2>2, ConcatProperties DEF DiscardOperation, Operations, ListTypeOK
    <3>2. Head(Operations) \in IoOps
      BY <3>1, HeadTailProperties
    <3> QED
      BY <1>t, <2>2, <3>2 DEF DiscardOperation, Discard, LoopTypeOK
  <2>3. DiscardCompletion \/ DiscardOperation \/ UNCHANGED discarded
    BY NextCases
    DEF Post, ScheduleIo, CancelIo, KeepSplicing, CallWake, CallNotify,
        ReleaseClientWork, CallRun, LoopTest, Check, FallAsleep,
        SpuriousWakeup, TakeCompletions, Dispatch, EndHandler, Peek,
        TestEmpty, EndRunOnce, Unwind, Rethrow, CallPoll, PollPosts,
        PollGoesOn, PollInterrupted, PollThrew, Destroy, CloseEpoll,
        EndDestroy
  <2> QED
    BY <2>1, <2>2, <2>3 DEF LoopTypeOK
<1> QED
  BY <1>1, <1>2, <1>3, <1>4, <1>5, <1>6, <1>7, <1>8 DEF LoopTypeOK

----------------------------------------------------------------------------
(* Where the threads are *)

(***************************************************************************)
(* poll_once() runs inside run_once() only, an operation runs exactly      *)
(* while its handler does, completions are held back only while they are   *)
(* drained, and a nested call keeps its thread where it is.                *)
(***************************************************************************)
ThreadControl(t) ==
    /\ pollPc[t] # "out" => pc[t] = "guard"
    /\ running[t] # Nobody <=> pc[t] = "handler"
    /\ tmp[t] # <<>> => pc[t] \in {"drain", "handler", "unwind"}
    /\ call[t] # "none" => pc[t] \in {"drain", "unwind", "returned"}

(* Once the destructors run, no thread is inside the context any more. *)
NobodyInside ==
    /\ \A t \in Threads : pc[t] \in {"user", "returned"}
    /\ \A a \in Actors : call[a] = "none"
    /\ \A c \in Clients : ~ holds[c]
    /\ mutex = Nobody

Control ==
    /\ \A t \in Threads : ThreadControl(t)
    /\ life # "alive" => NobodyInside

LEMMA ThreadControlStep ==
    ASSUME LoopTypeOK, PollTypeOK, Control, Next, LoopTypeOK',
           NEW u \in Threads
    PROVE  ThreadControl(u)'
<1> USE DEF listVars, lockVars, kernelVars, pollVars, ioVars, lifeVars,
            userVars, loopVars, vars
<1>t. /\ queue \in Seq(Ops)
      /\ pc \in [Threads -> Pcs] /\ pollPc \in [Threads -> PollPcs]
      /\ tmp \in [Threads -> Seq(Ops)] /\ Nobody \notin Ops
      /\ running \in [Threads -> Ops \cup {Nobody}]
      /\ call \in [Actors -> {"none", "wake", "notify"}]
      /\ \A t \in Threads : t \in Actors
      /\ \A c \in Clients : c \notin Threads
  BY LoopAssumption DEF LoopTypeOK, PollTypeOK, Actors
<1>c. ThreadControl(u)
  BY DEF Control
<1>a. /\ Awake(pc) \in [Threads -> Pcs]
      /\ Awake(pc)[u] = IF pc[u] = "asleep" THEN "check" ELSE pc[u]
  BY <1>t, PcMoves DEF Awake
<1>1. ASSUME UNCHANGED <<pollPc, running, tmp, call>>,
             NotifyAll \/ UNCHANGED pc
      PROVE  ThreadControl(u)'
  BY <1>1, <1>a, <1>c DEF ThreadControl, NotifyAll
<1>2. ASSUME NEW t \in Threads, NEW where \in Pcs \ {"handler"},
             UNCHANGED <<pollPc, running, tmp, call>>,
             Go(t, where) \/ Returned(t, where),
             pc[t] # "handler", tmp[t] = <<>>, call[t] = "none",
             pollPc[t] = "out"
      PROVE  ThreadControl(u)'
  BY <1>2, <1>a, <1>c, <1>t DEF ThreadControl, Go, Returned
<1>3. ASSUME NEW t \in Threads,
             \/ CallRun(t) \/ Check(t) \/ FallAsleep(t) \/ SpuriousWakeup(t)
             \/ Peek(t) \/ TestEmpty(t) \/ EndRunOnce(t) \/ Rethrow(t)
      PROVE  ThreadControl(u)'
  <2>1. ThreadControl(t)
    BY DEF Control
  <2>2. UNCHANGED <<pollPc, running, tmp, call>> /\ call[t] = "none"
    BY <1>3 DEF CallRun, Check, FallAsleep, SpuriousWakeup, Peek, TestEmpty,
                EndRunOnce, Rethrow, At
  <2>3. pc[t] # "handler" /\ tmp[t] = <<>> /\ pollPc[t] = "out"
    BY <1>3, <2>1 DEF CallRun, Check, FallAsleep, SpuriousWakeup, Peek,
                      TestEmpty, EndRunOnce, Rethrow, At, ThreadControl
  <2>4. \E where \in Pcs \ {"handler"} : Go(t, where) \/ Returned(t, where)
    BY <1>3 DEF CallRun, Check, FallAsleep, SpuriousWakeup, Peek, TestEmpty,
                EndRunOnce, Rethrow, Pcs
  <2> QED
    BY <1>2, <2>2, <2>3, <2>4
<1>4. ASSUME NEW t \in Threads, LoopTest(t)
      PROVE  ThreadControl(u)'
  <2>1. ThreadControl(t) /\ pc[t] = "loop" /\ call[t] = "none"
    BY <1>4 DEF Control, LoopTest, At
  <2>2. UNCHANGED <<pollPc, running, tmp>>
    BY <1>4 DEF LoopTest
  <2>3. CASE Go(t, "check") /\ UNCHANGED call
    BY <1>c, <1>t, <2>1, <2>2, <2>3 DEF ThreadControl, Go
  <2>4. CASE Go(t, "returned") /\ call' = [call EXCEPT ![t] = "wake"]
    BY <1>c, <1>t, <2>1, <2>2, <2>4 DEF ThreadControl, Go
  <2> QED
    BY <1>4, <2>3, <2>4 DEF LoopTest
<1>5. ASSUME NEW t \in Threads, TakeCompletions(t)
      PROVE  ThreadControl(u)'
  <2>1. /\ pc[t] = "take" /\ call[t] = "none"
        /\ tmp' = [tmp EXCEPT ![t] = queue] /\ Go(t, "drain")
        /\ UNCHANGED <<pollPc, running, call>>
    BY <1>5 DEF TakeCompletions, At
  <2>2. ThreadControl(t)
    BY DEF Control
  <2> QED
    BY <1>c, <1>t, <2>1, <2>2 DEF ThreadControl, Go
<1>6. ASSUME NEW t \in Threads, Dispatch(t)
      PROVE  ThreadControl(u)'
  <2>1. /\ pc[t] = "drain" /\ call[t] = "none" /\ tmp[t] # <<>>
        /\ running' = [running EXCEPT ![t] = Head(tmp[t])]
        /\ tmp' = [tmp EXCEPT ![t] = Tail(tmp[t])] /\ Go(t, "handler")
        /\ UNCHANGED <<pollPc, call>>
    BY <1>6 DEF Dispatch, At
  <2>2. Head(tmp[t]) # Nobody
    BY <1>t, <2>1, HeadTailProperties
  <2>3. ThreadControl(t)
    BY DEF Control
  <2> HIDE DEF listVars, lockVars
  <2>4. CASE u = t
    BY <1>t, <2>1, <2>2, <2>3, <2>4 DEF ThreadControl, Go
  <2>5. CASE u # t
    BY <1>c, <1>t, <2>1, <2>5 DEF ThreadControl, Go
  <2> QED
    BY <2>4, <2>5
<1>7. ASSUME NEW t \in Threads, NEW where \in {"drain", "unwind"},
             EndHandler(t, where)
      PROVE  ThreadControl(u)'
  <2>1. /\ pc[t] = "handler" /\ call[t] = "none"
        /\ running' = [running EXCEPT ![t] = Nobody]
        /\ call' = [call EXCEPT ![t] = "wake"] /\ Go(t, where)
        /\ UNCHANGED <<pollPc, tmp>>
    BY <1>7 DEF EndHandler, At, Release
  <2>2. ThreadControl(t)
    BY DEF Control
  <2>3. CASE u = t
    BY <1>t, <2>1, <2>2, <2>3 DEF ThreadControl, Go
  <2>4. CASE u # t
    BY <1>c, <1>t, <2>1, <2>4 DEF ThreadControl, Go
  <2> QED
    BY <2>3, <2>4
<1>8. ASSUME NEW t \in Threads, Unwind(t)
      PROVE  ThreadControl(u)'
  <2>1. /\ pc[t] = "unwind" /\ call[t] = "none"
        /\ tmp' = [tmp EXCEPT ![t] = <<>>] /\ Go(t, "rethrow")
        /\ UNCHANGED <<pollPc, running, call>>
    BY <1>8 DEF Unwind, At
  <2>2. ThreadControl(t)
    BY DEF Control
  <2> QED
    BY <1>c, <1>t, <2>1, <2>2 DEF ThreadControl, Go
<1>9. ASSUME NEW t \in Threads, CallPoll(t)
      PROVE  ThreadControl(u)'
  <2>1. /\ pc[t] = "poll" /\ call[t] = "none"
        /\ pollPc' = [pollPc EXCEPT ![t] = "cancellations"]
        /\ Go(t, "guard")
        /\ UNCHANGED <<running, tmp, call>>
    BY <1>9 DEF CallPoll, PollEnter, At
  <2>2. ThreadControl(t)
    BY DEF Control
  <2> QED
    BY <1>c, <1>t, <2>1, <2>2 DEF ThreadControl, Go
<1>10. ASSUME NEW t \in Threads, PollGoesOn(t) \/ PollInterrupted(t)
       PROVE  ThreadControl(u)'
  <2>1. /\ pollPc[t] # "out"
        /\ \/ \E where \in PollPcs : pollPc' = [pollPc EXCEPT ![t] = where]
           \/ UNCHANGED pollPc
        /\ UNCHANGED <<pc, running, tmp, call>>
    BY <1>10 DEF PollGoesOn, PollInterrupted, PollPcs, LeavePoll,
                 EndCancellations, StartWaiting, EpollReturns,
                 EpollInterrupted, StopWaiting, LockNotifications,
                 ProcessWake, BeginEvent, SkipItem, EndEvent,
                 EndNotifications
  <2>2. ThreadControl(t)
    BY DEF Control
  <2> QED
    BY <1>c, <1>t, <2>1, <2>2 DEF ThreadControl
<1>11. ASSUME NEW t \in Threads, PollThrew(t)
       PROVE  ThreadControl(u)'
  <2>1. /\ pc[t] = "guard" /\ call[t] = "none"
        /\ pollPc' = [pollPc EXCEPT ![t] = "out"] /\ Go(t, "unwind")
        /\ UNCHANGED <<running, tmp, call>>
    BY <1>11 DEF PollThrew, At
  <2>2. ThreadControl(t)
    BY DEF Control
  <2> QED
    BY <1>c, <1>t, <2>1, <2>2 DEF ThreadControl, Go
<1>12. ASSUME NEW a \in Actors, CallWake(a) \/ CallNotify(a)
       PROVE  ThreadControl(u)'
  <2>1. /\ call[a] # "none"
        /\ \E c \in {"none", "notify"} : call' = [call EXCEPT ![a] = c]
        /\ UNCHANGED <<pollPc, running, tmp>>
        /\ NotifyAll \/ UNCHANGED pc
    BY <1>12 DEF CallWake, CallNotify
  <2> QED
    BY <1>a, <1>c, <1>t, <2>1 DEF ThreadControl, NotifyAll
<1>13. ASSUME NEW c \in Clients, ReleaseClientWork(c)
       PROVE  ThreadControl(u)'
  <2>1. /\ call' = [call EXCEPT ![c] = "wake"] /\ c # u
        /\ UNCHANGED <<pc, pollPc, running, tmp>>
    BY <1>13, <1>t DEF ReleaseClientWork, Release
  <2> QED
    BY <1>c, <1>t, <2>1 DEF ThreadControl
<1>14. \/ UNCHANGED <<pollPc, running, tmp, call>>
          /\ (NotifyAll \/ UNCHANGED pc)
       \/ \E t \in Threads :
             \/ CallRun(t) \/ Check(t) \/ FallAsleep(t) \/ SpuriousWakeup(t)
             \/ Peek(t) \/ TestEmpty(t) \/ EndRunOnce(t) \/ Rethrow(t)
       \/ \E t \in Threads : LoopTest(t)
       \/ \E t \in Threads : TakeCompletions(t)
       \/ \E t \in Threads : Dispatch(t)
       \/ \E t \in Threads : EndHandler(t, "drain") \/ EndHandler(t, "unwind")
       \/ \E t \in Threads : Unwind(t)
       \/ \E t \in Threads : CallPoll(t)
       \/ \E t \in Threads : PollGoesOn(t) \/ PollInterrupted(t)
       \/ \E t \in Threads : PollThrew(t)
       \/ \E a \in Actors : CallWake(a) \/ CallNotify(a)
       \/ \E c \in Clients : ReleaseClientWork(c)
  BY NextCases, ZenonT(60)
  DEF Post, ScheduleIo, CancelIo, KeepSplicing, PollPosts, EnvStep,
      Destroy, DiscardCompletion, CloseEpoll, DiscardOperation, EndDestroy,
      Schedule, Cancel, CancelStuck, SpliceTurn, PostCancelled, CompleteItem,
      BecomeReady, BecomeFailed
<1> QED
  BY <1>1, <1>3, <1>4, <1>5, <1>6, <1>7, <1>8, <1>9, <1>10, <1>11, <1>12,
     <1>13, <1>14

(* The destructors have the context to themselves. *)
LEMMA AfterLife ==
    ASSUME LoopTypeOK, Control, life # "alive", Next
    PROVE  \/ EnvStep /\ UNCHANGED <<userVars, loopVars>>
           \/ DiscardCompletion \/ CloseEpoll \/ DiscardOperation
           \/ EndDestroy
           \/ UNCHANGED vars
<1>n. /\ \A t \in Threads : /\ pc[t] \in {"user", "returned"}
                            /\ pollPc[t] = "out"
      /\ \A a \in Actors : call[a] = "none" /\ mutex # a
  BY IoAssumption DEF Control, NobodyInside, ThreadControl
<1>1. ASSUME NEW a \in Actors, InUserCode(a)
      PROVE  FALSE
  BY <1>1 DEF InUserCode
<1>2. ASSUME NEW a \in Actors,
             KeepSplicing(a) \/ CallWake(a) \/ CallNotify(a)
      PROVE  FALSE
  BY <1>2, <1>n DEF KeepSplicing, SpliceTurn, CallWake, CallNotify
<1>3. ASSUME NEW t \in Threads,
             \/ CallRun(t) \/ LoopTest(t) \/ Check(t) \/ FallAsleep(t)
             \/ SpuriousWakeup(t) \/ TakeCompletions(t) \/ Dispatch(t)
             \/ EndHandler(t, "drain") \/ EndHandler(t, "unwind")
             \/ Peek(t) \/ TestEmpty(t) \/ EndRunOnce(t) \/ Unwind(t)
             \/ Rethrow(t) \/ CallPoll(t) \/ PollThrew(t)
      PROVE  FALSE
  BY <1>3, <1>n
  DEF At, CallRun, LoopTest, Check, FallAsleep, SpuriousWakeup,
      TakeCompletions, Dispatch, EndHandler, Peek, TestEmpty, EndRunOnce,
      Unwind, Rethrow, CallPoll, PollThrew
<1>4. ASSUME NEW t \in Threads,
             PollPosts(t) \/ PollGoesOn(t) \/ PollInterrupted(t)
      PROVE  FALSE
  BY <1>4, <1>n
  DEF PollPosts, PollGoesOn, PollInterrupted, PostCancelled, CompleteItem,
      EndCancellations, StartWaiting, EpollReturns, EpollInterrupted,
      StopWaiting, LockNotifications, ProcessWake, BeginEvent, SkipItem,
      EndEvent, EndNotifications
<1>5. ASSUME \/ \E a \in Actors, o \in PostOps : Post(a, o)
             \/ \E a \in Actors, o \in IoOps : ScheduleIo(a, o)
             \/ \E a \in Actors, f \in Fds : CancelIo(a, f)
             \/ \E c \in Clients : ReleaseClientWork(c)
      PROVE  FALSE
  BY <1>5, <1>1 DEF Post, ScheduleIo, CancelIo, ReleaseClientWork, Actors
<1>6. ~ Destroy
  BY DEF Destroy
<1> QED
  BY <1>2, <1>3, <1>4, <1>5, <1>6, NextCases

(* The lists empty in the order of the destructors. *)
Emptied ==
    /\ life \in {"operations", "gone"} => queue = <<>>
    /\ life = "gone" => active = <<>> /\ cancelled = <<>>

LEMMA ControlStep ==
    ASSUME LoopTypeOK, PollTypeOK, ListTypeOK, Control, Emptied, Next,
           LoopTypeOK'
    PROVE  Control' /\ Emptied'
<1> USE DEF listVars, lockVars, kernelVars, pollVars, ioVars, lifeVars,
            userVars, loopVars, vars
<1>1. \A t \in Threads : ThreadControl(t)'
  BY ThreadControlStep
<1>2. CASE life # "alive"
  <2>1. UNCHANGED <<pc, call, holds, mutex>> /\ life' # "alive"
    BY <1>2, AfterLife
    DEF EnvStep, BecomeReady, BecomeFailed, DiscardCompletion, CloseEpoll,
        DiscardOperation, EndDestroy
  <2>2. NobodyInside'
    BY <1>2, <2>1 DEF Control, NobodyInside
  <2>3. CASE EndDestroy
    <3>1. active = <<>> /\ cancelled = <<>>
      <4>1. Len(active) + Len(cancelled) = 0
        BY <2>3, ConcatProperties DEF EndDestroy, Operations, ListTypeOK
      <4> QED
        BY <4>1, EmptySeq DEF ListTypeOK
    <3> QED
      BY <1>1, <2>2, <2>3, <3>1 DEF EndDestroy, Emptied, Control
  <2>4. CASE ~ EndDestroy
    BY <1>1, <1>2, <2>2, <2>4, AfterLife
    DEF Emptied, Control, EnvStep, BecomeReady, BecomeFailed,
        DiscardCompletion, CloseEpoll, DiscardOperation
  <2> QED
    BY <2>3, <2>4
<1>3. CASE life = "alive" /\ life' # "alive"
  <2>1. Destroy
    BY <1>3, NextCases
    DEF Post, ScheduleIo, CancelIo, KeepSplicing, CallWake, CallNotify,
        ReleaseClientWork, CallRun, LoopTest, Check, FallAsleep,
        SpuriousWakeup, TakeCompletions, Dispatch, EndHandler, Peek,
        TestEmpty, EndRunOnce, Unwind, Rethrow, CallPoll, PollPosts,
        PollGoesOn, PollInterrupted, PollThrew, DiscardCompletion,
        CloseEpoll, DiscardOperation, EndDestroy
  <2>2. NobodyInside' /\ life' = "completions"
    BY <2>1 DEF Destroy, NobodyInside
  <2> QED
    BY <1>1, <2>2 DEF Control, Emptied
<1>4. CASE life' = "alive"
  BY <1>1, <1>4 DEF Control, Emptied
<1> QED
  BY <1>2, <1>3, <1>4

----------------------------------------------------------------------------
(* Where every operation is *)

(* Operations in the scheduler's list or in the completion queue, and      *)
(* those that some thread has taken from the queue.                        *)
Queued == ToSet(active) \cup ToSet(cancelled) \cup ToSet(queue)
Taken  == UNION {ToSet(tmp[t]) : t \in Threads}

(* No list holds an operation twice and no two lists share one. *)
ListsApart ==
    /\ IsInjective(active) /\ IsInjective(cancelled) /\ IsInjective(queue)
    /\ ToSet(active) \cap ToSet(cancelled) = {}
    /\ ToSet(active) \cap ToSet(queue) = {}
    /\ ToSet(cancelled) \cap ToSet(queue) = {}

TakenApart ==
    /\ \A t \in Threads : IsInjective(tmp[t]) /\ ToSet(tmp[t]) \cap Queued = {}
    /\ \A t, u \in Threads : t # u => ToSet(tmp[t]) \cap ToSet(tmp[u]) = {}

(***************************************************************************)
(* What was created is in one of the lists until it is dispatched or       *)
(* discarded, never both, and no two threads run the same operation.       *)
(***************************************************************************)
Accounted ==
    /\ Queued \cup Taken = Created \ (dispatched \cup discarded)
    /\ dispatched \cup discarded \subseteq Created
    /\ dispatched \cap discarded = {}
    /\ \A t \in Threads : running[t] # Nobody => running[t] \in dispatched
    /\ \A t, u \in Threads :
          running[t] = running[u] /\ running[t] # Nobody => t = u

Places == ListsApart /\ TakenApart /\ Accounted

LEMMA PlaceSets ==
    ASSUME LoopTypeOK, ListTypeOK
    PROVE  /\ Queued \subseteq Ops /\ ToSet(queue) \subseteq Ops
           /\ ToSet(active) \subseteq IoOps /\ ToSet(cancelled) \subseteq IoOps
           /\ \A t \in Threads : ToSet(tmp[t]) \subseteq Ops
           /\ Created \subseteq Ops
           /\ \A o \in IoOps : o \in Created <=> result[o] # "new"
           /\ \A o \in PostOps : o \in Created <=> o \in posted
<1>1. /\ ToSet(active) \subseteq IoOps /\ ToSet(cancelled) \subseteq IoOps
  BY ActiveSet
<1>2. ToSet(queue) \subseteq Ops
  BY SetOfSeq DEF LoopTypeOK
<1>3. ASSUME NEW t \in Threads
      PROVE  ToSet(tmp[t]) \subseteq Ops
  <2>1. tmp[t] \in Seq(Ops)
    BY DEF LoopTypeOK
  <2> QED
    BY <2>1, SetOfSeq
<1>4. posted \subseteq PostOps /\ IoOps \cap PostOps = {}
  BY LoopAssumption DEF LoopTypeOK
<1> QED
  BY <1>1, <1>2, <1>3, <1>4 DEF Queued, Created, Ops

(* Cancelling, splicing and posting move operations between the lists. *)
LEMMA SchedulerMoves ==
    ASSUME LoopTypeOK, ListTypeOK, LockTypeOK, ResultTypeOK, SortedByFd,
           Places, posted' = posted,
           \/ \E f \in Fds : Cancel(f)
           \/ \E a \in Actors, f \in Fds : CancelStuck(a, f)
           \/ \E a \in Actors : SpliceTurn(a)
           \/ \E t \in Threads : PostCancelled(t)
           \/ \E t \in Threads : CompleteItem(t)
    PROVE  ListsApart' /\ Queued' = Queued /\ Created' = Created
<1>s. /\ ToSet(queue) \subseteq Ops /\ queue \in Seq(Ops)
      /\ ToSet(active) \subseteq IoOps /\ ToSet(cancelled) \subseteq IoOps
      /\ IoOps \subseteq Ops
  BY PlaceSets DEF LoopTypeOK, Ops
<1>r. /\ result \in [IoOps -> {"new", "none", "io", "canceled"}]
      /\ IsInjective(active) /\ IsInjective(cancelled) /\ IsInjective(queue)
  BY DEF ResultTypeOK, Places, ListsApart
<1>n. \A o \in ToSet(active) : result[o] # "new"
  BY <1>s, PlaceSets DEF Places, Accounted, Queued
<1>q. ASSUME NEW o \in IoOps, o \notin ToSet(queue), queue' = Append(queue, o)
      PROVE  ToSet(queue') = ToSet(queue) \cup {o} /\ IsInjective(queue')
  BY <1>q, <1>r, <1>s, AppendSet
<1>c. ASSUME {x \in IoOps : result'[x] # "new"}
                = {x \in IoOps : result[x] # "new"}
      PROVE  Created' = Created
  BY <1>c DEF Created
<1>1. ASSUME NEW f \in Fds, Cancel(f)
      PROVE  ListsApart' /\ Queued' = Queued /\ Created' = Created
  <2>1. /\ result' = [o \in IoOps |-> IF o \in Hit(f) THEN "canceled"
                                      ELSE result[o]]
        /\ ToSet(active') = ToSet(active) \ Hit(f)
        /\ ToSet(cancelled') = Hit(f) \cup ToSet(cancelled)
        /\ IsInjective(active')
        /\ IsInjective(cancelled) /\ Hit(f) \cap ToSet(cancelled) = {}
              => IsInjective(cancelled')
        /\ UNCHANGED queue
    BY <1>1, <1>r, CancelEffect
  <2>2. Hit(f) \subseteq ToSet(active)
    BY DEF Hit
  <2>3. {x \in IoOps : result'[x] # "new"} = {x \in IoOps : result[x] # "new"}
    BY <1>n, <2>1, <2>2
  <2>4. ListsApart' /\ Queued' = Queued
    BY <1>r, <2>1, <2>2 DEF ListsApart, Queued, Places
  <2> QED
    BY <1>c, <2>3, <2>4
<1>2. ASSUME NEW a \in Actors, NEW f \in Fds, CancelStuck(a, f)
      PROVE  ListsApart' /\ Queued' = Queued /\ Created' = Created
  <2>1. /\ result' = [o \in IoOps |-> IF o \in Hit(f) THEN "canceled"
                                      ELSE result[o]]
        /\ UNCHANGED <<active, cancelled, queue>>
    BY <1>2, <1>r, StuckEffect
  <2>2. Hit(f) \subseteq ToSet(active)
    BY DEF Hit
  <2>3. {x \in IoOps : result'[x] # "new"} = {x \in IoOps : result[x] # "new"}
    BY <1>n, <2>1, <2>2
  <2> QED
    BY <1>c, <2>1, <2>3 DEF ListsApart, Queued, Places
<1>3. ASSUME NEW a \in Actors, SpliceTurn(a)
      PROVE  ListsApart' /\ Queued' = Queued /\ Created' = Created
  <2>1. /\ ToSet(active') = ToSet(active) /\ IsInjective(active')
        /\ UNCHANGED <<cancelled, queue, result>>
    BY <1>3, <1>r, SpliceEffect
  <2> QED
    BY <1>c, <2>1 DEF ListsApart, Queued, Places
<1>4. ASSUME NEW t \in Threads, PostCancelled(t)
      PROVE  ListsApart' /\ Queued' = Queued /\ Created' = Created
  <2>1. PICK o \in ToSet(cancelled) :
              /\ ToSet(cancelled') = ToSet(cancelled) \ {o}
              /\ IsInjective(cancelled')
              /\ queue' = Append(queue, o)
              /\ UNCHANGED <<active, result>>
    BY <1>4, <1>r, PostCancelledEffect
  <2>2. o \notin ToSet(queue) /\ o \notin ToSet(active) /\ o \in IoOps
    BY <1>s DEF Places, ListsApart
  <2>3. ToSet(queue') = ToSet(queue) \cup {o} /\ IsInjective(queue')
    BY <1>q, <2>1, <2>2
  <2>4. ListsApart' /\ Queued' = Queued
    BY <1>r, <2>1, <2>2, <2>3 DEF ListsApart, Queued, Places
  <2> QED
    BY <1>c, <2>1, <2>4
<1>5. ASSUME NEW t \in Threads, CompleteItem(t)
      PROVE  ListsApart' /\ Queued' = Queued /\ Created' = Created
  <2>1. PICK o \in ToSet(active) :
              /\ result[o] = "none"
              /\ result' = [result EXCEPT ![o] = "io"]
              /\ ToSet(active') = ToSet(active) \ {o}
              /\ IsInjective(active')
              /\ queue' = Append(queue, o)
              /\ UNCHANGED cancelled
    BY <1>5, <1>r, CompleteEffect
  <2>2. o \notin ToSet(queue) /\ o \notin ToSet(cancelled) /\ o \in IoOps
    BY <1>s DEF Places, ListsApart
  <2>3. ToSet(queue') = ToSet(queue) \cup {o} /\ IsInjective(queue')
    BY <1>q, <2>1, <2>2
  <2>4. {x \in IoOps : result'[x] # "new"} = {x \in IoOps : result[x] # "new"}
    BY <1>r, <2>1, <2>2
  <2>5. ListsApart' /\ Queued' = Queued
    BY <1>r, <2>1, <2>2, <2>3 DEF ListsApart, Queued, Places
  <2> QED
    BY <1>c, <2>4, <2>5
<1> QED
  BY <1>1, <1>2, <1>3, <1>4, <1>5

(* schedule() and post() put a new operation into one of the lists. *)
LEMMA NewOperation ==
    ASSUME LoopTypeOK, ListTypeOK, ResultTypeOK, Places,
           NEW a \in Actors, NEW o \in Ops,
           (o \in PostOps /\ Post(a, o)) \/ (o \in IoOps /\ ScheduleIo(a, o))
    PROVE  /\ o \notin Created /\ Created' = Created \cup {o}
           /\ Queued' = Queued \cup {o} /\ ListsApart'
           /\ UNCHANGED <<tmp, running, dispatched, discarded, holds>>
           /\ remaining' = remaining + 1
<1> USE DEF listVars, userVars, lifeVars
<1>q. queue \in Seq(Ops) /\ o \in Ops
  BY DEF LoopTypeOK
<1>c. o \notin Created => o \notin Queued
  BY DEF Places, Accounted
<1>1. CASE o \in PostOps /\ Post(a, o)
  <2>1. /\ o \notin posted /\ posted' = posted \cup {o}
        /\ queue' = Append(queue, o)
        /\ UNCHANGED <<active, cancelled, result, tmp, running, dispatched,
                       discarded, holds>>
        /\ remaining' = remaining + 1
    BY <1>1 DEF Post, Latch
  <2>2. o \notin Created /\ Created' = Created \cup {o}
    BY <1>1, <2>1, PlaceSets DEF Created
  <2>3. /\ ToSet(queue') = ToSet(queue) \cup {o}
        /\ IsInjective(queue) /\ o \notin ToSet(queue) =>
              IsInjective(queue')
    BY <1>q, <2>1, AppendSet
  <2>4. Queued' = Queued \cup {o} /\ ListsApart'
    BY <1>c, <2>1, <2>2, <2>3 DEF Queued, ListsApart, Places
  <2> QED
    BY <2>1, <2>2, <2>4
<1>2. CASE o \in IoOps /\ ScheduleIo(a, o)
  <2>1. /\ result[o] = "new"
        /\ result' = [result EXCEPT ![o] = "none"]
        /\ ToSet(active') = ToSet(active) \cup {o}
        /\ IsInjective(active) /\ o \notin ToSet(active) =>
              IsInjective(active')
        /\ UNCHANGED <<cancelled, queue>>
    BY <1>2, ScheduleEffect DEF ScheduleIo
  <2>2. /\ UNCHANGED <<tmp, running, dispatched, discarded, holds, posted>>
        /\ remaining' = remaining + 1
    BY <1>2 DEF ScheduleIo, Latch
  <2>3. {x \in IoOps : result'[x] # "new"}
           = {x \in IoOps : result[x] # "new"} \cup {o}
    BY <1>2, <2>1 DEF ResultTypeOK
  <2>4. o \notin Created /\ Created' = Created \cup {o}
    <3>1. o \notin Created
      BY <1>2, <2>1, PlaceSets
    <3>2. Created' = posted \cup {x \in IoOps : result'[x] # "new"}
      BY <2>2 DEF Created
    <3> QED
      BY <2>3, <3>1, <3>2 DEF Created
  <2>5. Queued' = Queued \cup {o} /\ ListsApart'
    BY <1>c, <2>1, <2>4 DEF Queued, ListsApart, Places
  <2> QED
    BY <2>1, <2>2, <2>4, <2>5
<1> QED
  BY <1>1, <1>2

(* Nothing else changes where an operation is or who runs it. *)
LEMMA PlaceCases ==
    ASSUME LoopTypeOK, Control, Next
    PROVE  \/ \E a \in Actors, o \in Ops :
                 \/ o \in PostOps /\ Post(a, o)
                 \/ o \in IoOps /\ ScheduleIo(a, o)
           \/ /\ life = "alive"
              /\ UNCHANGED <<tmp, running, dispatched, discarded, posted>>
              /\ \/ \E f \in Fds : Cancel(f)
                 \/ \E a \in Actors, f \in Fds : CancelStuck(a, f)
                 \/ \E a \in Actors : SpliceTurn(a)
                 \/ \E t \in Threads : PostCancelled(t)
                 \/ \E t \in Threads : CompleteItem(t)
           \/ \E t \in Threads : TakeCompletions(t)
           \/ \E t \in Threads : Dispatch(t)
           \/ \E t \in Threads : \/ EndHandler(t, "drain")
                                 \/ EndHandler(t, "unwind")
           \/ \E t \in Threads : Unwind(t)
           \/ DiscardCompletion
           \/ DiscardOperation
           \/ UNCHANGED <<active, cancelled, queue, result, posted, tmp,
                          running, dispatched, discarded>>
<1> USE DEF listVars, lockVars, kernelVars, pollVars, ioVars, lifeVars,
            userVars, loopVars, vars
<1>m. more \in [Threads -> BOOLEAN] /\ PostOps \subseteq Ops
      /\ IoOps \subseteq Ops
  BY DEF LoopTypeOK, Ops
<1>1. ASSUME EnvStep
      PROVE  UNCHANGED <<active, cancelled, queue, result>>
  BY <1>1 DEF EnvStep, BecomeReady, BecomeFailed
<1>2. CASE life # "alive"
  BY <1>1, <1>2, AfterLife DEF CloseEpoll, EndDestroy
<1>3. CASE life = "alive"
  <2>1. CASE SchedulerPart
    <3>1. UNCHANGED <<tmp, running, dispatched, discarded, posted>>
      BY <1>m, <2>1, SchedulerPartSteps
    <3>2. \/ \E a \in Actors, o \in IoOps : ScheduleIo(a, o)
          \/ \E f \in Fds : Cancel(f)
          \/ \E a \in Actors, f \in Fds : CancelStuck(a, f)
          \/ \E a \in Actors : SpliceTurn(a)
          \/ \E t \in Threads : PostCancelled(t)
          \/ \E t \in Threads : CompleteItem(t)
          \/ UNCHANGED <<active, cancelled, queue, result>>
      BY <1>1, <2>1
      DEF SchedulerPart, CancelIo, KeepSplicing, CallPoll, PollPosts,
          PollGoesOn, PollInterrupted, PollThrew, PollEnter,
          EndCancellations, StartWaiting, EpollReturns, EpollInterrupted,
          StopWaiting, LockNotifications, ProcessWake, BeginEvent, SkipItem,
          EndEvent, EndNotifications
    <3> QED
      BY <1>3, <1>m, <3>1, <3>2
  <2>2. CASE ~ SchedulerPart
    <3>1. \/ \E a \in Actors, o \in PostOps : Post(a, o)
          \/ \E t \in Threads : TakeCompletions(t)
          \/ \E t \in Threads : Dispatch(t)
          \/ \E t \in Threads : \/ EndHandler(t, "drain")
                                \/ EndHandler(t, "unwind")
          \/ \E t \in Threads : Unwind(t)
          \/ DiscardCompletion
          \/ DiscardOperation
          \/ UNCHANGED <<active, cancelled, queue, result, posted, tmp,
                         running, dispatched, discarded>>
      BY <2>2, NextCases
      DEF SchedulerPart, CallWake, CallNotify, ReleaseClientWork, CallRun,
          LoopTest, Check, FallAsleep, SpuriousWakeup, Peek, TestEmpty,
          EndRunOnce, Rethrow, Destroy, CloseEpoll, EndDestroy
    <3> QED
      BY <1>m, <3>1
  <2> QED
    BY <2>1, <2>2
<1> QED
  BY <1>2, <1>3

(* The destructors take the head of a list and discard it. *)
LEMMA DiscardEffect ==
    ASSUME LoopTypeOK, ListTypeOK, Places,
           DiscardCompletion \/ DiscardOperation
    PROVE  \E o \in Queued :
              /\ Queued' = Queued \ {o} /\ ListsApart'
              /\ discarded' = discarded \cup {o}
              /\ Expect(remaining > 0) /\ remaining' = remaining - 1
              /\ UNCHANGED <<tmp, running, dispatched, posted, result, holds>>
<1>l. /\ ListsApart /\ queue \in Seq(Ops) /\ active \in Seq(IoOps)
      /\ cancelled \in Seq(IoOps)
  BY DEF LoopTypeOK, ListTypeOK, Places
<1>1. CASE DiscardCompletion
  <2>1. /\ Discard(Head(queue)) /\ queue # <<>> /\ queue' = Tail(queue)
        /\ UNCHANGED <<active, cancelled>>
        /\ UNCHANGED <<tmp, running, dispatched, posted, result, holds>>
    BY <1>1 DEF DiscardCompletion, listVars
  <2>2. /\ Head(queue) \in ToSet(queue) /\ IsInjective(queue')
        /\ ToSet(queue') = ToSet(queue) \ {Head(queue)}
    BY <1>l, <2>1, TailSet DEF ListsApart
  <2>3. Queued' = Queued \ {Head(queue)} /\ ListsApart'
    BY <1>l, <2>1, <2>2 DEF Queued, ListsApart
  <2> QED
    BY <2>1, <2>2, <2>3 DEF Queued, Discard
<1>2. CASE DiscardOperation /\ active # <<>>
  <2>1. /\ Discard(Head(Operations)) /\ active' = Tail(active)
        /\ UNCHANGED <<queue, cancelled>>
        /\ UNCHANGED <<tmp, running, dispatched, posted, result, holds>>
    BY <1>2 DEF DiscardOperation
  <2>2. Head(Operations) = Head(active)
    <3>1. Len(active) \in Nat \ {0}
      BY <1>2, <1>l, EmptySeq
    <3>2. Operations[1] = active[1] /\ Operations \in Seq(IoOps)
          /\ Operations # <<>>
      BY <1>2, <1>l, <3>1, ConcatProperties DEF Operations, DiscardOperation
    <3> QED
      BY <1>2, <1>l, <3>2, HeadTailProperties
  <2>3. /\ Head(active) \in ToSet(active) /\ IsInjective(active')
        /\ ToSet(active') = ToSet(active) \ {Head(active)}
    BY <1>2, <1>l, <2>1, TailSet DEF ListsApart
  <2>4. Queued' = Queued \ {Head(active)} /\ ListsApart'
    BY <1>l, <2>1, <2>3 DEF Queued, ListsApart
  <2> QED
    BY <2>1, <2>2, <2>3, <2>4 DEF Queued, Discard
<1>3. CASE DiscardOperation /\ active = <<>>
  <2>1. /\ Discard(Head(Operations)) /\ cancelled' = Tail(cancelled)
        /\ UNCHANGED <<queue, active>> /\ Operations # <<>>
        /\ UNCHANGED <<tmp, running, dispatched, posted, result, holds>>
    BY <1>3 DEF DiscardOperation
  <2>2. Operations = cancelled
    BY <1>3, <1>l, ConcatEmptySeq DEF Operations
  <2>3. /\ Head(cancelled) \in ToSet(cancelled) /\ IsInjective(cancelled')
        /\ ToSet(cancelled') = ToSet(cancelled) \ {Head(cancelled)}
    BY <1>l, <2>1, <2>2, TailSet DEF ListsApart
  <2>4. Queued' = Queued \ {Head(cancelled)} /\ ListsApart'
    BY <1>l, <2>1, <2>3 DEF Queued, ListsApart
  <2> QED
    BY <2>1, <2>2, <2>3, <2>4 DEF Queued, Discard
<1> QED
  BY <1>1, <1>2, <1>3

(* The operations move between lists, threads and handlers, one by one. *)
LEMMA PlacesStep ==
    ASSUME LoopTypeOK, ListTypeOK, LockTypeOK, ResultTypeOK, Control,
           life = "alive" => SortedByFd, Places, Next
    PROVE  Places'
<1>t. /\ tmp \in [Threads -> Seq(Ops)] /\ queue \in Seq(Ops)
      /\ running \in [Threads -> Ops \cup {Nobody}] /\ Nobody \notin Ops
      /\ \A t \in Threads : tmp[t] \in Seq(Ops)
  BY LoopAssumption DEF LoopTypeOK
<1>e. ToSet(<<>>) = {} /\ IsInjective(<<>>)
  BY DEF ToSet, IsInjective
<1>p. /\ ListsApart
      /\ Queued \cup Taken = Created \ (dispatched \cup discarded)
      /\ \A t \in Threads : /\ IsInjective(tmp[t])
                            /\ ToSet(tmp[t]) \cap Queued = {}
      /\ \A t, u \in Threads : t # u => ToSet(tmp[t]) \cap ToSet(tmp[u]) = {}
      /\ \A t \in Threads : ToSet(tmp[t]) \subseteq Taken
      /\ \A o : o \in Taken <=> \E t \in Threads : o \in ToSet(tmp[t])
  BY DEF Places, TakenApart, Accounted, Taken
<1>q. \A o : o \in Taken' <=> \E t \in Threads : o \in ToSet(tmp'[t])
  BY DEF Taken
<1>a. /\ dispatched \cup discarded \subseteq Created
      /\ dispatched \cap discarded = {}
      /\ \A t \in Threads : running[t] # Nobody => running[t] \in dispatched
      /\ \A t, u \in Threads :
            running[t] = running[u] /\ running[t] # Nobody => t = u
  BY DEF Places, Accounted
<1>c. ASSUME UNCHANGED <<result, posted>>
      PROVE  Created' = Created
  BY <1>c DEF Created
<1>1. ASSUME NEW a \in Actors, NEW o \in Ops,
             (o \in PostOps /\ Post(a, o)) \/ (o \in IoOps /\ ScheduleIo(a, o))
      PROVE  Places'
  <2>1. /\ o \notin Created /\ Created' = Created \cup {o}
        /\ Queued' = Queued \cup {o} /\ ListsApart'
        /\ UNCHANGED <<tmp, running, dispatched, discarded>>
    BY <1>1, NewOperation
  <2>2. o \notin Taken /\ Taken' = Taken
    BY <1>p, <2>1 DEF Taken
  <2>3. TakenApart'
    BY <1>p, <2>1, <2>2 DEF TakenApart
  <2>4. Accounted'
    BY <1>p, <1>a, <2>1, <2>2 DEF Accounted
  <2> QED
    BY <2>1, <2>3, <2>4 DEF Places
<1>2. ASSUME life = "alive",
             UNCHANGED <<tmp, running, dispatched, discarded, posted>>,
             \/ \E f \in Fds : Cancel(f)
             \/ \E a \in Actors, f \in Fds : CancelStuck(a, f)
             \/ \E a \in Actors : SpliceTurn(a)
             \/ \E t \in Threads : PostCancelled(t)
             \/ \E t \in Threads : CompleteItem(t)
      PROVE  Places'
  <2>1. ListsApart' /\ Queued' = Queued /\ Created' = Created
    BY <1>2, SchedulerMoves
  <2>2. Taken' = Taken
    BY <1>2 DEF Taken
  <2> QED
    BY <1>2, <1>p, <1>a, <2>1, <2>2 DEF Places, TakenApart, Accounted
<1>3. ASSUME NEW t \in Threads, TakeCompletions(t)
      PROVE  Places'
  <2>1. /\ pc[t] = "take" /\ tmp' = [tmp EXCEPT ![t] = queue] /\ queue' = <<>>
        /\ UNCHANGED <<active, cancelled, result, posted, running, dispatched,
                       discarded>>
    BY <1>3 DEF TakeCompletions, At, listVars, userVars, lifeVars
  <2>2. tmp[t] = <<>>
    BY <2>1 DEF Control, ThreadControl
  <2>3. tmp'[t] = queue /\ \A u \in Threads \ {t} : tmp'[u] = tmp[u]
    BY <1>t, <2>1
  <2>4. ListsApart' /\ Queued' = Queued \ ToSet(queue)
    BY <1>p, <1>e, <2>1 DEF ListsApart, Queued
  <2>5. TakenApart'
    BY <1>p, <2>3, <2>4 DEF TakenApart, ListsApart, Queued
  <2>6. Taken' = Taken \cup ToSet(queue)
    BY <1>p, <1>q, <1>e, <2>2, <2>3
  <2>7. Queued' \cup Taken' = Queued \cup Taken
    BY <2>4, <2>6 DEF Queued
  <2>8. Accounted'
    BY <1>p, <1>a, <1>c, <2>1, <2>7 DEF Accounted
  <2> QED
    BY <2>4, <2>5, <2>8 DEF Places
<1>4. ASSUME NEW t \in Threads, Dispatch(t)
      PROVE  Places'
  <2> DEFINE o == Head(tmp[t])
  <2>1. /\ pc[t] = "drain" /\ tmp[t] # <<>>
        /\ running' = [running EXCEPT ![t] = o]
        /\ tmp' = [tmp EXCEPT ![t] = Tail(tmp[t])]
        /\ dispatched' = dispatched \cup {o}
        /\ UNCHANGED <<active, cancelled, queue, result, posted, discarded>>
    BY <1>4 DEF Dispatch, At, ioVars, listVars, userVars, lifeVars
  <2>2. /\ o \in ToSet(tmp[t]) /\ IsInjective(Tail(tmp[t]))
        /\ ToSet(Tail(tmp[t])) = ToSet(tmp[t]) \ {o}
    BY <1>t, <1>p, <2>1, TailSet
  <2> HIDE DEF o
  <2>3. /\ tmp'[t] = Tail(tmp[t]) /\ running'[t] = o
        /\ \A u \in Threads \ {t} : /\ tmp'[u] = tmp[u]
                                    /\ running'[u] = running[u]
    BY <1>t, <2>1
  <2>4. ListsApart' /\ Queued' = Queued
    BY <1>p, <2>1 DEF ListsApart, Queued
  <2>5. TakenApart'
    <3>1. \A u \in Threads : /\ IsInjective(tmp'[u])
                             /\ ToSet(tmp'[u]) \subseteq ToSet(tmp[u])
      BY <1>p, <2>2, <2>3
    <3> QED
      BY <1>p, <2>4, <3>1 DEF TakenApart
  <2>6. o \in Taken /\ o \notin Queued /\ o \notin dispatched /\ o \in Created
        /\ o \notin discarded
    BY <1>p, <2>2
  <2>7. Taken' = Taken \ {o}
    <3>1. \A u \in Threads : ToSet(tmp'[u]) = ToSet(tmp[u]) \ {o}
      BY <1>p, <2>2, <2>3
    <3> QED
      BY <1>p, <1>q, <3>1
  <2>8. Queued' \cup Taken' = Created' \ (dispatched' \cup discarded')
    BY <1>p, <1>c, <2>1, <2>4, <2>6, <2>7
  <2>9. \A u \in Threads \ {t} : running[u] # o
    <3>1. o # Nobody
      BY <1>t, <2>2, SetOfSeq
    <3> QED
      BY <1>a, <2>6, <3>1
  <2>10. Accounted'
    BY <1>a, <1>c, <2>1, <2>3, <2>6, <2>8, <2>9 DEF Accounted
  <2> QED
    BY <2>4, <2>5, <2>10 DEF Places
<1>5. ASSUME NEW t \in Threads,
             EndHandler(t, "drain") \/ EndHandler(t, "unwind")
      PROVE  Places'
  <2>1. /\ running' = [running EXCEPT ![t] = Nobody]
        /\ UNCHANGED <<active, cancelled, queue, result, posted, tmp,
                       dispatched, discarded>>
    BY <1>5 DEF EndHandler, listVars, userVars, lifeVars
  <2>2. ListsApart' /\ Queued' = Queued /\ Taken' = Taken
    BY <1>p, <2>1 DEF ListsApart, Queued, Taken
  <2>3. TakenApart'
    BY <1>p, <2>1, <2>2 DEF TakenApart
  <2>4. Accounted'
    BY <1>t, <1>p, <1>a, <1>c, <2>1, <2>2 DEF Accounted
  <2> QED
    BY <2>2, <2>3, <2>4 DEF Places
<1>6. ASSUME NEW t \in Threads, Unwind(t)
      PROVE  Places'
  <2>1. /\ queue' = tmp[t] \o queue /\ tmp' = [tmp EXCEPT ![t] = <<>>]
        /\ UNCHANGED <<active, cancelled, result, posted, running, dispatched,
                       discarded>>
    BY <1>6 DEF Unwind, PutBack, listVars, userVars, lifeVars
  <2>2. /\ ToSet(queue') = ToSet(tmp[t]) \cup ToSet(queue)
        /\ IsInjective(queue')
    <3>1. ToSet(tmp[t]) \cap ToSet(queue) = {}
      BY <1>p DEF Queued
    <3> QED
      BY <1>t, <1>p, <2>1, <3>1, ConcatSet DEF ListsApart
  <2>3. tmp'[t] = <<>> /\ \A u \in Threads \ {t} : tmp'[u] = tmp[u]
    BY <1>t, <2>1
  <2>4. ListsApart' /\ Queued' = Queued \cup ToSet(tmp[t])
    BY <1>p, <2>1, <2>2 DEF ListsApart, Queued
  <2>5. TakenApart'
    BY <1>p, <1>e, <2>3, <2>4 DEF TakenApart
  <2>6. Taken' = Taken \ ToSet(tmp[t])
    <3>1. \A u \in Threads : ToSet(tmp'[u]) = ToSet(tmp[u]) \ ToSet(tmp[t])
      BY <1>p, <1>e, <2>3
    <3> QED
      BY <1>p, <1>q, <3>1
  <2>7. Queued' \cup Taken' = Queued \cup Taken
    BY <1>p, <2>4, <2>6
  <2>8. Accounted'
    BY <1>p, <1>a, <1>c, <2>1, <2>7 DEF Accounted
  <2> QED
    BY <2>4, <2>5, <2>8 DEF Places
<1>7. ASSUME DiscardCompletion \/ DiscardOperation
      PROVE  Places'
  <2>1. PICK o \in Queued :
              /\ Queued' = Queued \ {o} /\ ListsApart'
              /\ discarded' = discarded \cup {o}
              /\ UNCHANGED <<tmp, running, dispatched, posted, result>>
    BY <1>7, DiscardEffect
  <2>2. Taken' = Taken /\ o \notin Taken
    BY <1>p, <2>1 DEF Taken
  <2>3. TakenApart'
    BY <1>p, <2>1 DEF TakenApart
  <2>4. Accounted'
    BY <1>p, <1>a, <1>c, <2>1, <2>2 DEF Accounted
  <2> QED
    BY <2>1, <2>3, <2>4 DEF Places
<1>8. ASSUME UNCHANGED <<active, cancelled, queue, result, posted, tmp,
                         running, dispatched, discarded>>
      PROVE  Places'
  BY <1>8 DEF Places, ListsApart, TakenApart, Accounted, Queued, Taken,
              Created
<1> QED
  BY <1>1, <1>2, <1>3, <1>4, <1>5, <1>6, <1>7, <1>8, PlaceCases

----------------------------------------------------------------------------
(* The Work guards *)

(* What each step does to the living guards and to remaining_count_. *)
LEMMA GuardChanges ==
    ASSUME LoopTypeOK, ListTypeOK, LockTypeOK, ResultTypeOK, Control,
           life = "alive" => SortedByFd, Places, Places', Next
    PROVE  \/ /\ \E o : o \notin Live /\ Live' = Live \cup {o}
              /\ Holders' = Holders /\ remaining' = remaining + 1
              /\ UNCHANGED aborted
           \/ /\ \E o \in Live : Live' = Live \ {o}
              /\ Holders' = Holders /\ remaining' = remaining - 1
              /\ Expect(remaining > 0)
           \/ /\ \E c \in Holders : Holders' = Holders \ {c}
              /\ Live' = Live /\ remaining' = remaining - 1
              /\ Expect(remaining > 0)
           \/ /\ Live' = Live /\ Holders' = Holders /\ remaining' = remaining
              /\ \/ SchedulerPart /\ life = "alive"
                 \/ UNCHANGED aborted
<1> USE DEF listVars, lockVars, kernelVars, pollVars, ioVars, lifeVars,
            userVars, loopVars, vars
<1>t. /\ tmp \in [Threads -> Seq(Ops)] /\ Nobody \notin Ops
      /\ running \in [Threads -> Ops \cup {Nobody}]
      /\ more \in [Threads -> BOOLEAN] /\ holds \in [Clients -> BOOLEAN]
  BY LoopAssumption DEF LoopTypeOK
<1> DEFINE Run == {running[t] : t \in Threads} \ {Nobody}
           Waits == Created \ (dispatched \cup discarded)
<1>d. Live = Waits \cup Run /\ Run \subseteq dispatched
  BY DEF Live, Places, Accounted
<1>1. ASSUME NEW a \in Actors, NEW o \in Ops,
             (o \in PostOps /\ Post(a, o)) \/ (o \in IoOps /\ ScheduleIo(a, o))
      PROVE  /\ o \notin Live /\ Live' = Live \cup {o}
             /\ Holders' = Holders /\ remaining' = remaining + 1
             /\ UNCHANGED aborted
  <2>1. /\ o \notin Created /\ Created' = Created \cup {o}
        /\ UNCHANGED <<running, dispatched, discarded, holds>>
        /\ remaining' = remaining + 1
    BY <1>1, NewOperation
  <2>2. dispatched \cup discarded \subseteq Created
    BY DEF Places, Accounted
  <2>3. UNCHANGED aborted
    BY <1>1 DEF Post, ScheduleIo, Schedule
  <2> QED
    BY <1>d, <2>1, <2>2, <2>3 DEF Live, Holders
<1>2. ASSUME NEW t \in Threads,
             EndHandler(t, "drain") \/ EndHandler(t, "unwind")
      PROVE  /\ running[t] \in Live /\ Live' = Live \ {running[t]}
             /\ Holders' = Holders /\ remaining' = remaining - 1
             /\ Expect(remaining > 0)
  <2>1. /\ pc[t] = "handler"
        /\ running' = [running EXCEPT ![t] = Nobody]
        /\ remaining' = remaining - 1 /\ Expect(remaining > 0)
        /\ UNCHANGED <<result, posted, dispatched, discarded, holds>>
    BY <1>2 DEF EndHandler, Release, At
  <2>2. running[t] # Nobody
    BY <2>1 DEF Control, ThreadControl
  <2>3. running[t] \in Run
    BY <2>2
  <2>4. \A u \in Threads \ {t} : running[u] # running[t]
    BY <2>2 DEF Places, Accounted
  <2>5. Run' = Run \ {running[t]}
    <3>1. /\ running'[t] = Nobody
          /\ \A u \in Threads \ {t} : running'[u] = running[u]
      BY <1>t, <2>1
    <3> QED
      BY <2>4, <3>1
  <2>6. running[t] \notin Waits
    BY <1>d, <2>3
  <2>7. Live' = Waits' \cup Run' /\ Waits' = Waits /\ Holders' = Holders
    BY <2>1 DEF Live, Created, Holders
  <2> HIDE DEF Run, Waits
  <2> QED
    BY <1>d, <2>1, <2>3, <2>5, <2>6, <2>7
<1>3. ASSUME DiscardCompletion \/ DiscardOperation
      PROVE  /\ \E o \in Live : Live' = Live \ {o}
             /\ Holders' = Holders /\ remaining' = remaining - 1
             /\ Expect(remaining > 0)
  <2>1. PICK o \in Queued :
              /\ discarded' = discarded \cup {o}
              /\ Expect(remaining > 0) /\ remaining' = remaining - 1
              /\ UNCHANGED <<tmp, running, dispatched, posted, result, holds>>
    BY <1>3, DiscardEffect
  <2>2. o \in Waits /\ o \notin dispatched
    BY DEF Places, Accounted
  <2>3. Live' = (Created \ (dispatched \cup discarded')) \cup Run
        /\ Holders' = Holders
    BY <2>1 DEF Live, Created, Holders
  <2>4. Live' = Live \ {o} /\ o \in Live
    BY <1>d, <2>1, <2>2, <2>3
  <2> QED
    BY <2>1, <2>3, <2>4
<1>4. ASSUME NEW c \in Clients, ReleaseClientWork(c)
      PROVE  /\ c \in Holders /\ Holders' = Holders \ {c}
             /\ Live' = Live /\ remaining' = remaining - 1
             /\ Expect(remaining > 0)
  <2>1. /\ holds[c] /\ holds' = [holds EXCEPT ![c] = FALSE]
        /\ remaining' = remaining - 1 /\ Expect(remaining > 0)
        /\ UNCHANGED <<result, posted, dispatched, discarded, running>>
    BY <1>4 DEF ReleaseClientWork, Release
  <2>2. Live' = Live
    BY <2>1 DEF Live, Created
  <2>3. c \in Holders /\ Holders' = Holders \ {c}
    BY <1>t, <2>1 DEF Holders
  <2> QED
    BY <2>1, <2>2, <2>3
<1>5. ASSUME NEW t \in Threads, Dispatch(t)
      PROVE  /\ Live' = Live /\ Holders' = Holders /\ remaining' = remaining
             /\ UNCHANGED aborted
  <2> DEFINE o == Head(tmp[t])
  <2>1. /\ pc[t] = "drain" /\ tmp[t] # <<>>
        /\ running' = [running EXCEPT ![t] = o]
        /\ dispatched' = dispatched \cup {o}
        /\ UNCHANGED <<result, posted, discarded, holds, remaining, aborted>>
    BY <1>5 DEF Dispatch, At
  <2>2. o \in ToSet(tmp[t])
    BY <1>t, <2>1, TailSet
  <2> HIDE DEF o
  <2>3. o \in Waits /\ o # Nobody
    <3>1. o \in Taken
      BY <2>2 DEF Taken
    <3>2. o \in Ops
      BY <2>2, <1>t, SetOfSeq
    <3> QED
      BY <1>t, <3>1, <3>2 DEF Places, Accounted
  <2>4. running[t] = Nobody
    BY <2>1 DEF Control, ThreadControl
  <2>5. Run' = Run \cup {o}
    <3>1. /\ running'[t] = o
          /\ \A u \in Threads \ {t} : running'[u] = running[u]
      BY <1>t, <2>1
    <3> QED
      BY <2>3, <2>4, <3>1
  <2>6. Waits' = Waits \ {o}
    BY <2>1 DEF Created
  <2>7. Live' = Waits' \cup Run' /\ Holders' = Holders
    BY <2>1 DEF Live, Holders
  <2> HIDE DEF Run, Waits
  <2> QED
    BY <1>d, <2>1, <2>3, <2>5, <2>6, <2>7
<1>6. ASSUME UNCHANGED <<posted, running, dispatched, discarded, holds,
                         remaining>>,
             {x \in IoOps : result'[x] # "new"}
                = {x \in IoOps : result[x] # "new"}
      PROVE  Live' = Live /\ Holders' = Holders /\ remaining' = remaining
  BY <1>6 DEF Live, Holders, Created
<1>7. ASSUME life = "alive",
             UNCHANGED <<tmp, running, dispatched, discarded, posted, holds,
                         remaining>>,
             \/ \E f \in Fds : Cancel(f)
             \/ \E a \in Actors, f \in Fds : CancelStuck(a, f)
             \/ \E a \in Actors : SpliceTurn(a)
             \/ \E t \in Threads : PostCancelled(t)
             \/ \E t \in Threads : CompleteItem(t)
      PROVE  Live' = Live /\ Holders' = Holders /\ remaining' = remaining
  <2>1. Created' = Created
    BY <1>7, SchedulerMoves
  <2> QED
    BY <1>7, <2>1 DEF Live, Holders
<1> HIDE DEF Run, Waits
<1>8. ASSUME SchedulerPart,
             ~ \E a \in Actors, o \in IoOps : ScheduleIo(a, o)
      PROVE  Live' = Live /\ Holders' = Holders /\ remaining' = remaining
  <2>1. UNCHANGED <<tmp, running, dispatched, discarded, posted, holds>>
    BY <1>8, <1>t, SchedulerPartSteps
  <2>2. remaining' = remaining
    BY <1>8 DEF SchedulerPart, CancelIo, KeepSplicing, CallPoll, PollPosts,
                PollGoesOn, PollInterrupted, PollThrew
  <2>3. \/ \E f \in Fds : Cancel(f)
        \/ \E a \in Actors, f \in Fds : CancelStuck(a, f)
        \/ \E a \in Actors : SpliceTurn(a)
        \/ \E t \in Threads : PostCancelled(t)
        \/ \E t \in Threads : CompleteItem(t)
        \/ UNCHANGED result
    BY <1>8, ZenonT(60)
    DEF SchedulerPart, CancelIo, KeepSplicing, CallPoll, PollPosts,
        PollGoesOn, PollInterrupted, PollThrew, PollEnter,
        EndCancellations, StartWaiting, EpollReturns, EpollInterrupted,
        StopWaiting, LockNotifications, ProcessWake, BeginEvent, SkipItem,
        EndEvent, EndNotifications, EnvStep, BecomeReady, BecomeFailed
  <2>4. CASE life = "alive"
    BY <1>6, <1>7, <2>1, <2>2, <2>3, <2>4
  <2>5. CASE life # "alive"
    <3>1. UNCHANGED result
      BY <2>5, AfterLife
      DEF EnvStep, BecomeReady, BecomeFailed, DiscardCompletion, CloseEpoll,
          DiscardOperation, EndDestroy
    <3> QED
      BY <1>6, <2>1, <2>2, <3>1
  <2> QED
    BY <2>4, <2>5
<1>9. \/ SchedulerPart
      \/ \E a \in Actors, o \in PostOps : Post(a, o)
      \/ \E t \in Threads : Dispatch(t)
      \/ \E t \in Threads : EndHandler(t, "drain") \/ EndHandler(t, "unwind")
      \/ \E c \in Clients : ReleaseClientWork(c)
      \/ DiscardCompletion
      \/ DiscardOperation
      \/ UNCHANGED <<result, posted, running, dispatched, discarded, holds,
                     remaining, aborted>>
  BY NextCases
  DEF SchedulerPart, CallWake, CallNotify, CallRun, LoopTest, Check,
      FallAsleep, SpuriousWakeup, TakeCompletions, Peek, TestEmpty,
      EndRunOnce, Unwind, Rethrow, Destroy, CloseEpoll, EndDestroy
<1>10. life # "alive" =>
          DiscardCompletion \/ DiscardOperation \/ UNCHANGED aborted
  BY AfterLife
  DEF EnvStep, BecomeReady, BecomeFailed, CloseEpoll, EndDestroy
<1> HIDE DEF listVars, lockVars, kernelVars, pollVars, ioVars, lifeVars,
             userVars, loopVars, vars
<1>o. IoOps \subseteq Ops /\ PostOps \subseteq Ops
  BY DEF Ops
<1> QED
  BY <1>1, <1>2, <1>3, <1>4, <1>5, <1>6, <1>8, <1>9, <1>10, <1>o

(* Finitely many guards live at any time. *)
GuardsFinite == IsFiniteSet(Live)

LEMMA WorkStep ==
    ASSUME LoopTypeOK, ListTypeOK, LockTypeOK, ResultTypeOK, Control,
           life = "alive" => SortedByFd, Places, Places',
           GuardsFinite, WorkCount, Next
    PROVE  /\ GuardsFinite' /\ WorkCount'
           /\ \/ SchedulerPart /\ life = "alive"
              \/ UNCHANGED aborted
              \/ Expect(TRUE)
<1>f. IsFiniteSet(Live) /\ IsFiniteSet(Holders)
  <2>1. Holders \subseteq Clients
    BY DEF Holders
  <2> QED
    BY <2>1, LoopAssumption, FS_Subset DEF GuardsFinite
<1>n. Cardinality(Live) \in Nat /\ Cardinality(Holders) \in Nat
  BY <1>f, FS_CardinalityType
<1>r. remaining = Cardinality(Live) + Cardinality(Holders)
  BY DEF WorkCount
<1>1. CASE /\ \E o : o \notin Live /\ Live' = Live \cup {o}
           /\ Holders' = Holders /\ remaining' = remaining + 1
           /\ UNCHANGED aborted
  <2>1. PICK o : o \notin Live /\ Live' = Live \cup {o}
    BY <1>1
  <2>2. IsFiniteSet(Live') /\ Cardinality(Live') = Cardinality(Live) + 1
    BY <1>f, <2>1, FS_AddElement
  <2> QED
    BY <1>1, <1>n, <1>r, <2>2 DEF GuardsFinite, WorkCount
<1>2. CASE /\ \E o \in Live : Live' = Live \ {o}
           /\ Holders' = Holders /\ remaining' = remaining - 1
           /\ Expect(remaining > 0)
  <2>1. PICK o \in Live : Live' = Live \ {o}
    BY <1>2
  <2>2. IsFiniteSet(Live') /\ Cardinality(Live') = Cardinality(Live) - 1
    BY <1>f, <2>1, FS_RemoveElement
  <2>3. Cardinality(Live') \in Nat
    BY <2>2, FS_CardinalityType
  <2>4. remaining > 0
    BY <1>n, <1>r, <2>2, <2>3
  <2> QED
    BY <1>2, <1>n, <1>r, <2>2, <2>4 DEF GuardsFinite, WorkCount, Expect
<1>3. CASE /\ \E c \in Holders : Holders' = Holders \ {c}
           /\ Live' = Live /\ remaining' = remaining - 1
           /\ Expect(remaining > 0)
  <2>1. PICK c \in Holders : Holders' = Holders \ {c}
    BY <1>3
  <2>2. /\ IsFiniteSet(Holders')
        /\ Cardinality(Holders') = Cardinality(Holders) - 1
    BY <1>f, <2>1, FS_RemoveElement
  <2>3. Cardinality(Holders') \in Nat
    BY <2>2, FS_CardinalityType
  <2>4. remaining > 0
    BY <1>n, <1>r, <2>2, <2>3
  <2> QED
    BY <1>3, <1>f, <1>n, <1>r, <2>2, <2>4 DEF GuardsFinite, WorkCount, Expect
<1>4. CASE /\ Live' = Live /\ Holders' = Holders /\ remaining' = remaining
           /\ (SchedulerPart /\ life = "alive") \/ UNCHANGED aborted
  BY <1>4 DEF GuardsFinite, WorkCount
<1> QED
  BY <1>1, <1>2, <1>3, <1>4, GuardChanges

----------------------------------------------------------------------------
(* The scheduler inside the loop *)

(* IoInv while the context lives; ~IoScheduler() takes the list apart. *)
SchedulerInv ==
    SchedulerTypeOK /\ NoContractFailure /\ (life = "alive" => IoInv)

LEMMA SchedulerInvStep ==
    ASSUME LoopTypeOK, Control, SchedulerInv, Next,
           \/ SchedulerPart /\ life = "alive"
           \/ UNCHANGED aborted
           \/ Expect(TRUE)
    PROVE  SchedulerInv'
<1> USE DEF listVars, lockVars, kernelVars, pollVars, ioVars, lifeVars,
            userVars, loopVars, vars
<1>t. /\ SchedulerTypeOK /\ ListTypeOK /\ LockTypeOK /\ KernelTypeOK
      /\ PollTypeOK /\ ResultTypeOK /\ wake \in BOOLEAN
      /\ aborted \in BOOLEAN /\ ~ aborted /\ waiting \in Nat
      /\ more \in [Threads -> BOOLEAN]
  BY DEF SchedulerInv, SchedulerTypeOK, FlagTypeOK, NoContractFailure,
         LoopTypeOK
<1>i. IoInv => SchedulerTypeOK /\ NoContractFailure
  BY DEF IoInv
<1>1. CASE SchedulerPart /\ life = "alive"
  <2>1. SchedulerStep /\ life' = life
    BY <1>1, <1>t, SchedulerPartSteps
  <2>2. IoInv'
    BY <1>1, <2>1, InvStep DEF SchedulerInv
  <2> QED
    BY <2>2 DEF SchedulerInv, IoInv
<1>2. CASE UNCHANGED <<listVars, lockVars, kernelVars, pollVars, interest,
                       waiting, result>>
           /\ wake' \in BOOLEAN /\ (UNCHANGED aborted \/ Expect(TRUE))
           /\ (life' = "alive" => life = "alive")
  <2>1. aborted' = FALSE
    BY <1>2, <1>t DEF Expect
  <2>2. SchedulerTypeOK'
    BY <1>2, <1>t, <2>1
    DEF SchedulerTypeOK, ListTypeOK, LockTypeOK, KernelTypeOK, PollTypeOK,
        ResultTypeOK, FlagTypeOK
  <2>3. ASSUME IoInv
        PROVE  IoInv'
    <3>1. PollLengthExact' /\ WaitingExact' /\ MutexOwned'
      BY <1>2, <2>3 DEF IoInv, PollLengthExact, WaitingExact, Waiters,
                        MutexOwned
    <3>2. SortedByFd' /\ SpliceAtEnd'
      BY <1>2, <2>3 DEF IoInv, SortedByFd, SpliceAtEnd
    <3>3. CursorSound' /\ PendingIsRegistered'
      BY <1>2, <2>3 DEF IoInv, CursorSound, PendingIsRegistered, SettledFds,
                        Wanted
    <3> QED
      BY <2>1, <2>2, <3>1, <3>2, <3>3 DEF IoInv, NoContractFailure
  <2> QED
    BY <1>2, <2>1, <2>2, <2>3 DEF SchedulerInv, NoContractFailure
<1>3. CASE life = "alive" /\ ~ SchedulerPart
  <2>1. UNCHANGED <<listVars, lockVars, kernelVars, pollVars, interest,
                    waiting, result>>
    BY <1>3, NextCases
    DEF SchedulerPart, Post, CallWake, CallNotify, ReleaseClientWork,
        CallRun, LoopTest, Check, FallAsleep, SpuriousWakeup,
        TakeCompletions, Dispatch, EndHandler, Peek, TestEmpty, EndRunOnce,
        Unwind, Rethrow, Destroy, DiscardCompletion, CloseEpoll,
        DiscardOperation, EndDestroy
  <2>2. wake' \in BOOLEAN
    BY <1>3, <1>t, NextCases, ZenonT(60)
    DEF SchedulerPart, Post, CallWake, CallNotify, ReleaseClientWork,
        CallRun, LoopTest, Check, FallAsleep, SpuriousWakeup,
        TakeCompletions, Dispatch, EndHandler, Peek, TestEmpty, EndRunOnce,
        Unwind, Rethrow, Destroy, DiscardCompletion, CloseEpoll,
        DiscardOperation, EndDestroy, Trigger
  <2> QED
    BY <1>2, <1>3, <2>1, <2>2
<1>4. CASE life # "alive"
  <2>1. life' # "alive"
    BY <1>4, AfterLife
    DEF EnvStep, BecomeReady, BecomeFailed, DiscardCompletion, CloseEpoll,
        DiscardOperation, EndDestroy
  <2>2. CASE EnvStep
    <3>1. KernelTypeOK'
      BY <1>t, <2>2, KernelStep DEF SchedulerStep
    <3>2. UNCHANGED <<listVars, lockVars, pollVars, interest, wake, waiting,
                      result, aborted>>
      BY <2>2 DEF EnvStep, BecomeReady, BecomeFailed
    <3> QED
      BY <1>t, <2>1, <3>1, <3>2
      DEF SchedulerInv, NoContractFailure, SchedulerTypeOK, ListTypeOK,
          LockTypeOK, PollTypeOK, ResultTypeOK, FlagTypeOK
  <2>3. CASE ~ EnvStep
    <3>1. aborted' = FALSE
      BY <1>4, <1>t DEF Expect
    <3>2. UNCHANGED <<lockVars, kernelVars, pollVars, wake, waiting, result>>
      BY <1>4, <2>3, AfterLife
      DEF DiscardCompletion, CloseEpoll, DiscardOperation, EndDestroy
    <3>3. ListTypeOK'
      <4>1. active # <<>> => Tail(active) \in Seq(IoOps)
        BY <1>t, HeadTailProperties DEF ListTypeOK
      <4>2. CASE DiscardOperation /\ active = <<>>
        <5>1. Operations = cancelled /\ cancelled # <<>>
          BY <1>t, <4>2, ConcatEmptySeq
          DEF ListTypeOK, Operations, DiscardOperation
        <5>2. Tail(cancelled) \in Seq(IoOps)
          BY <1>t, <5>1, HeadTailProperties DEF ListTypeOK
        <5> QED
          BY <1>t, <4>2, <5>2 DEF DiscardOperation, ListTypeOK
      <4>3. CASE DiscardOperation /\ active # <<>>
        BY <1>t, <4>1, <4>3 DEF DiscardOperation, ListTypeOK
      <4>4. CASE ~ DiscardOperation
        BY <1>4, <1>t, <2>3, <4>4, AfterLife
        DEF DiscardCompletion, CloseEpoll, EndDestroy, ListTypeOK
      <4> QED
        BY <4>2, <4>3, <4>4
    <3>4. interest' \in [Fds -> SUBSET Direction]
      <4>1. CASE CloseEpoll
        BY <1>t, <4>1 DEF CloseEpoll, KernelTypeOK
      <4>2. CASE ~ CloseEpoll
        BY <1>4, <1>t, <2>3, <4>2, AfterLife
        DEF DiscardCompletion, DiscardOperation, EndDestroy, KernelTypeOK
      <4> QED
        BY <4>1, <4>2
    <3> QED
      BY <1>t, <2>1, <3>1, <3>2, <3>3, <3>4
      DEF SchedulerInv, NoContractFailure, SchedulerTypeOK, LockTypeOK,
          KernelTypeOK, PollTypeOK, ResultTypeOK, FlagTypeOK
  <2> QED
    BY <2>2, <2>3
<1> QED
  BY <1>1, <1>3, <1>4

----------------------------------------------------------------------------
(* The invariant of the loop and what follows from it *)

LoopInv ==
    /\ LoopTypeOK /\ SchedulerInv /\ Control /\ Emptied
    /\ Places /\ GuardsFinite /\ WorkCount

LEMMA LoopInit == Init => LoopInv
<1> SUFFICES ASSUME Init PROVE LoopInv
  OBVIOUS
<1>i. IoInit
  BY DEF Init
<1>e. ToSet(<<>>) = {} /\ IsInjective(<<>>)
  BY DEF ToSet, IsInjective
<1>1. LoopTypeOK
  <2>1. queue = <<>> /\ <<>> \in Seq(Ops)
    BY <1>i, EmptySeq DEF IoInit
  <2> QED
    BY <2>1 DEF Init, LoopTypeOK, Pcs
<1>2. SchedulerInv
  BY <1>i, InvInit DEF SchedulerInv, IoInv
<1>3. Control
  BY <1>i DEF Init, IoInit, Control, ThreadControl, Actors
<1>4. Emptied
  BY DEF Init, Emptied
<1>5. Created = {} /\ Queued = {} /\ Taken = {}
  <2>1. Created = {}
    BY <1>i DEF Init, IoInit, Created
  <2>2. Queued = {}
    BY <1>i, <1>e DEF IoInit, Queued
  <2>3. Taken = {}
    BY <1>e DEF Init, Taken
  <2> QED
    BY <2>1, <2>2, <2>3
<1>6. Places
  <2>1. ListsApart
    BY <1>i, <1>e DEF IoInit, ListsApart
  <2>2. TakenApart
    BY <1>e DEF Init, TakenApart
  <2>3. Accounted
    BY <1>5 DEF Init, Accounted
  <2> QED
    BY <2>1, <2>2, <2>3 DEF Places
<1>7. GuardsFinite /\ WorkCount
  <2>1. Live = {}
    BY <1>5 DEF Init, Live
  <2>2. Holders = Clients
    BY DEF Init, Holders
  <2>3. Cardinality(Clients) \in Nat
    BY LoopAssumption, FS_CardinalityType
  <2> QED
    BY <2>1, <2>2, <2>3, FS_EmptySet DEF Init, GuardsFinite, WorkCount
<1> QED
  BY <1>1, <1>2, <1>3, <1>4, <1>6, <1>7 DEF LoopInv

LEMMA LoopStepKeeps == LoopInv /\ [Next]_vars => LoopInv'
<1> SUFFICES ASSUME LoopInv, [Next]_vars PROVE LoopInv'
  OBVIOUS
<1>t. /\ LoopTypeOK /\ SchedulerInv /\ Control /\ Emptied /\ Places
      /\ GuardsFinite /\ WorkCount
      /\ ListTypeOK /\ LockTypeOK /\ PollTypeOK /\ ResultTypeOK
      /\ (life = "alive" => SortedByFd)
  BY DEF LoopInv, SchedulerInv, SchedulerTypeOK, IoInv
<1>1. CASE Next
  <2>1. LoopTypeOK'
    BY <1>1, <1>t, LoopTypeStep
  <2>2. Control' /\ Emptied'
    BY <1>1, <1>t, <2>1, ControlStep
  <2>3. Places'
    BY <1>1, <1>t, PlacesStep
  <2>4. /\ GuardsFinite' /\ WorkCount'
        /\ \/ SchedulerPart /\ life = "alive"
           \/ UNCHANGED aborted
           \/ Expect(TRUE)
    BY <1>1, <1>t, <2>3, WorkStep
  <2>5. SchedulerInv'
    BY <1>1, <1>t, <2>4, SchedulerInvStep
  <2> QED
    BY <2>1, <2>2, <2>3, <2>4, <2>5 DEF LoopInv
<1>2. CASE UNCHANGED vars
  <2> USE DEF vars, userVars, lifeVars, loopVars
  <2>1. UNCHANGED <<active, cancelled, queue, mutex, pollPc, result, aborted>>
    BY <1>2 DEF ioVars, listVars, lockVars, pollVars
  <2>2. LoopTypeOK'
    BY <1>2, <1>t, <2>1 DEF LoopTypeOK
  <2>3. Control' /\ Emptied'
    BY <1>2, <1>t, <2>1 DEF Control, ThreadControl, NobodyInside, Emptied
  <2>4. Created' = Created /\ Queued' = Queued /\ Taken' = Taken
    BY <1>2, <2>1 DEF Created, Queued, Taken
  <2>5. Places'
    BY <1>2, <1>t, <2>1, <2>4 DEF Places, ListsApart, TakenApart, Accounted
  <2>6. GuardsFinite' /\ WorkCount'
    BY <1>2, <1>t, <2>4 DEF GuardsFinite, WorkCount, Live, Holders
  <2>7. UNCHANGED ioVars /\ UNCHANGED life
    BY <1>2
  <2>8. SchedulerTypeOK' /\ NoContractFailure'
    BY <1>t, <2>1, <2>7
    DEF SchedulerInv, SchedulerTypeOK, ListTypeOK, LockTypeOK, KernelTypeOK,
        PollTypeOK, ResultTypeOK, FlagTypeOK, NoContractFailure, ioVars,
        listVars, lockVars, kernelVars, pollVars
  <2>9. SchedulerInv'
    BY <1>t, <2>7, <2>8, InvStutter DEF SchedulerInv
  <2> QED
    BY <2>2, <2>3, <2>5, <2>6, <2>9 DEF LoopInv
<1> QED
  BY <1>1, <1>2

(***************************************************************************)
(* The inductive invariant of the loop holds in every reachable state, for *)
(* any number of threads, clients, operations and descriptors.             *)
(***************************************************************************)
THEOREM LoopInvariant == Spec => []LoopInv
  BY LoopInit, LoopStepKeeps, PTL DEF Spec

(***************************************************************************)
(* remaining_count_ is the number of living Work guards in every reachable *)
(* state: run() returns neither before the last handler has ended nor      *)
(* fails to return because a guard was counted twice.                      *)
(***************************************************************************)
THEOREM WorkIsCounted == Spec => []WorkCount
<1>1. LoopInv => WorkCount
  BY DEF LoopInv
<1> QED
  BY <1>1, LoopInvariant, PTL

(***************************************************************************)
(* With descriptors that stay open no EXIOS_EXPECT of context_thread.cpp   *)
(* or io_scheduler.cpp fails when the loop drives the scheduler:           *)
(* release_work() never finds a zero count, with exceptions, cancellations *)
(* and the destructors in between.                                         *)
(***************************************************************************)
THEOREM LoopContractsHold == Spec => []NoContractFailure
<1>1. LoopInv => NoContractFailure
  BY DEF LoopInv, SchedulerInv
<1> QED
  BY <1>1, LoopInvariant, PTL

(* The guards are counted by a natural number, so the counter is one. *)
LEMMA RemainingIsNat == LoopInv => remaining \in Nat
<1> SUFFICES ASSUME LoopInv PROVE remaining \in Nat
  OBVIOUS
<1>1. IsFiniteSet(Live) /\ WorkCount
  BY DEF LoopInv, GuardsFinite
<1>2. Holders \subseteq Clients
  BY DEF Holders
<1>3. IsFiniteSet(Holders)
  BY <1>2, LoopAssumption, FS_Subset
<1>4. Cardinality(Live) \in Nat /\ Cardinality(Holders) \in Nat
  BY <1>1, <1>3, FS_CardinalityType
<1> QED
  BY <1>1, <1>4 DEF WorkCount

(***************************************************************************)
(* The variables of ContextThread, of its users and of the scheduler keep  *)
(* their types; remaining_count_ never drops below zero.                   *)
(***************************************************************************)
THEOREM LoopTypeCorrect == Spec => []TypeOK
<1>1. LoopInv => TypeOK
  BY RemainingIsNat DEF LoopInv, LoopTypeOK, SchedulerInv, TypeOK
<1> QED
  BY <1>1, LoopInvariant, PTL

(***************************************************************************)
(* Whatever the context was in the middle of when its owner destroyed it,  *)
(* ~ContextThread() and ~IoScheduler() leave no operation behind, release  *)
(* every Work guard, and never free what was dispatched.                   *)
(***************************************************************************)
THEOREM DestructorsLeakNothing == Spec => []TeardownLeaksNothing
<1>1. LoopInv => TeardownLeaksNothing
  <2> SUFFICES ASSUME LoopInv PROVE TeardownLeaksNothing
    OBVIOUS
  <2>1. discarded \cap dispatched = {}
    BY DEF LoopInv, Places, Accounted
  <2>2. ASSUME life = "gone"
        PROVE  remaining = 0
    <3>1. active = <<>> /\ cancelled = <<>> /\ queue = <<>> /\ NobodyInside
      BY <2>2 DEF LoopInv, Emptied, Control
    <3>2. \A t \in Threads : tmp[t] = <<>> /\ running[t] = Nobody
      BY <3>1 DEF LoopInv, Control, ThreadControl, NobodyInside
    <3>3. ToSet(<<>>) = {}
      BY DEF ToSet
    <3>4. Queued = {} /\ Taken = {}
      BY <3>1, <3>2, <3>3 DEF Queued, Taken
    <3>5. Live = {} /\ Holders = {}
      BY <3>1, <3>2, <3>4
      DEF LoopInv, Places, Accounted, Live, Holders, NobodyInside
    <3> QED
      BY <3>5, FS_EmptySet DEF LoopInv, WorkCount
  <2> QED
    BY <2>1, <2>2 DEF TeardownLeaksNothing
<1> QED
  BY <1>1, LoopInvariant, PTL

(* How often an operation is among the completions threads have taken. *)
LEMMA TakenCount ==
    ASSUME LoopTypeOK, Places, NEW o
    PROVE  Cardinality({p \in TakenAt : tmp[p[1]][p[2]] = o})
              = IF o \in Taken THEN 1 ELSE 0
<1> DEFINE At_o == {p \in TakenAt : tmp[p[1]][p[2]] = o}
<1>t. \A t \in Threads :
         /\ Len(tmp[t]) \in Nat
         /\ ToSet(tmp[t]) = {tmp[t][i] : i \in 1..Len(tmp[t])}
         /\ \A i, j \in 1..Len(tmp[t]) : tmp[t][i] = tmp[t][j] => i = j
  <2> TAKE t \in Threads
  <2>1. tmp[t] \in Seq(Ops) /\ IsInjective(tmp[t])
    BY DEF LoopTypeOK, Places, TakenApart
  <2> QED
    BY <2>1, SetOfSeq
<1>h. \A t \in Threads : \A i \in 1..Len(tmp[t]) : tmp[t][i] \in ToSet(tmp[t])
  BY <1>t, ZenonT(60)
<1>p. /\ \A p \in TakenAt : /\ p[1] \in Threads /\ p[2] \in 1..Len(tmp[p[1]])
                            /\ p = <<p[1], p[2]>>
      /\ \A t \in Threads : \A i \in 1..Len(tmp[t]) : <<t, i>> \in TakenAt
  BY DEF TakenAt
<1>1. CASE o \in Taken
  <2>1. PICK t \in Threads : o \in ToSet(tmp[t])
    BY <1>1 DEF Taken
  <2>2. PICK i \in 1..Len(tmp[t]) : tmp[t][i] = o
    BY <1>t, <2>1
  <2>3. <<t, i>> \in At_o
    BY <1>p, <2>2
  <2>4. ASSUME NEW p \in At_o
        PROVE  p = <<t, i>>
    <3>1. p[1] \in Threads /\ p[2] \in 1..Len(tmp[p[1]])
          /\ p = <<p[1], p[2]>> /\ tmp[p[1]][p[2]] = o
      BY <1>p, <2>4
    <3>2. o \in ToSet(tmp[p[1]])
      BY <1>h, <3>1
    <3>3. p[1] = t
      BY <2>1, <3>1, <3>2 DEF Places, TakenApart
    <3>4. p[2] = i
      BY <1>t, <2>2, <3>1, <3>3
    <3> QED
      BY <3>1, <3>3, <3>4
  <2>5. At_o = {<<t, i>>}
    BY <2>3, <2>4
  <2> HIDE DEF At_o
  <2>6. Cardinality(At_o) = 1
    BY <2>5, FS_Singleton
  <2> QED
    BY <1>1, <2>6 DEF At_o
<1>2. CASE o \notin Taken
  <2>1. ASSUME NEW p \in At_o
        PROVE  FALSE
    <3>1. /\ p[1] \in Threads /\ p[2] \in 1..Len(tmp[p[1]])
          /\ tmp[p[1]][p[2]] = o
      BY <1>p, <2>1
    <3>2. o \in ToSet(tmp[p[1]])
      BY <1>h, <3>1
    <3> QED
      BY <1>2, <3>1, <3>2 DEF Taken
  <2>2. At_o = {}
    BY <2>1
  <2> HIDE DEF At_o
  <2>3. Cardinality(At_o) = 0
    BY <2>2, FS_EmptySet
  <2> QED
    BY <1>2, <2>3 DEF At_o
<1> QED
  BY <1>1, <1>2

(***************************************************************************)
(* A created operation is in exactly one of the lists until it is          *)
(* dispatched or discarded: threads that swap the completion queue out,    *)
(* exceptions that put the rest back and cancellations neither lose nor    *)
(* duplicate it, so its handler runs at most once.                         *)
(***************************************************************************)
THEOREM EveryOperationOnce == Spec => []DispatchedOnce
<1>1. LoopInv => DispatchedOnce
  <2> SUFFICES ASSUME LoopInv, NEW o \in Ops
               PROVE  Occurrences(o, active \o cancelled \o queue)
                        + Cardinality({p \in TakenAt : tmp[p[1]][p[2]] = o})
                        = (IF o \in Created \ (dispatched \cup discarded)
                           THEN 1 ELSE 0)
    BY DEF DispatchedOnce
  <2>t. /\ LoopTypeOK /\ Places /\ queue \in Seq(Ops) /\ ListsApart
        /\ active \in Seq(Ops) /\ cancelled \in Seq(Ops)
    <3>1. active \in Seq(IoOps) /\ cancelled \in Seq(IoOps)
      BY DEF LoopInv, SchedulerInv, SchedulerTypeOK, ListTypeOK
    <3>2. IoOps \subseteq Ops
      BY DEF Ops
    <3>3. active \in Seq(Ops) /\ cancelled \in Seq(Ops)
      BY <3>1, <3>2, ElementOfSeq, SeqDef
    <3> QED
      BY <3>3 DEF LoopInv, LoopTypeOK, Places
  <2> DEFINE ac  == active \o cancelled
             all == ac \o queue
  <2>1. ac \in Seq(Ops) /\ ToSet(ac) = ToSet(active) \cup ToSet(cancelled)
        /\ IsInjective(ac)
    BY <2>t, ConcatSet, ConcatProperties DEF ListsApart
  <2> HIDE DEF ac
  <2>2. all \in Seq(Ops) /\ ToSet(all) = Queued /\ IsInjective(all)
    <3>1. ToSet(ac) \cap ToSet(queue) = {}
      BY <2>1, <2>t DEF ListsApart
    <3> QED
      BY <2>1, <2>t, <3>1, ConcatSet, ConcatProperties
      DEF ListsApart, Queued
  <2> HIDE DEF all
  <2>3. Occurrences(o, all) = IF o \in Queued THEN 1 ELSE 0
    BY <2>2, OnePosition DEF Occurrences
  <2>4. Cardinality({p \in TakenAt : tmp[p[1]][p[2]] = o})
           = IF o \in Taken THEN 1 ELSE 0
    BY <2>t, TakenCount
  <2>5. /\ ~ (o \in Queued /\ o \in Taken)
        /\ o \in Created \ (dispatched \cup discarded)
              <=> o \in Queued \/ o \in Taken
    BY <2>t DEF Places, TakenApart, Accounted, Taken
  <2> QED
    BY <2>3, <2>4, <2>5 DEF all, ac
<1> QED
  BY <1>1, LoopInvariant, PTL

----------------------------------------------------------------------------
(* Sleeping on the condition variable *)

(* Between the predicate and the wait the lock keeps completions away. *)
SleepInv ==
    /\ \A t \in Threads : pc[t] = "sleep" => queue = <<>>
    /\ SleepersHaveNoCompletions

LEMMA SleepStep ==
    ASSUME LoopTypeOK, Control, SleepInv, Next
    PROVE  SleepInv'
<1> USE DEF listVars, lockVars, kernelVars, pollVars, ioVars, lifeVars,
            userVars, loopVars, vars
<1>t. /\ pc \in [Threads -> Pcs] /\ queue \in Seq(Ops)
      /\ \A t \in Threads : Awake(pc)[t] = IF pc[t] = "asleep" THEN "check"
                                           ELSE pc[t]
      /\ Awake(pc) \in [Threads -> Pcs]
  BY PcMoves DEF LoopTypeOK, Awake
<1>s. /\ \A t \in Threads : pc[t] = "sleep" => queue = <<>>
      /\ \A t \in Threads : pc[t] = "asleep" =>
             queue = <<>> \/ \E u \in Threads : pc[u] = "rethrow"
  BY DEF SleepInv, SleepersHaveNoCompletions
<1>1. ASSUME NotifyAll, queue' = queue \/ Unlocked
      PROVE  SleepInv'
  BY <1>1, <1>t, <1>s
  DEF NotifyAll, Unlocked, SleepInv, SleepersHaveNoCompletions
<1>2. ASSUME NEW t \in Threads, NEW where \in {"loop", "user"},
             Returned(t, where), queue' = queue
      PROVE  SleepInv'
  BY <1>2, <1>t, <1>s DEF Returned, SleepInv, SleepersHaveNoCompletions
<1>3. ASSUME NEW t \in Threads, NEW where \in Pcs \ {"sleep", "asleep"},
             Go(t, where), pc[t] # "rethrow", queue' = queue \/ queue' = <<>>
      PROVE  SleepInv'
  <2>1. \A u \in Threads : pc'[u] = IF u = t THEN where ELSE pc[u]
    BY <1>3, <1>t DEF Go
  <2> QED
    BY <1>3, <1>s, <2>1 DEF SleepInv, SleepersHaveNoCompletions
<1>4. ASSUME NEW t \in Threads, Check(t)
      PROVE  SleepInv'
  <2>1. /\ queue' = queue /\ pc[t] = "check"
        /\ Go(t, IF NothingToDo THEN "sleep" ELSE "take")
    BY <1>4 DEF Check, At
  <2>2. \A u \in Threads : pc'[u] = IF u # t THEN pc[u]
                                    ELSE IF NothingToDo THEN "sleep"
                                    ELSE "take"
    BY <1>t, <2>1 DEF Go
  <2>3. NothingToDo => queue = <<>>
    BY DEF NothingToDo
  <2> QED
    BY <1>s, <2>1, <2>2, <2>3 DEF SleepInv, SleepersHaveNoCompletions
<1>5. ASSUME NEW t \in Threads, FallAsleep(t)
      PROVE  SleepInv'
  <2>1. queue' = queue /\ pc[t] = "sleep" /\ Go(t, "asleep")
    BY <1>5 DEF FallAsleep, At
  <2>2. queue = <<>>
    BY <1>s, <2>1
  <2> QED
    BY <2>1, <2>2 DEF SleepInv, SleepersHaveNoCompletions
<1>6. ASSUME NEW t \in Threads, Unwind(t)
      PROVE  SleepInv'
  <2>1. /\ pc[t] = "unwind" /\ Go(t, "rethrow")
        /\ tmp[t] # <<>> => Unlocked
        /\ queue' = tmp[t] \o queue
    BY <1>6 DEF Unwind, At, PutBack
  <2>2. \A u \in Threads : pc'[u] = IF u = t THEN "rethrow" ELSE pc[u]
    BY <1>t, <2>1 DEF Go
  <2>3. tmp[t] = <<>> => queue' = queue
    BY <1>t, <2>1, ConcatEmptySeq
  <2> QED
    BY <1>s, <2>1, <2>2, <2>3
    DEF SleepInv, SleepersHaveNoCompletions, Unlocked
<1>7. ASSUME UNCHANGED <<pc, queue>>
      PROVE  SleepInv'
  BY <1>7 DEF SleepInv, SleepersHaveNoCompletions
<1>8. ASSUME DiscardCompletion
      PROVE  SleepInv'
  <2>1. NobodyInside /\ pc' = pc
    BY <1>8 DEF DiscardCompletion, Control
  <2> QED
    BY <2>1 DEF NobodyInside, SleepInv, SleepersHaveNoCompletions
<1>9. ASSUME \/ \E a \in Actors, o \in PostOps : Post(a, o)
             \/ \E a \in Actors, o \in IoOps : ScheduleIo(a, o)
             \/ \E a \in Actors, f \in Fds : CancelIo(a, f)
             \/ \E t \in Threads : PollPosts(t)
             \/ \E a \in Actors : CallNotify(a)
      PROVE  \/ NotifyAll /\ (queue' = queue \/ Unlocked)
             \/ UNCHANGED <<pc, queue>>
  BY <1>9
  DEF Post, ScheduleIo, CancelIo, PollPosts, CallNotify, Schedule, Cancel,
      CancelStuck
<1>10. ASSUME NEW t \in Threads,
              \/ CallRun(t) \/ LoopTest(t) \/ SpuriousWakeup(t)
              \/ TakeCompletions(t) \/ Dispatch(t)
              \/ EndHandler(t, "drain") \/ EndHandler(t, "unwind")
              \/ Peek(t) \/ TestEmpty(t) \/ CallPoll(t) \/ PollThrew(t)
       PROVE  /\ \E where \in Pcs \ {"sleep", "asleep"} : Go(t, where)
              /\ pc[t] # "rethrow"
              /\ queue' = queue \/ queue' = <<>>
  BY <1>10
  DEF Pcs, At, CallRun, LoopTest, SpuriousWakeup, TakeCompletions, Dispatch,
      EndHandler, Peek, TestEmpty, CallPoll, PollThrew, PollEnter
<1>11. ASSUME NEW t \in Threads, EndRunOnce(t) \/ Rethrow(t)
       PROVE  SleepInv'
  BY <1>2, <1>11 DEF EndRunOnce, Rethrow
<1>12. ASSUME \/ \E a \in Actors : KeepSplicing(a) \/ CallWake(a)
              \/ \E c \in Clients : ReleaseClientWork(c)
              \/ \E t \in Threads : PollGoesOn(t) \/ PollInterrupted(t)
              \/ EnvStep /\ UNCHANGED <<userVars, loopVars>>
              \/ Destroy \/ CloseEpoll \/ DiscardOperation \/ EndDestroy
              \/ UNCHANGED vars
       PROVE  UNCHANGED <<pc, queue>>
  BY <1>12, ZenonT(60)
  DEF KeepSplicing, CallWake, ReleaseClientWork, PollGoesOn,
      PollInterrupted, EnvStep, Destroy, CloseEpoll, DiscardOperation,
      EndDestroy, SpliceTurn, EndCancellations, StartWaiting, EpollReturns,
      EpollInterrupted, StopWaiting, LockNotifications, ProcessWake,
      BeginEvent, SkipItem, EndEvent, EndNotifications, BecomeReady,
      BecomeFailed
<1> HIDE DEF listVars, lockVars, kernelVars, pollVars, ioVars, lifeVars,
             userVars, loopVars, vars
<1>13. CASE \/ \E a \in Actors, o \in PostOps : Post(a, o)
            \/ \E a \in Actors, o \in IoOps : ScheduleIo(a, o)
            \/ \E a \in Actors, f \in Fds : CancelIo(a, f)
            \/ \E t \in Threads : PollPosts(t)
            \/ \E a \in Actors : CallNotify(a)
  BY <1>1, <1>7, <1>9, <1>13
<1>14. CASE \E t \in Threads :
              \/ CallRun(t) \/ LoopTest(t) \/ SpuriousWakeup(t)
              \/ TakeCompletions(t) \/ Dispatch(t)
              \/ EndHandler(t, "drain") \/ EndHandler(t, "unwind")
              \/ Peek(t) \/ TestEmpty(t) \/ CallPoll(t) \/ PollThrew(t)
  BY <1>3, <1>10, <1>14
<1> QED
  BY <1>4, <1>5, <1>6, <1>7, <1>8, <1>11, <1>12, <1>13, <1>14, NextCases

(***************************************************************************)
(* No thread sleeps on the condition variable while completions are queued *)
(* except while another is on its way to notify: the predicate is tested,  *)
(* and completions are queued, under the lock.                             *)
(***************************************************************************)
THEOREM SleepersAreIdle == Spec => []SleepersHaveNoCompletions
<1>1. Init => SleepInv
  <2> SUFFICES ASSUME Init PROVE SleepInv
    OBVIOUS
  <2>1. queue = <<>>
    BY DEF Init, IoInit
  <2> QED
    BY <2>1 DEF SleepInv, SleepersHaveNoCompletions
<1>2. LoopInv /\ SleepInv /\ [Next]_vars => SleepInv'
  <2> SUFFICES ASSUME LoopInv, SleepInv, [Next]_vars PROVE SleepInv'
    OBVIOUS
  <2>1. CASE Next
    BY <2>1, SleepStep DEF LoopInv
  <2>2. CASE UNCHANGED vars
    BY <2>2 DEF SleepInv, SleepersHaveNoCompletions, vars, loopVars, ioVars
  <2> QED
    BY <2>1, <2>2
<1>3. SleepInv => SleepersHaveNoCompletions
  BY DEF SleepInv
<1> QED
  BY <1>1, <1>2, <1>3, LoopInvariant, PTL DEF Spec

----------------------------------------------------------------------------
(* A loop that one thread runs and only its own handlers feed *)

OneThread == \A t, u \in Threads : t = u
Alone     == OneThread /\ Clients = {}

(***************************************************************************)
(* What run_once() has seen of the queue stays true until epoll_pwait():   *)
(* poll_once() may block only if the queue was empty, and hands over       *)
(* cancellations only by giving up blocking.                               *)
(***************************************************************************)
IdlePoll(t) ==
    /\ pc[t] \in {"io", "poll"} /\ ~ more[t] => queue = <<>>
    /\ pollPc[t] = "cancellations" /\ block[t] /\ count = 0 => queue = <<>>
    /\ pollPc[t] \in {"arm", "epoll"} /\ timeout[t] =>
           queue = <<>> /\ cancelled = <<>>
    /\ pollPc[t] \in {"leave", "lock", "process"} => ~ timeout[t]

LEMMA IdlePollStep ==
    ASSUME Alone, LoopTypeOK, ListTypeOK, PollTypeOK, Control,
           NEW t \in Threads, IdlePoll(t), Next, LoopTypeOK', Control'
    PROVE  IdlePoll(t)'
<1> USE DEF listVars, lockVars, kernelVars, pollVars, ioVars, lifeVars,
            userVars, loopVars, vars
<1>t. /\ pc \in [Threads -> Pcs] /\ pollPc \in [Threads -> PollPcs]
      /\ more \in [Threads -> BOOLEAN] /\ block \in [Threads -> BOOLEAN]
      /\ timeout \in [Threads -> BOOLEAN] /\ count \in Nat
      /\ pc' \in [Threads -> Pcs]
  BY DEF LoopTypeOK, PollTypeOK, ListTypeOK
<1>c. ThreadControl(t) /\ ThreadControl(t)' /\ (life # "alive" => NobodyInside)
  BY DEF Control
<1>o. Actors = Threads /\ \A u \in Threads : u = t
  BY DEF Alone, OneThread, Actors
<1>a. Awake(pc)[t] = IF pc[t] = "asleep" THEN "check" ELSE pc[t]
  BY DEF Awake
(* Outside of poll_once() and of the lines before it nothing is claimed. *)
<1>1. ASSUME pc'[t] \notin {"io", "poll", "guard"}
      PROVE  IdlePoll(t)'
  BY <1>1, <1>c DEF IdlePoll, ThreadControl
<1>2. ASSUME UNCHANGED <<queue, cancelled, count, pollPc, block, timeout,
                         more>>,
             NotifyAll \/ UNCHANGED pc
      PROVE  IdlePoll(t)'
  BY <1>2, <1>a DEF IdlePoll, NotifyAll
<1>3. ASSUME InUserCode(t), NotifyAll \/ UNCHANGED pc
      PROVE  IdlePoll(t)'
  <2>1. pc[t] \in {"user", "handler"}
    BY <1>3 DEF InUserCode
  <2> QED
    BY <1>1, <1>3, <1>a, <2>1 DEF NotifyAll
<1>4. ASSUME \/ \E a \in Actors, o \in PostOps : Post(a, o)
             \/ \E a \in Actors, o \in IoOps : ScheduleIo(a, o)
             \/ \E a \in Actors, f \in Fds : CancelIo(a, f)
      PROVE  IdlePoll(t)'
  BY <1>3, <1>4, <1>o DEF Post, ScheduleIo, CancelIo
<1>5. ASSUME \/ CallRun(t) \/ LoopTest(t) \/ Check(t) \/ FallAsleep(t)
             \/ SpuriousWakeup(t) \/ TakeCompletions(t) \/ Dispatch(t)
             \/ EndHandler(t, "drain") \/ EndHandler(t, "unwind")
             \/ EndRunOnce(t) \/ Unwind(t) \/ Rethrow(t) \/ PollThrew(t)
      PROVE  IdlePoll(t)'
  <2>1. \E where \in Pcs \ {"io", "poll", "guard"} :
           Go(t, where) \/ Returned(t, where)
    BY <1>5
    DEF Pcs, CallRun, LoopTest, Check, FallAsleep, SpuriousWakeup,
        TakeCompletions, Dispatch, EndHandler, EndRunOnce, Unwind, Rethrow,
        PollThrew
  <2>2. pc'[t] \notin {"io", "poll", "guard"}
    BY <1>t, <2>1 DEF Go, Returned, Awake
  <2> QED
    BY <1>1, <2>2
<1>6. ASSUME Peek(t)
      PROVE  IdlePoll(t)'
  <2>1. /\ pc[t] = "drain" /\ pc'[t] = "io" /\ more'[t] = (queue # <<>>)
        /\ UNCHANGED <<queue, pollPc>>
    BY <1>6, <1>t DEF Peek, At, Go, MoreCompletionsReady
  <2>2. pollPc[t] = "out"
    BY <1>c, <2>1 DEF ThreadControl
  <2> QED
    BY <2>1, <2>2 DEF IdlePoll
<1>7. ASSUME TestEmpty(t)
      PROVE  IdlePoll(t)'
  <2>1. /\ pc[t] = "io"
        /\ \/ pc'[t] = "poll" /\ UNCHANGED more
           \/ pc'[t] = "guard"
        /\ UNCHANGED <<queue, pollPc>>
    BY <1>7, <1>t DEF TestEmpty, At, Go
  <2>2. pollPc[t] = "out"
    BY <1>c, <2>1 DEF ThreadControl
  <2> QED
    BY <2>1, <2>2 DEF IdlePoll
<1>8. ASSUME CallPoll(t)
      PROVE  IdlePoll(t)'
  <2>1. /\ pc[t] = "poll" /\ pc'[t] = "guard" /\ block'[t] = ~ more[t]
        /\ pollPc'[t] = "cancellations" /\ UNCHANGED queue
    BY <1>8, <1>t DEF CallPoll, At, Go, PollEnter
  <2> QED
    BY <2>1 DEF IdlePoll
<1>9. ASSUME PollPosts(t)
      PROVE  IdlePoll(t)'
  <2>1. /\ pollPc' = pollPc /\ timeout' = timeout /\ count' = count + 1
        /\ pollPc[t] \in {"cancellations", "process"} /\ NotifyAll
    BY <1>9 DEF PollPosts, PostCancelled, CompleteItem
  <2>2. pc'[t] = "guard"
    BY <1>c, <1>a, <2>1 DEF ThreadControl, NotifyAll
  <2>3. count' # 0
    BY <1>t, <2>1
  <2> QED
    BY <2>1, <2>2, <2>3 DEF IdlePoll
<1>10. ASSUME PollGoesOn(t) \/ PollInterrupted(t)
       PROVE  IdlePoll(t)'
  <2>1. pc'[t] = "guard" /\ UNCHANGED <<queue, cancelled>>
    <3>1. pc' = pc /\ pollPc[t] # "out" /\ UNCHANGED <<queue, cancelled>>
      BY <1>10
      DEF PollGoesOn, PollInterrupted, EndCancellations, StartWaiting,
          EpollReturns, EpollInterrupted, StopWaiting, LockNotifications,
          ProcessWake, BeginEvent, SkipItem, EndEvent, EndNotifications
    <3> QED
      BY <1>c, <3>1 DEF ThreadControl
  <2>2. CASE EndCancellations(t)
    <3>1. /\ pollPc[t] = "cancellations" /\ cancelled = <<>>
          /\ \/ pollPc' = [pollPc EXCEPT ![t] = "out"]
             \/ /\ pollPc' = [pollPc EXCEPT ![t] = "arm"]
                /\ timeout' = [timeout EXCEPT ![t] = block[t] /\ count = 0]
      BY <2>2 DEF EndCancellations, LeavePoll, PollTimeout
    <3>2. pollPc'[t] = "out" \/ (pollPc'[t] = "arm"
                                 /\ timeout'[t] = (block[t] /\ count = 0))
      BY <1>t, <3>1
    <3> QED
      BY <2>1, <3>1, <3>2 DEF IdlePoll
  <2>3. CASE StartWaiting(t)
    <3>1. pollPc[t] = "arm" /\ pollPc'[t] = "epoll" /\ timeout' = timeout
      BY <1>t, <2>3 DEF StartWaiting
    <3> QED
      BY <2>1, <3>1 DEF IdlePoll
  <2>4. CASE EpollReturns(t)
    <3>1. pollPc'[t] = "leave" /\ timeout'[t] = FALSE
      BY <1>t, <2>4 DEF EpollReturns
    <3> QED
      BY <2>1, <3>1 DEF IdlePoll
  <2>5. CASE EpollInterrupted(t)
    <3>1. pollPc'[t] = "threw"
      BY <1>t, <2>5 DEF EpollInterrupted
    <3> QED
      BY <2>1, <3>1 DEF IdlePoll
  <2>6. CASE StopWaiting(t) \/ LockNotifications(t) \/ ProcessWake(t)
             \/ BeginEvent(t) \/ SkipItem(t) \/ EndEvent(t)
    <3>1. /\ pollPc[t] \in {"leave", "lock", "process"}
          /\ \/ pollPc' = pollPc
             \/ \E where \in {"lock", "process"} :
                   pollPc' = [pollPc EXCEPT ![t] = where]
          /\ timeout' = timeout
      BY <2>6 DEF StopWaiting, LockNotifications, ProcessWake, BeginEvent,
                  SkipItem, EndEvent
    <3>2. pollPc'[t] \in {"leave", "lock", "process"}
      BY <1>t, <3>1
    <3> QED
      BY <2>1, <3>1, <3>2 DEF IdlePoll
  <2>7. CASE EndNotifications(t)
    <3>1. /\ pollPc[t] = "process" /\ timeout' = timeout
          /\ \E where \in {"arm", "out"} :
                pollPc' = [pollPc EXCEPT ![t] = where]
      BY <2>7 DEF EndNotifications, LeavePoll
    <3>2. pollPc'[t] \in {"arm", "out"}
      BY <1>t, <3>1
    <3> QED
      BY <2>1, <3>1, <3>2 DEF IdlePoll
  <2> QED
    BY <1>10, <2>2, <2>3, <2>4, <2>5, <2>6, <2>7
    DEF PollGoesOn, PollInterrupted
<1>11. ASSUME DiscardCompletion \/ DiscardOperation
       PROVE  IdlePoll(t)'
  <2>1. NobodyInside /\ pc' = pc
    BY <1>11, <1>c DEF DiscardCompletion, DiscardOperation
  <2> QED
    BY <1>1, <2>1 DEF NobodyInside
<1>12. ASSUME \/ \E a \in Actors : \/ KeepSplicing(a) \/ CallWake(a)
                                   \/ CallNotify(a)
              \/ \E c \in Clients : ReleaseClientWork(c)
              \/ EnvStep /\ UNCHANGED <<userVars, loopVars>>
              \/ Destroy \/ CloseEpoll \/ EndDestroy \/ UNCHANGED vars
       PROVE  /\ UNCHANGED <<queue, cancelled, count, pollPc, block, timeout,
                             more>>
              /\ NotifyAll \/ UNCHANGED pc
  BY <1>12
  DEF KeepSplicing, CallWake, CallNotify, ReleaseClientWork, EnvStep,
      Destroy, CloseEpoll, EndDestroy, SpliceTurn, BecomeReady, BecomeFailed
<1> HIDE DEF listVars, lockVars, kernelVars, pollVars, ioVars, lifeVars,
             userVars, loopVars, vars
<1> QED
  BY <1>2, <1>4, <1>5, <1>6, <1>7, <1>8, <1>9, <1>10, <1>11, <1>12, <1>o,
     NextCases

(***************************************************************************)
(* A single thread never blocks in epoll_pwait() while a completion is     *)
(* queued or a cancelled operation waits to be handed over.  This is the   *)
(* deadlock that the note at src/io_scheduler.cpp:308 argues away.         *)
(***************************************************************************)
THEOREM BlockedLoopIsIdle ==
    ASSUME Alone
    PROVE  Spec => []BlockedMeansIdle
<1> DEFINE Inv == \A t \in Threads : IdlePoll(t)
<1>1. Init => Inv
  BY DEF Init, IoInit, IdlePoll
<1>2. LoopInv /\ LoopInv' /\ Inv /\ [Next]_vars => Inv'
  <2> SUFFICES ASSUME LoopInv, LoopInv', Inv, [Next]_vars,
                      NEW t \in Threads
               PROVE  IdlePoll(t)'
    OBVIOUS
  <2>1. CASE Next
    BY <2>1, IdlePollStep DEF LoopInv, SchedulerInv, SchedulerTypeOK
  <2>2. CASE UNCHANGED vars
    BY <2>2 DEF IdlePoll, vars, loopVars, ioVars, listVars, lockVars, pollVars
  <2> QED
    BY <2>1, <2>2
<1>3. Inv => BlockedMeansIdle
  BY DEF IdlePoll, BlockedMeansIdle
<1> QED
  BY <1>1, <1>2, <1>3, LoopInvariant, PTL DEF Spec

(***************************************************************************)
(* With a single thread completions are dispatched in the order in which   *)
(* they were queued, also when a handler throws and those behind it go     *)
(* back to the front of the queue, and the destructor discards them in     *)
(* that order too.                                                         *)
(***************************************************************************)
THEOREM LoopIsFifo ==
    ASSUME OneThread
    PROVE  Spec => CompletionsAreFifo
<1> DEFINE now(t)  == tmp[t] \o queue
           then(t) == tmp'[t] \o queue'
           Fifo(t) == \/ IsPrefix(now(t), then(t))
                      \/ now(t) # <<>> /\ then(t) = Tail(now(t))
<1>1. ASSUME LoopInv, [Next]_vars, NEW t \in Threads
      PROVE  Fifo(t)
  <2> USE DEF listVars, lockVars, kernelVars, pollVars, ioVars, lifeVars,
              userVars, loopVars, vars
  <2>t. /\ tmp \in [Threads -> Seq(Ops)] /\ tmp[t] \in Seq(Ops)
        /\ queue \in Seq(Ops) /\ now(t) \in Seq(Ops)
        /\ \A u \in Threads : u = t
    BY <1>1, ConcatProperties DEF LoopInv, LoopTypeOK, OneThread
  <2>c. ThreadControl(t) /\ (life # "alive" => NobodyInside)
    BY <1>1 DEF LoopInv, Control
  <2>s. \A s \in Seq(Ops) : s \o <<>> = s /\ <<>> \o s = s
    BY ConcatEmptySeq
  <2>1. ASSUME then(t) = now(t)
        PROVE  Fifo(t)
    <3>1. IsPrefix(now(t), now(t))
      <4> HIDE DEF now
      <4>1. Len(now(t)) \in Nat
        BY <2>t, LenProperties
      <4> QED
        BY <4>1 DEF IsPrefix
    <3> QED
      BY <2>1, <3>1
  <2>2. ASSUME UNCHANGED <<tmp, queue>>
        PROVE  Fifo(t)
    BY <2>1, <2>2
  <2>3. ASSUME NEW o \in Ops, queue' = Append(queue, o), tmp' = tmp
        PROVE  Fifo(t)
    <3>1. then(t) = Append(now(t), o)
      <4>1. Append(queue, o) = queue \o <<o>>
        BY <2>t, AppendIsConcat
      <4>2. Append(now(t), o) = now(t) \o <<o>>
        BY <2>t, AppendIsConcat
      <4>3. <<o>> \in Seq(Ops)
        OBVIOUS
      <4>4. tmp[t] \o (queue \o <<o>>) = (tmp[t] \o queue) \o <<o>>
        BY <2>t, <4>3, ConcatAssociative
      <4> QED
        BY <2>3, <4>1, <4>2, <4>4
    <3> HIDE DEF now, then
    <3>2. IsPrefix(now(t), then(t))
      BY <2>t, <3>1, PrefixOfAppend
    <3> QED
      BY <3>2
  <2>4. ASSUME TakeCompletions(t)
        PROVE  Fifo(t)
    <3>1. pc[t] = "take" /\ tmp'[t] = queue /\ queue' = <<>>
      BY <2>4, <2>t DEF TakeCompletions, At
    <3>2. tmp[t] = <<>>
      BY <2>c, <3>1 DEF ThreadControl
    <3>3. then(t) = now(t)
      BY <2>t, <2>s, <3>1, <3>2
    <3> QED
      BY <2>1, <3>3
  <2>5. ASSUME Unwind(t)
        PROVE  Fifo(t)
    <3>1. tmp'[t] = <<>> /\ queue' = now(t)
      BY <2>5, <2>t DEF Unwind, PutBack
    <3>2. then(t) = now(t)
      BY <2>t, <2>s, <3>1
    <3> QED
      BY <2>1, <3>2
  <2>6. ASSUME Dispatch(t)
        PROVE  Fifo(t)
    <3>1. tmp[t] # <<>> /\ tmp'[t] = Tail(tmp[t]) /\ queue' = queue
      BY <2>6, <2>t DEF Dispatch
    <3>2. now(t) # <<>> /\ then(t) = Tail(now(t))
      BY <2>t, <3>1, TailOfConcat
    <3> QED
      BY <3>2
  <2>7. ASSUME DiscardCompletion
        PROVE  Fifo(t)
    <3>1. /\ life # "alive" /\ queue # <<>> /\ queue' = Tail(queue)
          /\ tmp' = tmp
      BY <2>7 DEF DiscardCompletion
    <3>2. tmp[t] = <<>>
      BY <2>c, <3>1 DEF ThreadControl, NobodyInside
    <3>3. Tail(queue) \in Seq(Ops)
      BY <2>t, <3>1, HeadTailProperties
    <3>4. now(t) = queue /\ then(t) = Tail(queue)
      BY <2>t, <2>s, <3>1, <3>2, <3>3
    <3> QED
      BY <3>1, <3>4
  <2>8. ASSUME PollPosts(t)
        PROVE  Fifo(t)
    <3>1. tmp' = tmp /\ (PostCancelled(t) \/ CompleteItem(t))
      BY <2>8 DEF PollPosts
    <3>2. ListTypeOK /\ LockTypeOK /\ ListsApart /\ IoOps \subseteq Ops
      BY <1>1 DEF LoopInv, SchedulerInv, SchedulerTypeOK, Places, Ops
    <3>3. IsInjective(active) /\ IsInjective(cancelled)
      BY <3>2 DEF ListsApart
    <3>4. \E o \in ToSet(active) \cup ToSet(cancelled) :
             queue' = Append(queue, o)
      BY <3>1, <3>2, <3>3, PostCancelledEffect, CompleteEffect
    <3>5. \E o \in Ops : queue' = Append(queue, o)
      BY <3>2, <3>4, ActiveSet
    <3> HIDE DEF Fifo
    <3> QED
      BY <2>3, <3>1, <3>5
  <2>9. ASSUME NEW a \in Actors, NEW o \in PostOps, Post(a, o)
        PROVE  Fifo(t)
    <3>1. o \in Ops /\ queue' = Append(queue, o) /\ tmp' = tmp
      BY <2>9 DEF Post, Ops
    <3> HIDE DEF Fifo
    <3> QED
      BY <2>3, <3>1
  <2>10. \/ \E a \in Actors, o \in PostOps : Post(a, o)
         \/ \E u \in Threads : \/ PollPosts(u) \/ Unwind(u) \/ Dispatch(u)
                               \/ TakeCompletions(u)
         \/ DiscardCompletion
         \/ UNCHANGED <<tmp, queue>>
    <3>1. CASE Next
      BY <3>1, NextCases, ZenonT(60)
      DEF ScheduleIo, CancelIo, KeepSplicing, CallWake, CallNotify,
          ReleaseClientWork, CallRun, LoopTest, Check, FallAsleep,
          SpuriousWakeup, EndHandler, Peek, TestEmpty, EndRunOnce,
          Rethrow, CallPoll, PollGoesOn, PollInterrupted, PollThrew, EnvStep,
          Destroy, CloseEpoll, DiscardOperation, EndDestroy,
          Schedule, Cancel, CancelStuck, SpliceTurn, PollEnter,
          EndCancellations, StartWaiting, EpollReturns, EpollInterrupted,
          StopWaiting, LockNotifications, ProcessWake, BeginEvent, SkipItem,
          EndEvent, EndNotifications, BecomeReady, BecomeFailed
    <3>2. CASE UNCHANGED vars
      BY <3>2
    <3> QED
      BY <1>1, <3>1, <3>2, SMTT(40)
  <2> HIDE DEF Fifo, listVars, lockVars, kernelVars, pollVars, ioVars,
               lifeVars, userVars, loopVars, vars
  <2> QED
    BY <2>t, <2>2, <2>4, <2>5, <2>6, <2>7, <2>8, <2>9, <2>10
<1>2. LoopInv /\ [Next]_vars
      => [\A t \in Threads :
             LET now1  == tmp[t] \o queue
                 then1 == tmp'[t] \o queue'
             IN  \/ IsPrefix(now1, then1)
                 \/ now1 # <<>> /\ then1 = Tail(now1)]_<<tmp, queue>>
  BY <1>1
<1> QED
  BY <1>2, LoopInvariant, PTL DEF Spec, CompletionsAreFifo
============================================================================
