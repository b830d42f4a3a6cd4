--------------------------- MODULE ContextThread ---------------------------
(***************************************************************************)
(* The event loop: exios::ContextThread (src/context_thread.cpp) around    *)
(* the IoScheduler it owns, with the Work guards (include/exios/work.hpp)  *)
(* that keep run() going and the user code that feeds it: completion       *)
(* handlers, the code before run(), and other threads.                     *)
(*                                                                         *)
(* ContextThread::data_mutex_ is held across a step only between the test  *)
(* of the condition variable's predicate and the moment the thread sleeps  *)
(* (pc "sleep"); everything else under it is one step.  notify_all() and   *)
(* release_work() do not take it.                                          *)
(***************************************************************************)
EXTENDS IoScheduler

CONSTANTS
    PostOps,    \* operations given to post(), not to the scheduler
    MayThrow,   \* may a completion handler throw?
    Spurious,   \* may the condition variable wake up by itself?
    MayDestroy  \* may the owner destroy the context?

Ops == IoOps \cup PostOps

ASSUME LoopAssumption ==
    /\ IoOps \cap PostOps = {}
    /\ Nobody \notin Ops
    /\ Threads \cap Clients = {} /\ IsFiniteSet(Clients)
    /\ MayThrow \in BOOLEAN
    /\ Spurious \in BOOLEAN
    /\ MayDestroy \in BOOLEAN

VARIABLES
    pc,          \* where each thread is in run() and run_once()
    tmp,         \* the completions each thread took from the queue
    running,     \* the operation whose handler each thread executes
    more,        \* more_completions_ready
    call,        \* how far each actor is in release_work() or at run()'s end
    holds,       \* does the client own a Work guard?
    remaining,   \* remaining_count_
    posted,      \* the PostOps that have been posted
    dispatched,  \* operations whose dispatch() was called
    discarded,   \* operations whose discard() was called instead
    life         \* how far the destructors have come

lifeVars == <<discarded, life>>
userVars == <<holds, posted, lifeVars>>
loopVars == <<pc, tmp, running, more, call, remaining, dispatched>>
vars     == <<ioVars, userVars, loopVars>>

(* Seeded defect: the lock is not held until the thread sleeps. *)
NeverLocked == TRUE

(* ContextThread::data_mutex_ is free. *)
Unlocked == \A t \in Threads : pc[t] # "sleep"

(* cvar_.notify_all(): a sleeper must take the lock and test again. *)
Awake(p) == [t \in Threads |-> IF p[t] = "asleep" THEN "check" ELSE p[t]]

NotifyAll == pc' = Awake(pc)

Go(t, where) == pc' = [pc EXCEPT ![t] = where]

Returned(t, where) == pc' = [Awake(pc) EXCEPT ![t] = where]

(* Thread t is at `where' and not in the middle of a nested call. *)
At(t, where) == pc[t] = where /\ call[t] = "none"

----------------------------------------------------------------------------
(***************************************************************************)
(* User code: before run(), in a completion handler, or in another thread  *)
(* while its Work guard keeps the loop alive.  Every operation latches     *)
(* work when it is created and is submitted in the same step: the caller's *)
(* own guard, or its own coming call of run(), hides the difference.       *)
(***************************************************************************)
InUserCode(a) ==
    /\ call[a] = "none"
    /\ mutex # a
    /\ life = "alive"
    /\ IF a \in Threads THEN pc[a] \in {"user", "handler"} ELSE holds[a]

(* Seeded defect: the operation carries no Work guard. *)
LatchForgotten == UNCHANGED remaining

(* latch_work() *)
Latch == remaining' = remaining + 1

(* Context::post() and ContextThread::post() *)
Post(a, o) ==
    /\ InUserCode(a)
    /\ Unlocked
    /\ o \in PostOps \ posted
    /\ posted' = posted \cup {o}
    /\ Latch
    /\ queue' = Append(queue, o)
    /\ Trigger
    /\ NotifyAll
    /\ UNCHANGED <<listVars, lockVars, kernelVars, pollVars, interest, waiting,
                   result, aborted, tmp, running, more, call, holds,
                   lifeVars, dispatched>>

ScheduleIo(a, o) ==
    /\ InUserCode(a)
    /\ Schedule(o)
    /\ Latch
    /\ NotifyAll
    /\ UNCHANGED <<userVars, tmp, running, more, call, dispatched>>

CancelIo(a, f) ==
    /\ InUserCode(a)
    /\ \/ Cancel(f) /\ NotifyAll
       \/ CancelStuck(a, f) /\ UNCHANGED pc
    /\ UNCHANGED <<userVars, tmp, running, more, call, remaining, dispatched>>

(* A cancel() that does not come back, see IoScheduler. *)
KeepSplicing(a) == SpliceTurn(a) /\ UNCHANGED <<userVars, loopVars>>

(* Seeded defects: the count is lowered twice, or not at all. *)
ReleaseTwice(a) ==
    /\ remaining' = remaining - 2
    /\ Expect(remaining > 0)
    /\ call' = [call EXCEPT ![a] = "wake"]
ReleaseNothing(a) ==
    /\ UNCHANGED <<remaining, aborted>>
    /\ call' = [call EXCEPT ![a] = "wake"]

(***************************************************************************)
(* release_work(): the count, then the wake event, then the condition      *)
(* variable, none of it under the lock.                                    *)
(***************************************************************************)
Release(a) ==
    /\ remaining' = remaining - 1
    /\ Expect(remaining > 0)
    /\ call' = [call EXCEPT ![a] = "wake"]

CallWake(a) ==
    /\ call[a] = "wake"
    /\ Trigger
    /\ call' = [call EXCEPT ![a] = "notify"]
    /\ UNCHANGED <<listVars, lockVars, kernelVars, pollVars, interest, waiting,
                   result, queue, aborted, userVars, pc, tmp, running, more,
                   remaining, dispatched>>

CallNotify(a) ==
    /\ call[a] = "notify"
    /\ NotifyAll
    /\ call' = [call EXCEPT ![a] = "none"]
    /\ UNCHANGED <<ioVars, userVars, tmp, running, more, remaining,
                   dispatched>>

ReleaseClientWork(c) ==
    /\ holds[c]
    /\ InUserCode(c)
    /\ holds' = [holds EXCEPT ![c] = FALSE]
    /\ Release(c)
    /\ UNCHANGED <<listVars, lockVars, kernelVars, pollVars, interest, wake,
                   waiting, result, queue, posted, lifeVars, pc, tmp, running,
                   more, dispatched>>

----------------------------------------------------------------------------
(* run() *)

CallRun(t) ==
    /\ At(t, "user") /\ mutex # t /\ life = "alive"
    /\ Go(t, "loop")
    /\ UNCHANGED <<ioVars, userVars, tmp, running, more, call, remaining,
                   dispatched>>

(* while (remaining_count_ > 0); run() wakes everybody before it returns. *)
LoopTest(t) ==
    /\ At(t, "loop")
    /\ \/ remaining > 0 /\ Go(t, "check") /\ UNCHANGED call
       \/ /\ remaining = 0
          /\ Go(t, "returned")
          /\ call' = [call EXCEPT ![t] = "wake"]
    /\ UNCHANGED <<ioVars, userVars, tmp, running, more, remaining,
                   dispatched>>

(* Also the predicate of cvar_.wait(). *)
NothingToDo == queue = <<>> /\ pollLen = 0 /\ remaining > 0

Check(t) ==
    /\ At(t, "check")
    /\ Unlocked
    /\ Go(t, IF NothingToDo THEN "sleep" ELSE "take")
    /\ UNCHANGED <<ioVars, userVars, tmp, running, more, call, remaining,
                   dispatched>>

(* Release the lock and block, indivisibly for holders of the lock only. *)
FallAsleep(t) ==
    /\ At(t, "sleep")
    /\ Go(t, "asleep")
    /\ UNCHANGED <<ioVars, userVars, tmp, running, more, call, remaining,
                   dispatched>>

SpuriousWakeup(t) ==
    /\ Spurious
    /\ At(t, "asleep")
    /\ Go(t, "check")
    /\ UNCHANGED <<ioVars, userVars, tmp, running, more, call, remaining,
                   dispatched>>

----------------------------------------------------------------------------
(* run_once() *)

TakeCompletions(t) ==
    /\ At(t, "take")
    /\ Unlocked
    /\ tmp' = [tmp EXCEPT ![t] = queue]
    /\ queue' = <<>>
    /\ Go(t, "drain")
    /\ UNCHANGED <<listVars, lockVars, kernelVars, pollVars, interest, wake,
                   waiting, result, aborted, userVars, running, more, call,
                   remaining, dispatched>>

(* drain_list(): pop the front item, then dispatch it. *)
Dispatch(t) ==
    /\ At(t, "drain")
    /\ tmp[t] # <<>>
    /\ running' = [running EXCEPT ![t] = Head(tmp[t])]
    /\ tmp' = [tmp EXCEPT ![t] = Tail(@)]
    /\ dispatched' = dispatched \cup {Head(tmp[t])}
    /\ Go(t, "handler")
    /\ UNCHANGED <<ioVars, userVars, more, call, remaining>>

(* The handler's end destroys its Work guard, with or without exception. *)
EndHandler(t, where) ==
    /\ At(t, "handler") /\ mutex # t
    /\ running' = [running EXCEPT ![t] = Nobody]
    /\ Release(t)
    /\ Go(t, where)
    /\ UNCHANGED <<listVars, lockVars, kernelVars, pollVars, interest, wake,
                   waiting, result, queue, userVars, tmp, more, dispatched>>

HandlerReturns(t) == EndHandler(t, "drain")
HandlerThrows(t)  == MayThrow /\ EndHandler(t, "unwind")

(* Seeded defect: completions queued meanwhile are overlooked. *)
NoMoreCompletions == FALSE

MoreCompletionsReady == queue # <<>>

Peek(t) ==
    /\ At(t, "drain")
    /\ tmp[t] = <<>>
    /\ Unlocked
    /\ more' = [more EXCEPT ![t] = MoreCompletionsReady]
    /\ Go(t, "io")
    /\ UNCHANGED <<ioVars, userVars, tmp, running, call, remaining,
                   dispatched>>

(* if (!io_scheduler_.empty()) *)
TestEmpty(t) ==
    /\ At(t, "io")
    /\ \/ pollLen > 0 /\ Go(t, "poll") /\ UNCHANGED more
       \/ /\ pollLen = 0
          /\ Go(t, "guard")
          /\ more' = [more EXCEPT ![t] = FALSE]
    /\ UNCHANGED <<ioVars, userVars, tmp, running, call, remaining,
                   dispatched>>

CallPoll(t) ==
    /\ At(t, "poll")
    /\ PollEnter(t, ~ more[t])
    /\ Go(t, "guard")
    /\ more' = [more EXCEPT ![t] = FALSE]
    /\ UNCHANGED <<userVars, tmp, running, call, remaining, dispatched>>

(* The steps of poll_once() that call ContextThread::post(). *)
PollPosts(t) ==
    /\ Unlocked
    /\ PostCancelled(t) \/ CompleteItem(t)
    /\ NotifyAll
    /\ UNCHANGED <<userVars, tmp, running, more, call, remaining, dispatched>>

PollGoesOn(t) ==
    /\ \/ EndCancellations(t) \/ StartWaiting(t) \/ EpollReturns(t)
       \/ StopWaiting(t) \/ LockNotifications(t) \/ ProcessWake(t)
       \/ BeginEvent(t) \/ SkipItem(t) \/ EndEvent(t) \/ EndNotifications(t)
    /\ UNCHANGED <<userVars, loopVars>>

PollInterrupted(t) == EpollInterrupted(t) /\ UNCHANGED <<userVars, loopVars>>

(* The scope guard that notifies, on the way out of run_once(). *)
EndRunOnce(t) ==
    /\ At(t, "guard")
    /\ pollPc[t] = "out"
    /\ Returned(t, "loop")
    /\ UNCHANGED <<ioVars, userVars, tmp, running, more, call, remaining,
                   dispatched>>

(* poll_once() threw; tmp is empty by then. *)
PollThrew(t) ==
    /\ At(t, "guard")
    /\ pollPc[t] = "threw"
    /\ pollPc' = [pollPc EXCEPT ![t] = "out"]
    /\ Go(t, "unwind")
    /\ UNCHANGED <<listVars, lockVars, kernelVars, block, timeout, events,
                   full, interest, wake, waiting, result, queue, aborted,
                   userVars, tmp, running, more, call, remaining, dispatched>>

(* Seeded defects: put back behind newer completions, or not at all. *)
PutBackAtEnd(rest, q) == q \o rest
PutBackNothing(rest, q) == q

(* Unprocessed completions go back to the front of the queue. *)
PutBack(rest, q) == rest \o q

Unwind(t) ==
    /\ At(t, "unwind")
    /\ tmp[t] # <<>> => Unlocked
    /\ queue' = PutBack(tmp[t], queue)
    /\ tmp' = [tmp EXCEPT ![t] = <<>>]
    /\ Go(t, "rethrow")
    /\ UNCHANGED <<listVars, lockVars, kernelVars, pollVars, interest, wake,
                   waiting, result, aborted, userVars, running, more, call,
                   remaining, dispatched>>

(* The notifying guard again; the caller of run() catches the exception. *)
Rethrow(t) ==
    /\ At(t, "rethrow")
    /\ Returned(t, "user")
    /\ UNCHANGED <<ioVars, userVars, tmp, running, more, call, remaining,
                   dispatched>>

----------------------------------------------------------------------------
(***************************************************************************)
(* The destructors: ~ContextThread() discards the queued completions, then *)
(* ~IoScheduler() closes epoll and discards its list.  That no thread is   *)
(* inside the context any more is its owner's to see to.  Every discarded  *)
(* operation destroys its Work guard.                                      *)
(***************************************************************************)
Destroy ==
    /\ MayDestroy
    /\ life = "alive"
    /\ \A t \in Threads : pc[t] \in {"user", "returned"}
    /\ \A a \in Actors : call[a] = "none"
    /\ \A c \in Clients : ~ holds[c]
    /\ mutex = Nobody
    /\ life' = "completions"
    /\ UNCHANGED <<ioVars, holds, posted, loopVars, discarded>>

(* discard() of operation o, and the count of release_work() *)
Discard(o) ==
    /\ discarded' = discarded \cup {o}
    /\ remaining' = remaining - 1
    /\ Expect(remaining > 0)

DiscardCompletion ==
    /\ life = "completions"
    /\ queue # <<>>
    /\ Discard(Head(queue))
    /\ queue' = Tail(queue)
    /\ UNCHANGED <<listVars, lockVars, kernelVars, pollVars, interest, wake,
                   waiting, result, holds, posted, life, pc, tmp, running,
                   more, call, dispatched>>

CloseEpoll ==
    /\ life = "completions"
    /\ queue = <<>>
    /\ life' = "operations"
    /\ interest' = [f \in DOMAIN interest |-> {}]
    /\ UNCHANGED <<listVars, lockVars, kernelVars, pollVars, wake, waiting,
                   result, queue, aborted, holds, posted, discarded, loopVars>>

(* Seeded defect: the list is drained up to begin_cancelled_ only. *)
ActiveOnly == active

(* operations_, from its begin to its end *)
Operations == active \o cancelled

DiscardOperation ==
    /\ life = "operations"
    /\ Operations # <<>>
    /\ Discard(Head(Operations))
    /\ IF active # <<>> THEN active' = Tail(active) /\ UNCHANGED cancelled
       ELSE cancelled' = Tail(cancelled) /\ UNCHANGED active
    /\ UNCHANGED <<pollLen, lockVars, kernelVars, pollVars, interest, wake,
                   waiting, result, queue, holds, posted, life, pc, tmp,
                   running, more, call, dispatched>>

EndDestroy ==
    /\ life = "operations"
    /\ Operations = <<>>
    /\ life' = "gone"
    /\ UNCHANGED <<ioVars, holds, posted, loopVars, discarded>>

Teardown == Destroy \/ DiscardCompletion \/ CloseEpoll \/ DiscardOperation
            \/ EndDestroy

----------------------------------------------------------------------------
Init ==
    /\ IoInit
    /\ pc = [t \in Threads |-> "user"]
    /\ tmp = [t \in Threads |-> <<>>]
    /\ running = [t \in Threads |-> Nobody]
    /\ more = [t \in Threads |-> FALSE]
    /\ call = [a \in Actors |-> "none"]
    /\ holds = [c \in Clients |-> TRUE]
    /\ remaining = Cardinality(Clients)
    /\ posted = {}
    /\ dispatched = {}
    /\ discarded = {}
    /\ life = "alive"

UserStep(a) ==
    \/ \E o \in PostOps : Post(a, o)
    \/ \E o \in IoOps : ScheduleIo(a, o)
    \/ \E f \in Fds : CancelIo(a, f)

(* What a thread does by itself once it is scheduled by the system. *)
LoopStep(t) ==
    \/ CallRun(t) \/ LoopTest(t) \/ Check(t) \/ FallAsleep(t)
    \/ TakeCompletions(t) \/ Dispatch(t) \/ HandlerReturns(t) \/ Peek(t)
    \/ TestEmpty(t) \/ CallPoll(t) \/ PollPosts(t) \/ PollGoesOn(t)
    \/ EndRunOnce(t) \/ PollThrew(t) \/ Unwind(t) \/ Rethrow(t)

CallStep(a) == CallWake(a) \/ CallNotify(a)

(* All work is done, every run() has returned, or the context is gone. *)
Finished ==
    \/ life = "gone"
    \/ /\ \A t \in Threads : pc[t] = "returned"
       /\ \A a \in Actors : call[a] = "none"
       /\ \A c \in Clients : ~ holds[c]

Next ==
    \/ \E t \in Threads : \/ LoopStep(t) \/ HandlerThrows(t)
                          \/ SpuriousWakeup(t) \/ PollInterrupted(t)
    \/ \E a \in Actors : UserStep(a) \/ CallStep(a) \/ KeepSplicing(a)
    \/ \E c \in Clients : ReleaseClientWork(c)
    \/ EnvStep /\ UNCHANGED <<userVars, loopVars>>
    \/ Teardown
    \/ Finished /\ UNCHANGED vars

Spec == Init /\ [][Next]_vars

(***************************************************************************)
(* Every runnable thread is scheduled, a handler comes to its end, and a   *)
(* client finally drops its guard.  Nothing else is promised: no handler   *)
(* has to post or throw, no descriptor has to become ready.                *)
(***************************************************************************)
FairSpec ==
    /\ Spec
    /\ \A t \in Threads : WF_vars(LoopStep(t))
    /\ \A a \in Actors : WF_vars(CallStep(a))
    /\ \A c \in Clients : WF_vars(ReleaseClientWork(c))

----------------------------------------------------------------------------
(* Properties *)

Pcs == {"user", "loop", "check", "sleep", "asleep", "take", "drain",
        "handler", "io", "poll", "guard", "unwind", "rethrow", "returned"}

(* The type invariant of the loop and its scheduler. *)
TypeOK ==
    /\ SchedulerTypeOK
    /\ queue \in Seq(Ops)
    /\ pc \in [Threads -> Pcs]
    /\ tmp \in [Threads -> Seq(Ops)]
    /\ running \in [Threads -> Ops \cup {Nobody}]
    /\ more \in [Threads -> BOOLEAN]
    /\ call \in [Actors -> {"none", "wake", "notify"}]
    /\ holds \in [Clients -> BOOLEAN]
    /\ remaining \in Nat
    /\ posted \subseteq PostOps
    /\ dispatched \subseteq Ops
    /\ discarded \subseteq Ops
    /\ life \in {"alive", "completions", "operations", "gone"}

(* Operations that were created, and those whose Work guard still lives.   *)
(* The guard dies with the handler, not when the handler starts.           *)
Created == posted \cup {o \in IoOps : result[o] # "new"}
Live    == (Created \ (dispatched \cup discarded))
               \cup ({running[t] : t \in Threads} \ {Nobody})
Holders == {c \in Clients : holds[c]}

(***************************************************************************)
(* remaining_count_ is the number of living Work guards: one for every     *)
(* operation from its creation to the end of its handler, one for every    *)
(* client that still has its own.  run() returns when it reads zero, so    *)
(* one count too few abandons operations and one too many hangs run().     *)
(***************************************************************************)
WorkCount == remaining = Cardinality(Live) + Cardinality(Holders)

(***************************************************************************)
(* A created operation is in exactly one place until it is dispatched: in  *)
(* one of the scheduler's lists, in the completion queue, or among the     *)
(* completions one thread has taken.  Exceptions and threads that take     *)
(* turns neither lose nor duplicate it, and it is dispatched only once.    *)
(***************************************************************************)
Occurrences(o, s) == Cardinality({i \in 1..Len(s) : s[i] = o})

(* The thread and the position of every completion that was taken. *)
TakenAt == UNION {{t} \X (1..Len(tmp[t])) : t \in Threads}

DispatchedOnce ==
    \A o \in Ops :
        Occurrences(o, active \o cancelled \o queue)
          + Cardinality({p \in TakenAt : tmp[p[1]][p[2]] = o})
          = (IF o \in Created \ (dispatched \cup discarded) THEN 1 ELSE 0)

(***************************************************************************)
(* When the destructors have ended, whatever the context was in the middle *)
(* of, no operation is left in it and every Work guard was released: those *)
(* queued, those waiting for I/O and those cancelled but not yet handed    *)
(* over.  Nothing is freed twice: discarded and dispatched are disjoint.   *)
(***************************************************************************)
TeardownLeaksNothing ==
    /\ life = "gone" => remaining = 0
    /\ discarded \cap dispatched = {}

(***************************************************************************)
(* No thread sleeps on the condition variable while completions are        *)
(* queued, except for the moment in which a thread that has put its        *)
(* completions back after an exception is about to notify.                 *)
(***************************************************************************)
SleepersHaveNoCompletions ==
    (\E t \in Threads : pc[t] = "asleep") =>
        queue = <<>> \/ \E u \in Threads : pc[u] = "rethrow"

(***************************************************************************)
(* With one thread: when epoll_pwait() may block, no completion is queued  *)
(* and no cancelled operation waits to be handed over.  This is the        *)
(* deadlock the note at src/io_scheduler.cpp:308 is about.                 *)
(***************************************************************************)
BlockedMeansIdle ==
    \A t \in Threads :
        (pollPc[t] = "epoll" /\ timeout[t]) => queue = <<>> /\ cancelled = <<>>

(***************************************************************************)
(* With one thread: completions are dispatched in the order in which they  *)
(* were queued.  What waits (taken, then queued) only loses its head or    *)
(* grows at its end, across exceptions too (src/context_thread.cpp:89).    *)
(***************************************************************************)
CompletionsAreFifo ==
    [][\A t \in Threads :
          LET now  == tmp[t] \o queue
              then == tmp'[t] \o queue'
          IN  \/ IsPrefix(now, then)
              \/ now # <<>> /\ then = Tail(now)]_<<tmp, queue>>

(* What was posted is dispatched in the end, whatever I/O is pending. *)
PostedIsDispatched == \A o \in PostOps : (o \in posted) ~> (o \in dispatched)

(* So is what was cancelled: the handler of a cancelled operation runs. *)
CancelledIsDispatched ==
    \A o \in IoOps : (result[o] = "canceled") ~> (o \in dispatched)

(* So is I/O that has become possible, unless something else used it up. *)
ReadyIsDispatched ==
    \A o \in IoOps :
        (o \in ToSet(active) /\ <<OpFd[o], Dir(o)>> \in ready)
            ~> (o \in dispatched \/ <<OpFd[o], Dir(o)>> \notin ready)

(* Every call of run() returns once no operation waits for readiness. *)
RunReturns ==
    <>[](active = <<>>) => \A t \in Threads : <>(pc[t] = "returned")

============================================================================
