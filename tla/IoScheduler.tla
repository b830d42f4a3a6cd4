---------------------------- MODULE IoScheduler ----------------------------
(***************************************************************************)
(* The I/O half of the event loop: exios::IoScheduler                      *)
(* (src/io_scheduler.cpp), the eventfd that wakes it                       *)
(* (src/poll_wake_event.cpp) and the part of epoll it relies on.           *)
(*                                                                         *)
(* operations_ is one intrusive list cut in two by begin_cancelled_.  Here *)
(* it is two sequences: `active' before the cut, `cancelled' after it.     *)
(* data_mutex_ is `mutex'.  What happens under it is one step unless it    *)
(* reads or writes state that data_mutex_ does not protect: the completion *)
(* queue, the wake event and the readiness of descriptors.  poll_once() is *)
(* therefore a small program (pollPc), while schedule() and cancel() are   *)
(* single actions.                                                         *)
(*                                                                         *)
(* A descriptor stays open here while operations are scheduled on it.      *)
(* What closing it does to epoll_ctl(), EPOLL_CTL_ADD included, is in      *)
(* SocketIo.                                                               *)
(***************************************************************************)
EXTENDS Integers, FiniteSets, Sequences, SequencesExt, FiniteSetsExt

CONSTANTS
    Threads,     \* threads that call poll_once()
    Clients,     \* other threads that call schedule() and cancel()
    Nobody,      \* "no actor", "no descriptor"
    IoOps,       \* AsyncIoOperation objects, each scheduled at most once
    Fds,         \* descriptors, ordered as the int values they are
    WakeFd,      \* wake_event_.get_fd()
    OpFd,        \* AsyncIoOperation::get_fd()
    ReadOps,     \* the operations with is_read_operation()
    MaxEvents,   \* kMaxEventsPerPoll
    FailingFds,  \* descriptors that may report EPOLLERR without EPOLLIN
    Interrupts   \* may a signal handler interrupt a blocked epoll_pwait()?

Actors == Threads \cup Clients

ASSUME IoAssumption ==
    /\ IsFiniteSet(Threads)
    /\ Nobody \notin Actors /\ Nobody \notin Fds
    /\ Fds \subseteq Nat /\ WakeFd \in Nat \ Fds
    /\ OpFd \in [IoOps -> Fds]
    /\ ReadOps \subseteq IoOps
    /\ MaxEvents \in Nat \ {0}
    /\ FailingFds \subseteq Fds
    /\ Interrupts \in BOOLEAN

VARIABLES
    active,     \* operations_ from begin() to begin_cancelled_
    cancelled,  \* operations_ from begin_cancelled_ to end()
    pollLen,    \* poll_queue_length_
    mutex,      \* who holds IoScheduler::data_mutex_
    spliceFd,   \* the descriptor whose range a cancel() is still splicing
    result,     \* what each operation will hand to its completion
    queue,      \* ContextThread::completion_queue_, where posts end up
    interest,   \* epoll's registration: fd -> set of directions, {} = none
    ready,      \* pairs <<fd, direction>> for which I/O would not block
    err,        \* descriptors with a pending error condition
    wake,       \* is the counter of wake_event_ above zero?
    waiting,    \* threads_waiting
    pollPc,     \* where each thread is in poll_once()
    block,      \* its argument
    timeout,    \* TRUE: poll_timeout is -1, FALSE: it is 0
    events,     \* the events it still has to process
    full,       \* did epoll_pwait() fill the buffer?
    count,      \* posted by the holder of mutex, not yet subtracted
    cur,        \* the event being processed by the holder of mutex
    aborted     \* has an EXIOS_EXPECT failed?

listVars   == <<active, cancelled, pollLen>>
lockVars   == <<mutex, spliceFd, count, cur>>
kernelVars == <<ready, err>>
pollVars   == <<pollPc, block, timeout, events, full>>
ioVars     == <<listVars, lockVars, kernelVars, pollVars, interest, wake,
                waiting, result, queue, aborted>>

Direction == {"IN", "OUT"}
Event     == [fd : Fds \cup {WakeFd}, readable : BOOLEAN]
Cursor    == [fd : Fds \cup {Nobody}, readable : BOOLEAN,
              next : Nat \ {0}, rereg : SUBSET Direction]
NoCursor  == [fd |-> Nobody, readable |-> FALSE, next |-> 1, rereg |-> {}]

(* EPOLLIN or EPOLLOUT, the interest an operation stands for. *)
Dir(o) == IF o \in ReadOps THEN "IN" ELSE "OUT"

(***************************************************************************)
(* std::lower_bound over the active operations.  The set has one member    *)
(* when the list is partitioned with respect to fd, as C++ requires.       *)
(***************************************************************************)
LowerBounds(s, fd) ==
    {p \in 1..(Len(s) + 1) : /\ \A i \in 1..(p - 1) : OpFd[s[i]] < fd
                             /\ \A i \in p..Len(s) : OpFd[s[i]] >= fd}

(* Where a scan from p over the items of fd stops. *)
RunEnds(s, p, fd) ==
    {q \in p..(Len(s) + 1) : /\ \A i \in p..(q - 1) : OpFd[s[i]] = fd
                             /\ q <= Len(s) => OpFd[s[q]] # fd}

(***************************************************************************)
(* trigger(threads_waiting): writing zero to an eventfd changes nothing,   *)
(* and every reader takes the whole counter, so only its sign matters.     *)
(***************************************************************************)
Trigger == wake' = (wake \/ waiting > 0)

(* ContextThread::post() as the scheduler uses it. *)
PostIo(o) == /\ queue' = Append(queue, o)
             /\ Trigger

Expect(condition) == aborted' = (aborted \/ ~condition)

(* Seeded defects: the subtraction forgotten, or one too many. *)
DecrementForgotten == UNCHANGED pollLen
DecrementTooMuch   == pollLen' = pollLen - count - 1

(* decrement_count(poll_queue_length_, n), at the end of a critical section. *)
DecrementCount == pollLen' = pollLen - count

----------------------------------------------------------------------------
(* schedule(op) *)

(* Seeded defect: no binary search, everything else goes to the end. *)
SearchPosNoSearch(s, fd) ==
    IF s # <<>> /\ fd <= OpFd[s[1]] THEN {1} ELSE {Len(s) + 1}

(* The two shortcuts at the ends of the list, then the binary search. *)
SearchPos(s, fd) ==
    IF s # <<>> /\ fd <= OpFd[s[1]] THEN {1}
    ELSE IF s # <<>> /\ fd >= OpFd[s[Len(s)]] THEN {Len(s) + 1}
    ELSE LowerBounds(s, fd)

Schedule(o) ==
    /\ mutex = Nobody
    /\ result[o] = "new"
    /\ \E p \in SearchPos(active, OpFd[o]) :
       \E q \in RunEnds(active, p, OpFd[o]) :
          /\ active' = InsertAt(active, q, o)
          /\ interest' = [interest EXCEPT ![OpFd[o]] =
                            {Dir(o)} \cup {Dir(active[i]) : i \in p..(q - 1)}]
    /\ result' = [result EXCEPT ![o] = "none"]
    /\ pollLen' = pollLen + 1
    /\ UNCHANGED <<cancelled, lockVars, kernelVars, pollVars, wake, waiting,
                   queue, aborted>>

----------------------------------------------------------------------------
(* Seeded defects: the remaining interest is dropped, or the old one kept. *)
ReregisterNothing(fd, dirs) == interest' = [interest EXCEPT ![fd] = {}]
ReregisterMore(fd, dirs)    == interest' = [interest EXCEPT ![fd] = @ \cup dirs]

(* The outcome of EPOLL_CTL_DEL and of EPOLL_CTL_MOD. *)
Deregister(fd)       == interest' = [interest EXCEPT ![fd] = {}]
Reregister(fd, dirs) == interest' = [interest EXCEPT ![fd] = dirs]

(* cancel(fd).  When no operation of fd is active it returns at once. *)

(* Seeded defect: only the first operation of the range is cancelled. *)
MarkFirstOnly(p, q) == result' = [result EXCEPT ![active[p]] = "canceled"]

MarkCancelled(p, q) ==
    result' = [o \in IoOps |-> IF o \in ToSet(SubSeq(active, p, q - 1))
                               THEN "canceled" ELSE result[o]]

(***************************************************************************)
(* IntrusiveList::splice() inserts before begin_cancelled_ while the range *)
(* it walks ends there too, so the end of a range of two or more items     *)
(* runs away from the walk.  Splicing the whole list is caught earlier.    *)
(***************************************************************************)
SpliceNeverEnds(p, q) ==
    /\ q = Len(active) + 1
    /\ q - p >= 2
    /\ ~ (p = 1 /\ cancelled = <<>>)

(* Seeded defect: what was cancelled before falls out of the list. *)
ForgetCancelled(range) == range

(* The spliced range comes first among the cancelled: splice() returns it. *)
MoveToCancelled(range) == range \o cancelled

Cancel(fd) ==
    /\ mutex = Nobody
    /\ \E p \in LowerBounds(active, fd) :
       \E q \in RunEnds(active, p, fd) :
          /\ p < q
          /\ ~ SpliceNeverEnds(p, q)
          /\ MarkCancelled(p, q)
          /\ active' = SubSeq(active, 1, p - 1) \o
                       SubSeq(active, q, Len(active))
          /\ cancelled' = MoveToCancelled(SubSeq(active, p, q - 1))
    /\ Deregister(fd)
    /\ Trigger
    /\ UNCHANGED <<pollLen, lockVars, kernelVars, pollVars, waiting, queue,
                   aborted>>

(* The call that enters the endless splice keeps data_mutex_ for good. *)
CancelStuck(a, fd) ==
    /\ mutex = Nobody
    /\ \E p \in LowerBounds(active, fd) :
       \E q \in RunEnds(active, p, fd) :
          /\ p < q
          /\ SpliceNeverEnds(p, q)
          /\ MarkCancelled(p, q)
    /\ mutex' = a
    /\ spliceFd' = fd
    /\ UNCHANGED <<listVars, count, cur, kernelVars, pollVars, interest, wake,
                   waiting, queue, aborted>>

(* One turn of the walk: the first item of the range becomes its last. *)
SpliceTurn(a) ==
    /\ mutex = a
    /\ spliceFd # Nobody
    /\ \E p \in LowerBounds(active, spliceFd) \cap (1..Len(active)) :
          active' = Append(RemoveAt(active, p), active[p])
    /\ UNCHANGED <<cancelled, pollLen, lockVars, kernelVars, pollVars,
                   interest, wake, waiting, result, queue, aborted>>

----------------------------------------------------------------------------
(* poll_once(block), first critical section: hand over what was cancelled. *)

PollEnter(t, b) ==
    /\ pollPc[t] = "out"
    /\ mutex = Nobody
    /\ mutex' = t
    /\ pollPc' = [pollPc EXCEPT ![t] = "cancellations"]
    /\ block' = [block EXCEPT ![t] = b]
    /\ UNCHANGED <<listVars, spliceFd, count, cur, kernelVars, timeout, events,
                   full, interest, wake, waiting, result, queue, aborted>>

(* process_cancellations(): erase, count, post. *)
PostCancelled(t) ==
    /\ pollPc[t] = "cancellations"
    /\ cancelled # <<>>
    /\ cancelled' = Tail(cancelled)
    /\ count' = count + 1
    /\ PostIo(Head(cancelled))
    /\ UNCHANGED <<active, pollLen, mutex, spliceFd, cur, kernelVars, pollVars,
                   interest, waiting, result, aborted>>

(* Seeded defect: block although cancellations were just handed over. *)
TimeoutIgnoresCancelled(b, numCancelled) == b

(* Never block after handing over cancellations. *)
PollTimeout(b, numCancelled) == b /\ numCancelled = 0

(* Return from poll_once(); its argument goes out of scope. *)
LeavePoll(t) == /\ pollPc' = [pollPc EXCEPT ![t] = "out"]
                /\ block' = [block EXCEPT ![t] = FALSE]

EndCancellations(t) ==
    /\ pollPc[t] = "cancellations"
    /\ cancelled = <<>>
    /\ DecrementCount
    /\ count' = 0
    /\ mutex' = Nobody
    /\ \/ /\ active = <<>>
          /\ Expect(pollLen >= count /\ pollLen' = 0)
          /\ LeavePoll(t)
          /\ UNCHANGED <<timeout, full>>
       \/ /\ active # <<>>
          /\ Expect(pollLen >= count)
          /\ pollPc' = [pollPc EXCEPT ![t] = "arm"]
          /\ timeout' = [timeout EXCEPT ![t] = PollTimeout(block[t], count)]
          /\ UNCHANGED <<block, full>>
    /\ UNCHANGED <<active, cancelled, spliceFd, cur, kernelVars, events,
                   interest, wake, waiting, result, queue>>

----------------------------------------------------------------------------
(* poll_once(): threads_waiting += 1; epoll_pwait(); threads_waiting -= 1 *)

StartWaiting(t) ==
    /\ pollPc[t] = "arm"
    /\ waiting' = waiting + 1
    /\ pollPc' = [pollPc EXCEPT ![t] = "epoll"]
    /\ UNCHANGED <<listVars, lockVars, kernelVars, block, timeout, events,
                   full, interest, wake, result, queue, aborted>>

(***************************************************************************)
(* What a level-triggered epoll would report now.  EPOLLERR is reported    *)
(* whatever the interest is; of the bits only EPOLLIN is ever looked at.   *)
(***************************************************************************)
Pending ==
    {[fd |-> f, readable |-> "IN" \in interest[f] /\ <<f, "IN">> \in ready] :
        f \in {g \in Fds : /\ interest[g] # {}
                           /\ \/ g \in err
                              \/ \E d \in interest[g] : <<g, d>> \in ready}}
    \cup {[fd |-> f, readable |-> TRUE] : f \in {g \in {WakeFd} : wake}}

EpollReturns(t) ==
    /\ pollPc[t] = "epoll"
    /\ Pending # {} \/ ~ timeout[t]
    /\ LET n == IF Cardinality(Pending) < MaxEvents
                THEN Cardinality(Pending) ELSE MaxEvents
       IN  /\ \E E \in kSubset(n, Pending) :
                 events' = [events EXCEPT ![t] = E]
           /\ full' = [full EXCEPT ![t] = (n = MaxEvents)]
    /\ timeout' = [timeout EXCEPT ![t] = FALSE]
    /\ pollPc' = [pollPc EXCEPT ![t] = "leave"]
    /\ UNCHANGED <<listVars, lockVars, kernelVars, block, interest, wake,
                   waiting, result, queue, aborted>>

(* EINTR: threads_waiting is restored, then poll_once() throws. *)
EpollInterrupted(t) ==
    /\ Interrupts
    /\ pollPc[t] = "epoll"
    /\ timeout[t]
    /\ Pending = {}
    /\ waiting' = waiting - 1
    /\ timeout' = [timeout EXCEPT ![t] = FALSE]
    /\ pollPc' = [pollPc EXCEPT ![t] = "threw"]
    /\ UNCHANGED <<listVars, lockVars, kernelVars, block, events, full,
                   interest, wake, result, queue, aborted>>

StopWaiting(t) ==
    /\ pollPc[t] = "leave"
    /\ waiting' = waiting - 1
    /\ pollPc' = [pollPc EXCEPT ![t] = "lock"]
    /\ UNCHANGED <<listVars, lockVars, kernelVars, block, timeout, events,
                   full, interest, wake, result, queue, aborted>>

----------------------------------------------------------------------------
(* poll_once(), second critical section: process_notifications(). *)

LockNotifications(t) ==
    /\ pollPc[t] = "lock"
    /\ mutex = Nobody
    /\ mutex' = t
    /\ pollPc' = [pollPc EXCEPT ![t] = "process"]
    /\ UNCHANGED <<listVars, spliceFd, count, cur, kernelVars, block, timeout,
                   events, full, interest, wake, waiting, result, queue,
                   aborted>>

ProcessWake(t) ==
    /\ pollPc[t] = "process"
    /\ cur = NoCursor
    /\ \E e \in events[t] :
          /\ e.fd = WakeFd
          /\ events' = [events EXCEPT ![t] = @ \ {e}]
    /\ wake' = FALSE
    /\ UNCHANGED <<listVars, lockVars, kernelVars, pollPc, block, timeout,
                   full, interest, waiting, result, queue, aborted>>

BeginEvent(t) ==
    /\ pollPc[t] = "process"
    /\ cur = NoCursor
    /\ \E e \in events[t] :
          /\ e.fd # WakeFd
          /\ events' = [events EXCEPT ![t] = @ \ {e}]
          /\ \E p \in LowerBounds(active, e.fd) :
                cur' = [fd |-> e.fd, readable |-> e.readable,
                        next |-> p, rereg |-> {}]
    /\ UNCHANGED <<listVars, mutex, spliceFd, count, kernelVars, pollPc, block,
                   timeout, full, interest, wake, waiting, result, queue,
                   aborted>>

(* The while loop of process_notifications() has another item to look at. *)
HasItem == /\ cur.fd # Nobody
           /\ cur.next <= Len(active)
           /\ OpFd[active[cur.next]] = cur.fd

(* Seeded defect: the direction test is the wrong way round. *)
MatchesInverted(o) == result[o] = "none" /\ ~ (cur.readable <=> o \in ReadOps)

(* cancelled() and the direction test: may this event serve operation o? *)
Matches(o) == /\ result[o] = "none"
              /\ cur.readable <=> o \in ReadOps

(* perform_io() does not report EAGAIN; an error completes it as well. *)
WouldComplete(o) == \/ <<OpFd[o], Dir(o)>> \in ready
                    \/ OpFd[o] \in err

SkipItem(t) ==
    /\ pollPc[t] = "process"
    /\ HasItem
    /\ LET o == active[cur.next]
       IN  /\ ~ (Matches(o) /\ WouldComplete(o))
           /\ cur' = [cur EXCEPT !.next = @ + 1,
                                 !.rereg = @ \cup {Dir(o)}]
    /\ UNCHANGED <<listVars, mutex, spliceFd, count, kernelVars, pollVars,
                   interest, wake, waiting, result, queue, aborted>>

(* The system call may or may not use up the readiness or the error. *)
Consume(o) ==
    /\ ready' \in {ready, ready \ {<<OpFd[o], Dir(o)>>}}
    /\ err' \in {err, err \ {OpFd[o]}}

CompleteItem(t) ==
    /\ pollPc[t] = "process"
    /\ HasItem
    /\ LET o == active[cur.next]
       IN  /\ Matches(o)
           /\ WouldComplete(o)
           /\ Consume(o)
           /\ result' = [result EXCEPT ![o] = "io"]
           /\ active' = RemoveAt(active, cur.next)
           /\ PostIo(o)
    /\ count' = count + 1
    /\ UNCHANGED <<cancelled, pollLen, mutex, spliceFd, cur, pollVars,
                   interest, waiting, aborted>>

(***************************************************************************)
(* Every item that was not processed left its direction in                 *)
(* events_to_reregister, so rereg = {} exactly when all were processed     *)
(* (or there was none).  EPOLL_CTL_MOD fails on a descriptor that is not   *)
(* registered; for EPOLL_CTL_DEL that error is tolerated.                  *)
(***************************************************************************)
EndEvent(t) ==
    /\ pollPc[t] = "process"
    /\ cur.fd # Nobody
    /\ ~ HasItem
    /\ \/ cur.rereg = {} /\ Deregister(cur.fd) /\ UNCHANGED aborted
       \/ /\ cur.rereg # {}
          /\ Expect(interest[cur.fd] # {})
          /\ Reregister(cur.fd, cur.rereg)
    /\ cur' = NoCursor
    /\ UNCHANGED <<listVars, mutex, spliceFd, count, kernelVars, pollVars,
                   wake, waiting, result, queue>>

(* Poll again only without blocking and only if there may be more. *)
EndNotifications(t) ==
    /\ pollPc[t] = "process"
    /\ cur = NoCursor
    /\ events[t] = {}
    /\ DecrementCount
    /\ Expect(pollLen >= count)
    /\ count' = 0
    /\ mutex' = Nobody
    /\ \/ /\ full[t] /\ ~ block[t]
          /\ pollPc' = [pollPc EXCEPT ![t] = "arm"]
          /\ UNCHANGED block
       \/ ~ (full[t] /\ ~ block[t]) /\ LeavePoll(t)
    /\ full' = [full EXCEPT ![t] = FALSE]
    /\ UNCHANGED <<active, cancelled, spliceFd, cur, kernelVars, timeout,
                   events, interest, wake, waiting, result, queue>>

----------------------------------------------------------------------------
(* The kernel and the other ends of the descriptors. *)

BecomeReady(f, d) ==
    /\ <<f, d>> \notin ready
    /\ ready' = ready \cup {<<f, d>>}
    /\ UNCHANGED <<listVars, lockVars, err, pollVars, interest, wake, waiting,
                   result, queue, aborted>>

BecomeFailed(f) ==
    /\ f \in FailingFds \ err
    /\ err' = err \cup {f}
    /\ UNCHANGED <<listVars, lockVars, ready, pollVars, interest, wake,
                   waiting, result, queue, aborted>>

----------------------------------------------------------------------------
(***************************************************************************)
(* The scheduler on its own: clients schedule and cancel whenever they     *)
(* like, threads call poll_once() again and again, whatever empty() says,  *)
(* and a caller that caught the exception of poll_once() carries on.       *)
(***************************************************************************)

IoInit ==
    /\ active = <<>> /\ cancelled = <<>> /\ pollLen = 0
    /\ mutex = Nobody /\ spliceFd = Nobody /\ count = 0 /\ cur = NoCursor
    /\ result = [o \in IoOps |-> "new"]
    /\ queue = <<>>
    /\ interest = [f \in Fds |-> {}]
    /\ ready = {} /\ err = {}
    /\ wake = FALSE /\ waiting = 0
    /\ pollPc = [t \in Threads |-> "out"]
    /\ block = [t \in Threads |-> FALSE]
    /\ timeout = [t \in Threads |-> FALSE]
    /\ events = [t \in Threads |-> {}]
    /\ full = [t \in Threads |-> FALSE]
    /\ aborted = FALSE

CatchPollError(t) ==
    /\ pollPc[t] = "threw"
    /\ pollPc' = [pollPc EXCEPT ![t] = "out"]
    /\ UNCHANGED <<listVars, lockVars, kernelVars, block, timeout, events,
                   full, interest, wake, waiting, result, queue, aborted>>

(* The steps of poll_once() after PollEnter. *)
PollStep(t) ==
    \/ PostCancelled(t) \/ EndCancellations(t)
    \/ StartWaiting(t) \/ EpollReturns(t) \/ StopWaiting(t)
    \/ LockNotifications(t) \/ ProcessWake(t) \/ BeginEvent(t)
    \/ SkipItem(t) \/ CompleteItem(t) \/ EndEvent(t) \/ EndNotifications(t)

(* Readiness in a direction no operation ever waits in would go unnoticed. *)
EnvStep ==
    \/ \E o \in IoOps : BecomeReady(OpFd[o], Dir(o))
    \/ \E f \in Fds : BecomeFailed(f)

ClientStep(a) ==
    \/ \E o \in IoOps : Schedule(o)
    \/ \E f \in Fds : Cancel(f) \/ CancelStuck(a, f)
    \/ SpliceTurn(a)

PollerStep(t) ==
    \/ \E b \in BOOLEAN : PollEnter(t, b)
    \/ PollStep(t)
    \/ CatchPollError(t)

IoNext ==
    \/ \E t \in Threads : PollerStep(t) \/ EpollInterrupted(t)
    \/ \E a \in Clients : ClientStep(a)
    \/ EnvStep

IoSpec == IoInit /\ [][IoNext]_ioVars

(* Threads keep polling; clients and the kernel owe nothing. *)
IoFairSpec == IoSpec /\ \A t \in Threads : WF_ioVars(PollerStep(t))

----------------------------------------------------------------------------
(* Properties *)

PollPcs == {"out", "cancellations", "arm", "epoll", "leave", "lock",
            "process", "threw"}

ListTypeOK ==
    /\ active \in Seq(IoOps) /\ cancelled \in Seq(IoOps)
    /\ pollLen \in Nat /\ count \in Nat

LockTypeOK ==
    /\ mutex \in Actors \cup {Nobody}
    /\ spliceFd \in Fds \cup {Nobody}
    /\ cur \in Cursor

KernelTypeOK ==
    /\ interest \in [Fds -> SUBSET Direction]
    /\ ready \subseteq Fds \X Direction
    /\ err \subseteq Fds

PollTypeOK ==
    /\ pollPc \in [Threads -> PollPcs]
    /\ block \in [Threads -> BOOLEAN]
    /\ timeout \in [Threads -> BOOLEAN]
    /\ events \in [Threads -> SUBSET Event]
    /\ full \in [Threads -> BOOLEAN]

ResultTypeOK == result \in [IoOps -> {"new", "none", "io", "canceled"}]

FlagTypeOK == wake \in BOOLEAN /\ aborted \in BOOLEAN

SchedulerTypeOK ==
    /\ ListTypeOK /\ LockTypeOK /\ KernelTypeOK /\ PollTypeOK
    /\ ResultTypeOK /\ FlagTypeOK /\ waiting \in Nat

(* The type invariant of the scheduler on its own. *)
IoTypeOK == SchedulerTypeOK /\ queue \in Seq(IoOps)

(***************************************************************************)
(* The active operations are ordered by descriptor whatever schedule(),    *)
(* cancel() and process_notifications() do to the list: the binary         *)
(* searches of all three rely on it (src/io_scheduler.cpp:193).            *)
(***************************************************************************)
SortedByFd ==
    \A i, j \in 1..Len(active) :
        i <= j => OpFd[active[i]] <= OpFd[active[j]]

(***************************************************************************)
(* poll_queue_length_ counts every operation that is still in the list,    *)
(* plus those the thread in a critical section has posted and not yet      *)
(* subtracted.  empty() is built on it: were it too low, run_once() would  *)
(* never poll for an operation that is still pending.                      *)
(***************************************************************************)
PollLengthExact == pollLen = Len(active) + Len(cancelled) + count

(***************************************************************************)
(* threads_waiting counts the threads between the two statements that      *)
(* change it, whatever path leads out of epoll_pwait(): it decides whether *)
(* a trigger of the wake event does anything at all.                       *)
(***************************************************************************)
Waiters      == {t \in Threads : pollPc[t] \in {"epoll", "leave"}}
WaitingExact == waiting = Cardinality(Waiters)

(* The descriptors whose registration is settled: no thread is between     *)
(* performing I/O on one and telling epoll about it.                       *)
SettledFds == Fds \ {cur.fd}

(* The directions in which active operations of f wait. *)
Wanted(f) == {Dir(active[i]) : i \in {j \in 1..Len(active) :
                                        OpFd[active[j]] = f}}

(***************************************************************************)
(* Whoever works on the list holds data_mutex_, nobody else does, and only *)
(* a thread in process_notifications() has a cursor into the list.         *)
(***************************************************************************)
MutexOwned ==
    /\ \A t \in Threads : pollPc[t] \in {"cancellations", "process"} =>
                            mutex = t /\ spliceFd = Nobody
    /\ spliceFd # Nobody => mutex # Nobody
    /\ cur # NoCursor => \E t \in Threads : pollPc[t] = "process"

(* A range that cancel() splices for ever is the last one of the list. *)
SpliceAtEnd ==
    spliceFd # Nobody =>
        \A i \in 1..Len(active) : OpFd[active[i]] <= spliceFd

(***************************************************************************)
(* The cursor stays meaningful while items are erased around it: what lies *)
(* ahead is not below its descriptor; unless an item was skipped, nothing  *)
(* behind it belongs to that descriptor; and while an item of it is left   *)
(* the descriptor is still registered, so EPOLL_CTL_MOD will succeed.      *)
(***************************************************************************)
CursorSound ==
    /\ cur.fd = Nobody => cur = NoCursor
    /\ cur.fd # Nobody =>
          /\ cur.next <= Len(active) + 1
          /\ \A i \in cur.next..Len(active) : OpFd[active[i]] >= cur.fd
          /\ cur.rereg = {} =>
                \A i \in 1..(cur.next - 1) : OpFd[active[i]] < cur.fd
          /\ (\/ cur.rereg # {}
              \/ \E i \in cur.next..Len(active) : OpFd[active[i]] = cur.fd)
                => interest[cur.fd] # {}

(* A descriptor with an active operation is registered with epoll. *)
PendingIsRegistered ==
    \A f \in SettledFds : Wanted(f) # {} => interest[f] # {}

(***************************************************************************)
(* epoll is never left interested in a direction nobody waits for: with    *)
(* level triggering that is the busy loop that process_notifications()     *)
(* describes at src/io_scheduler.cpp:120.                                  *)
(***************************************************************************)
InterestIsWanted == \A f \in SettledFds : interest[f] \subseteq Wanted(f)

(***************************************************************************)
(* The converse: epoll is told about every direction an active operation   *)
(* waits in.  Otherwise that operation can sleep through its readiness.    *)
(***************************************************************************)
WantedIsRegistered == \A f \in SettledFds : Wanted(f) \subseteq interest[f]

(* With descriptors that stay open no EXIOS_EXPECT of the scheduler can    *)
(* fail: no counter underflow, no non-zero length for an empty list, no    *)
(* EPOLL_CTL_MOD of a descriptor that another thread has deregistered.     *)
NoContractFailure == ~ aborted

(***************************************************************************)
(* The inductive invariant behind NoContractFailure: types, counters, the  *)
(* ownership of the lock, the order of the list, the cursor and the        *)
(* registrations hold together in every state.                             *)
(***************************************************************************)
IoInv ==
    /\ SchedulerTypeOK /\ PollLengthExact /\ WaitingExact
    /\ MutexOwned /\ SortedByFd /\ SpliceAtEnd /\ CursorSound
    /\ PendingIsRegistered
    /\ NoContractFailure

(***************************************************************************)
(* An operation that was scheduled is in exactly one place: among the      *)
(* active, among the cancelled, or posted.  It is never lost and never     *)
(* posted twice, although cancel() and a late event may both claim it.     *)
(***************************************************************************)
InOnePlace ==
    LET all == active \o cancelled \o queue
    IN  \A o \in IoOps :
          Cardinality({i \in 1..Len(all) : all[i] = o}) =
             (IF result[o] = "new" THEN 0 ELSE 1)

(***************************************************************************)
(* I/O that can be performed is performed while some thread keeps calling  *)
(* poll_once(): an active operation whose descriptor is ready for it does  *)
(* not stay so for ever.                                                   *)
(***************************************************************************)
ReadyIsServed ==
    \A o \in IoOps :
        (o \in ToSet(active) /\ <<OpFd[o], Dir(o)>> \in ready)
            ~> (o \notin ToSet(active) \/ <<OpFd[o], Dir(o)>> \notin ready)

(***************************************************************************)
(* A descriptor in an error state is served like a ready one: epoll        *)
(* reports the error at once and for ever, so leaving the operation where  *)
(* it is would be the busy loop of src/io_scheduler.cpp:120.               *)
(***************************************************************************)
FailedIsServed ==
    \A o \in IoOps :
        (o \in ToSet(active) /\ OpFd[o] \in err)
            ~> (o \notin ToSet(active) \/ OpFd[o] \notin err)

(* cancel() comes to an end and gives data_mutex_ back. *)
CancelReturns == spliceFd = Nobody

----------------------------------------------------------------------------
(* The scheduler implements the abstract promise. *)

OpState == [o \in IoOps |->
    CASE result[o] = "new" -> "new"
      [] result[o] = "none" -> "pending"
      [] OTHER -> IF o \in ToSet(active \o cancelled) THEN "settled"
                  ELSE "delivered"]

OpOutcome == [o \in IoOps |-> IF result[o] \in {"new", "none"} THEN "none"
                              ELSE result[o]]

Abstract == INSTANCE AsyncIo WITH Ops <- IoOps, FdOf <- OpFd,
                                  state <- OpState, outcome <- OpOutcome

(***************************************************************************)
(* schedule(), cancel() and poll_once(), interleaved in any way, look to   *)
(* their callers like the indivisible steps of AsyncIo.                    *)
(***************************************************************************)
ImplementsAsyncIo == Abstract!AsyncSpec

============================================================================
