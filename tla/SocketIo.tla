----------------------------- MODULE SocketIo ------------------------------
(***************************************************************************)
(* The sockets (TcpSocket, UnixSocket, UdpSocket and the acceptors), their *)
(* base IoObject, FileDescriptor, and the operations of src/io.cpp that    *)
(* they schedule, against a kernel that numbers descriptors and reuses the *)
(* numbers.                                                                *)
(*                                                                         *)
(* An operation knows the number its object had when it was made; what the *)
(* number refers to is looked up when the operation is performed.  Threads *)
(* in run() collect a report from epoll without a lock, apply it under the *)
(* scheduler's lock, and run handlers, which are the user code here, in    *)
(* between.  Data is a count of units that a receive queue or a backlog    *)
(* holds; the end of a stream and a broken connection count as a unit, the *)
(* call that meets them returns.  A send buffer may or may not have room.  *)
(* What the scheduler does with its list is IoScheduler: the list is kept  *)
(* ordered by number, so here it is one sequence for each number, and a    *)
(* thread takes one event at a time.                                       *)
(***************************************************************************)
EXTENDS Integers, Sequences, SequencesExt, FiniteSets, FiniteSetsExt

CONSTANTS
    Threads,                \* threads in run()
    Ops,                    \* operations that exist at a time
    Sockets, Acceptors,     \* I/O objects
    SocketFiles,            \* files that socket() may make for a socket
    Listeners,              \* ... and for an acceptor
    Accepted,               \* files that accept() may make
    MaxFd,                  \* bound: the largest descriptor number
    MaxUnits,               \* bound: units in a queue
    OnStreams, OnDatagrams, \* operations the two kinds of socket are used for
    None

Objects == Sockets \cup Acceptors
Files   == SocketFiles \cup Listeners \cup Accepted
Fds     == 0 .. MaxFd
Invalid == -1               \* kInvalidDescriptor

(* The operations of TcpSocket and UnixSocket, and those of UdpSocket *)
StreamCalls   == {"connect", "read", "receive_message", "write",
                  "send_message"}
DatagramCalls == {"connect", "receive_from", "send_to", "read", "write"}
Calls         == StreamCalls \cup DatagramCalls \cup {"accept"}

ASSUME SocketAssumption ==
    /\ Sockets \cap Acceptors = {}
    /\ Objects \cap Ops = {}
    /\ SocketFiles \cap Listeners = {}
    /\ MaxFd \in Nat
    /\ Cardinality(Accepted) >= MaxFd      \* there is one for every accept
    /\ MaxUnits \in Nat \ {0}
    /\ OnStreams \subseteq StreamCalls
    /\ OnDatagrams \subseteq DatagramCalls
    /\ None \notin Files \cup Threads \cup Objects

VARIABLES
    live,       \* the objects that exist
    fd,         \* FileDescriptor::fd_ of every object
    table,      \* the descriptor table of the process
    sock,       \* the state of each file
    call,       \* what each operation does
    target,     \* the socket an accept() will assign to
    active,     \* the operations of the scheduler's list that have the
                \* number in AsyncIoOperation::fd_
    result,     \* of each operation: "done" with a value or an error,
                \* "error" if it is the answer of connect()
    newFd,      \* the descriptor in the result of an accept
    reg,        \* the numbers registered with epoll
    report,     \* the event each thread has got from epoll
    lock,       \* the thread that holds the scheduler's lock
    stuck,      \* the file of a system call that does not return
    lingers,    \* the closed number under which epoll still knows that file
    closing,    \* the number each thread is about to close again
    aborted     \* an EXIOS_EXPECT has failed

fileVars  == <<live, fd, table, closing>>
opVars    == <<call, target, newFd>>
schedVars == <<active, result, reg>>
pollVars  == <<report, lock, stuck, lingers>>

VARIABLES
    own,        \* history: the file of every object and every accept result
    twice       \* history: has a second close() hit a file?

history == <<own, twice>>
vars    == <<fileVars, sock, opVars, schedVars, pollVars, aborted, history>>

(* A report: EPOLLIN or not, the operations tried and, as history, what
   became of the descriptor since: somebody used what the report was about,
   or somebody closed it. *)
NoReport == [fd |-> Invalid, in |-> FALSE, tried |-> {}, age |-> "fresh"]
NewFile(f) == [units |-> 0, conn |-> IF f \in Accepted THEN "up" ELSE "none"]

Connection == {"none", "connecting", "refused", "established", "up",
               "datagram"}

(* The states in which data may come and go *)
Connected == {"established", "up", "datagram"}

Init ==
    /\ live = {}
    /\ fd = [x \in Objects |-> Invalid]
    /\ table = [n \in Fds |-> None]
    /\ sock = [f \in Files |-> NewFile(f)]
    /\ call = [o \in Ops |-> "none"]
    /\ target = [o \in Ops |-> None]
    /\ active = [n \in Fds |-> <<>>]
    /\ result = [o \in Ops |-> "new"]
    /\ newFd = [o \in Ops |-> Invalid]
    /\ reg = {}
    /\ report = [t \in Threads |-> NoReport]
    /\ lock = None
    /\ stuck = None
    /\ lingers = Invalid
    /\ closing = [t \in Threads |-> Invalid]
    /\ aborted = FALSE
    /\ own = [y \in Objects \cup Ops |-> None]
    /\ twice = FALSE

----------------------------------------------------------------------------
(* The kernel's side of files and numbers *)

NewFd  == Min({n \in Fds : table[n] = None})
FreeFd == \E n \in Fds : table[n] = None

IsOpen(f) == f = stuck \/ \E n \in Fds : table[n] = f

Open(f) ==
    /\ ~IsOpen(f)
    /\ FreeFd
    /\ table' = [table EXCEPT ![NewFd] = f]

(* close(n): the file goes, and with it what epoll knows of the number,
   unless a system call holds the file. *)
CloseFd(n) ==
    /\ sock' = [f \in Files |-> IF n \in Fds /\ f = table[n] /\ f # stuck
                               THEN NewFile(f) ELSE sock[f]]
    /\ table' = IF n \in Fds THEN [table EXCEPT ![n] = None] ELSE table
    /\ reg' = reg \ {n}
    /\ lingers' = IF n \in reg /\ table[n] = stuck THEN n ELSE lingers
    /\ report' = [t \in Threads |->
                    IF n \in Fds /\ report[t].fd = n
                    THEN [report[t] EXCEPT !.age = "closed"] ELSE report[t]]
    /\ UNCHANGED <<lock, stuck, aborted>>

(* What follows an abort, or a close() of somebody else's file, is not
   explored. *)
Running == ~aborted /\ ~twice

(* User code: thread t runs a handler, it has no report in hand. *)
InUserCode(t) == report[t] = NoReport /\ closing[t] = Invalid /\ Running

----------------------------------------------------------------------------
(* FileDescriptor and IoObject *)

(* Object x is made, or assigned to after close(), with a new file of set S
   in connection state c. *)
Make(t, x, S, c) ==
    /\ InUserCode(t)
    /\ fd[x] = Invalid
    /\ \E f \in S : /\ Open(f)
                    /\ own' = [own EXCEPT ![x] = f]
                    /\ sock' = [sock EXCEPT ![f].conn = c]
    /\ fd' = [fd EXCEPT ![x] = NewFd]
    /\ live' = live \cup {x}
    /\ UNCHANGED <<closing, opVars, schedVars, pollVars, aborted, twice>>

(* TcpSocket(), UnixSocket() *)
ConstructStream(t, x) == x \in Sockets /\ Make(t, x, SocketFiles, "none")

(* UdpSocket() *)
ConstructDatagram(t, x) == x \in Sockets /\ Make(t, x, SocketFiles, "datagram")

(* The acceptors: socket(), bind(), listen() *)
ConstructAcceptor(t, x) == x \in Acceptors /\ Make(t, x, Listeners, "none")

(* Seeded defect: the old number of the object is forgotten. *)
DropDescriptor(x, n, from) ==
    /\ fd' = [y \in Objects |-> CASE y = x -> n
                                  [] y = from -> Invalid
                                  [] OTHER -> fd[y]]
    /\ own' = [own EXCEPT ![x] = own[from], ![from] = None]
    /\ UNCHANGED <<table, sock, reg, pollVars, aborted>>

(* FileDescriptor::operator=(FileDescriptor&&), from an object or a result *)
MoveDescriptor(x, n, from) ==
    /\ fd' = [y \in Objects |-> CASE y = x -> n
                                  [] y = from -> Invalid
                                  [] OTHER -> fd[y]]
    /\ own' = [own EXCEPT ![x] = own[from], ![from] = None]
    /\ CloseFd(fd[x])

(* x = std::move(y) *)
MoveAssign(t, x, y) ==
    /\ InUserCode(t)
    /\ x # y
    /\ fd[y] # Invalid
    /\ x \in live
    /\ MoveDescriptor(x, fd[y], y)
    /\ UNCHANGED <<live, closing, opVars, active, result, twice>>

(* ~FileDescriptor(); the target of an accept() has to outlive it. *)
Destroy(t, x) ==
    /\ InUserCode(t)
    /\ x \in live
    /\ \A o \in Ops : target[o] # x
    /\ live' = live \ {x}
    /\ fd' = [fd EXCEPT ![x] = Invalid]
    /\ own' = [own EXCEPT ![x] = None]
    /\ CloseFd(fd[x])
    /\ UNCHANGED <<closing, opVars, active, result, twice>>

(* IoObject::close(): close(), then FileDescriptor closes the number again *)
close(t, x) ==
    /\ InUserCode(t)
    /\ fd[x] # Invalid
    /\ UNCHANGED live
    /\ closing' = [closing EXCEPT ![t] = fd[x]]
    /\ fd' = [fd EXCEPT ![x] = Invalid]
    /\ own' = [own EXCEPT ![x] = None]
    /\ CloseFd(fd[x])
    /\ UNCHANGED <<opVars, active, result, twice>>

CloseAgain(t) ==
    /\ closing[t] # Invalid
    /\ Running
    /\ CloseFd(closing[t])
    /\ twice' = (table[closing[t]] # None)
    /\ closing' = [closing EXCEPT ![t] = Invalid]
    /\ UNCHANGED <<live, fd, opVars, active, result, own>>

----------------------------------------------------------------------------
(* Scheduling and cancelling, reduced to what numbers do there *)

(* The number of x is open. *)
HasFile(x) == fd[x] \in Fds /\ table[fd[x]] # None

(***************************************************************************)
(* make_async_io_operation() and IoScheduler::schedule().  Nothing asks    *)
(* whether the object still has a descriptor: if it was closed or moved    *)
(* from, EPOLL_CTL_ADD fails with EBADF and so does the assertion.         *)
(***************************************************************************)
Submit(t, o, x, what) ==
    /\ InUserCode(t)
    /\ x \in live
    /\ lock = None
    /\ result[o] = "new"
    /\ \/ /\ HasFile(x)
          /\ call' = [call EXCEPT ![o] = what]
          /\ active' = [active EXCEPT ![fd[x]] = Append(@, o)]
          /\ result' = [result EXCEPT ![o] = "none"]
          /\ reg' = reg \cup {fd[x]}
          /\ UNCHANGED aborted
       \/ /\ ~HasFile(x)
          /\ aborted' = TRUE
          /\ UNCHANGED <<call, schedVars>>
    /\ UNCHANGED <<fileVars, sock, newFd, pollVars, history>>

UseSocket(t, o, kinds, calls) ==
    /\ \E x \in Sockets, what \in calls :
         /\ fd[x] # Invalid => sock[own[x]].conn \in kinds
         /\ Submit(t, o, x, what)
    /\ UNCHANGED target

UseStream(t, o)   == UseSocket(t, o, Connection \ {"datagram"}, OnStreams)
UseDatagram(t, o) == UseSocket(t, o, {"datagram"}, OnDatagrams)

accept(t, o) ==
    \E x \in Acceptors, y \in Sockets :
        /\ y \in live
        /\ Submit(t, o, x, "accept")
        /\ target' = [target EXCEPT ![o] = y]

(* The operations of S leave the list with result r, of those of number n
   the sequence rest stays; what is needed of S from here on is the result
   and the target of an accept. *)
Finish(S, r, n, rest) ==
    /\ result' = [o \in Ops |-> IF o \in S THEN r ELSE result[o]]
    /\ active' = [active EXCEPT ![n] = rest]
    /\ call' = [o \in Ops |-> IF o \in S THEN "none" ELSE call[o]]
    /\ target' = [o \in Ops |-> IF o \in S /\ r # "accepted" THEN None
                                ELSE target[o]]

(* IoObject::cancel() *)
cancel(t, x) ==
    /\ InUserCode(t)
    /\ lock = None
    /\ fd[x] # Invalid
    /\ active[fd[x]] # <<>>
    /\ Finish(ToSet(active[fd[x]]), "done", fd[x], <<>>)
    /\ reg' = reg \ {fd[x]}
    /\ UNCHANGED <<fileVars, sock, newFd, pollVars, aborted, history>>

----------------------------------------------------------------------------
(* What the files report and what the system calls on them return *)

(* Operations with is_readable *)
Reads == {"read", "receive_from", "receive_message", "accept"}

Unconnected(f) == f \notin Listeners /\ sock[f].conn \in {"none", "refused"}

Readable(f) == sock[f].units > 0 \/ sock[f].conn = "refused"

(* An unconnected stream reports EPOLLHUP, asked for or not. *)
Writable(f) == Unconnected(f) \/ sock[f].conn \in Connected

Stay(r, f)       == {<<r, sock[f]>>}
Becomes(r, f, c) == {<<r, [sock[f] EXCEPT !.conn = c]>>}

(* Seeded defect: EINPROGRESS is taken for a failure. *)
ConnectOnce(f) ==
    CASE sock[f].conn = "none" ->
            Becomes("error", f, "connecting")
            \cup Becomes("done", f, "up")
      [] OTHER -> Stay("error", f)

(***************************************************************************)
(* NetConnect::io() and UnixConnect::io(): EINPROGRESS and EAGAIN leave    *)
(* the operation in the list, EALREADY and EISCONN are errors.  A datagram *)
(* socket is connected at once.                                            *)
(***************************************************************************)
NetConnect(f) ==
    CASE sock[f].conn = "none" ->
            Becomes("again", f, "connecting") \cup Stay("again", f)
            \cup Becomes("done", f, "up") \cup Stay("error", f)
      [] sock[f].conn = "datagram" -> Stay("done", f)
      [] sock[f].conn = "established" -> Becomes("done", f, "up")
      [] sock[f].conn = "refused" -> Becomes("error", f, "none")
      [] OTHER -> Stay("error", f)

(* UnixAccept::io(); the connection stays in the backlog on EMFILE. *)
UnixAccept(f) ==
    CASE ~Readable(f) -> Stay("again", f)
      [] Readable(f) /\ ~FreeFd -> Stay("done", f)
      [] OTHER -> {<<"accepted", [sock[f] EXCEPT !.units = @ - 1]>>}

(* Seeded defect: socket() without SOCK_NONBLOCK *)
BlocksAlways(f) == Stay("blocks", f)

(***************************************************************************)
(* Without data or room a call fails with EAGAIN; it blocks if accept()    *)
(* made the file, without SOCK_NONBLOCK, and there is no MSG_DONTWAIT.     *)
(***************************************************************************)
WouldBlock(f) == Stay(IF f \in Accepted THEN "blocks" ELSE "again", f)

(* A unit is read, if there is one. *)
Take(f, else) ==
    IF Readable(f) THEN {<<"done", [sock[f] EXCEPT !.units = @ - 1]>>}
    ELSE else

(* Seeded defect: a read that found nothing counts as done. *)
ReadUntested(f) == {<<"done", [sock[f] EXCEPT !.units = @ - 1]>>}

(* The io() of the operations *)
IoRead(f)         == Take(f, WouldBlock(f))
NetReceiveFrom(f) == Take(f, WouldBlock(f))
ReceiveMessage(f) == Take(f, Stay("again", f))
IoWrite(f)        == Stay("done", f) \cup WouldBlock(f)
NetSendTo(f)      == Stay("done", f) \cup WouldBlock(f)
SendMessage(f)    == Stay("done", f) \cup Stay("again", f)

(* Reading from and writing to a connection *)
Transfer(what, f) ==
    CASE what = "read" -> IoRead(f)
      [] what = "receive_from" -> NetReceiveFrom(f)
      [] what = "receive_message" -> ReceiveMessage(f)
      [] what = "write" -> IoWrite(f)
      [] what = "send_to" -> NetSendTo(f)
      [] what = "send_message" -> SendMessage(f)

(* perform_io(): how the call returns, and what it leaves of the file *)
PerformIo(o, f) ==
    IF f \in Listeners
    THEN IF call[o] = "accept" THEN UnixAccept(f) ELSE Stay("done", f)
    ELSE CASE call[o] = "accept" -> Stay("done", f)
           [] call[o] = "connect" -> NetConnect(f)
           [] OTHER ->
                CASE sock[f].conn = "connecting" -> Stay("again", f)
                  [] Unconnected(f) -> Stay("done", f)
                  [] OTHER -> Transfer(call[o], f)

----------------------------------------------------------------------------
(* poll_once(), one event at a time *)

Wanted(n, in) ==
    \E o \in ToSet(active[n]) : (call[o] \in Reads) = in

(* An event that epoll may report of file f under number n *)
Reportable(n, f, in) ==
    IF in THEN Readable(f) /\ Wanted(n, TRUE)
    ELSE (Writable(f) /\ Wanted(n, FALSE)) \/ Unconnected(f)

Report(n, in, age) ==
    [NoReport EXCEPT !.fd = n, !.in = in, !.age = age]

(***************************************************************************)
(* epoll_pwait() returns an event of a registered descriptor, EPOLLIN or   *)
(* not: schedule() may have registered less than the operations want.  A   *)
(* file that a blocked call keeps is reported under its closed number.     *)
(***************************************************************************)
Poll(t) ==
    /\ InUserCode(t)
    /\ \/ \E n \in reg, in \in BOOLEAN :
            /\ Reportable(n, table[n], in)
            /\ report' = [report EXCEPT ![t] = Report(n, in, "fresh")]
       \/ \E in \in BOOLEAN :
            /\ lingers # Invalid
            /\ Reportable(lingers, stuck, in)
            /\ report' = [report EXCEPT ![t] = Report(lingers, in, "closed")]
    /\ UNCHANGED <<fileVars, sock, opVars, schedVars, lock, stuck, lingers,
                   aborted, history>>

(* Thread t has a report and the lock, or takes it with its first step. *)
HasLock(t) == report[t] # NoReport /\ lock \in {None, t} /\ Running

(* The places of the operations that the event still has to try *)
ToTry(t) == {i \in DOMAIN active[report[t].fd] :
               LET o == active[report[t].fd][i]
               IN  /\ (call[o] \in Reads) = report[t].in
                   /\ o \notin report[t].tried}

(* The first of them is next. *)
Item(t) == active[report[t].fd][Min(ToTry(t))]

(* The item is erased and posted with result r. *)
FinishItem(t, r) ==
    Finish({Item(t)}, r, report[t].fd,
           RemoveAt(active[report[t].fd], Min(ToTry(t))))

(* The call changed the file of number n: data, a connection request or the
   outcome of a connect was taken, or a connect was begun. *)
Taken(n) == table[n] # None /\ sock'[table[n]] # sock[table[n]]

(* ... and with it what the reports of n were about *)
UsedUp(n) == [t \in Threads |->
                IF report[t].fd = n /\ report[t].age = "fresh" /\ Taken(n)
                THEN [report[t] EXCEPT !.age = "used"] ELSE report[t]]

(* The next operation is performed. *)
Perform(t) ==
    LET o == Item(t)
        n == report[t].fd
        f == table[n]
    IN  /\ HasLock(t)
        /\ stuck = None
        /\ ToTry(t) # {}
        /\ f # None
        /\ \E io \in PerformIo(o, f) :
             /\ sock' = [sock EXCEPT ![f] = io[2]]
             /\ \/ /\ io[1] = "again"
                   /\ report' = [UsedUp(n) EXCEPT
                                   ![t].tried = @ \cup {o}]
                   /\ UNCHANGED <<opVars, schedVars, stuck, fileVars, own>>
                \/ /\ io[1] = "blocks"
                   /\ stuck' = f
                   /\ UNCHANGED <<opVars, schedVars, report, fileVars, own>>
                \/ /\ io[1] \in {"done", "error"}
                   /\ FinishItem(t, io[1])
                   /\ report' = UsedUp(n)
                   /\ UNCHANGED <<reg, stuck, newFd, fileVars, own>>
                \/ /\ io[1] = "accepted"
                   /\ FinishItem(t, "accepted")
                   /\ report' = UsedUp(n)
                   /\ \E g \in Accepted : /\ Open(g)
                                          /\ own' = [own EXCEPT ![o] = g]
                   /\ newFd' = [newFd EXCEPT ![o] = NewFd]
                   /\ UNCHANGED <<reg, stuck, live, fd, closing>>
    /\ lock' = t
    /\ UNCHANGED <<lingers, aborted, twice>>

(* The number was closed meanwhile: EBADF *)
PerformOnClosed(t) ==
    /\ HasLock(t)
    /\ stuck = None
    /\ ToTry(t) # {}
    /\ table[report[t].fd] = None
    /\ FinishItem(t, "done")
    /\ lock' = t
    /\ UNCHANGED <<fileVars, sock, newFd, reg, report, stuck, lingers,
                   aborted, history>>

(* The system call that blocked returns; its file goes now, for epoll too, if
   the number was closed meanwhile. *)
Unblock(t) ==
    /\ HasLock(t)
    /\ stuck # None /\ lock = t
    /\ \E io \in PerformIo(Item(t), stuck) :
         /\ io[1] = "done"
         /\ sock' = [sock EXCEPT ![stuck] =
                       IF \E n \in Fds : table[n] = stuck THEN io[2]
                       ELSE NewFile(stuck)]
    /\ FinishItem(t, "done")
    /\ report' = UsedUp(report[t].fd)
    /\ stuck' = None
    /\ lingers' = Invalid
    /\ UNCHANGED <<fileVars, newFd, reg, lock, aborted, history>>

(* Seeded defect: ENOENT is not expected. *)
EndEventStrict(t) ==
    LET n    == report[t].fd
        left == active[n] # <<>>
    IN  /\ HasLock(t)
        /\ stuck = None
        /\ ToTry(t) = {}
        /\ aborted' = (table[n] = None \/ n \notin reg)
        /\ reg' = IF left THEN reg ELSE reg \ {n}
        /\ report' = [report EXCEPT ![t] = NoReport]
        /\ lock' = None
        /\ UNCHANGED <<fileVars, sock, opVars, active, result, stuck, lingers,
                       history>>

(***************************************************************************)
(* The end of an event: EPOLL_CTL_DEL if no operation is left, which may   *)
(* fail with ENOENT only, or EPOLL_CTL_MOD, which may not fail.            *)
(***************************************************************************)
EndEvent(t) ==
    LET n    == report[t].fd
        left == active[n] # <<>>
    IN  /\ HasLock(t)
        /\ stuck = None
        /\ ToTry(t) = {}
        /\ aborted' = (table[n] = None \/ (left /\ n \notin reg))
        /\ reg' = IF left THEN reg ELSE reg \ {n}
        /\ report' = [report EXCEPT ![t] = NoReport]
        /\ lock' = None
        /\ UNCHANGED <<fileVars, sock, opVars, active, result, stuck, lingers,
                       history>>

(***************************************************************************)
(* The completion of o is dispatched and o is freed.  If it is an accept   *)
(* that succeeded, target = TcpSocket { ctx, fd } comes first.             *)
(***************************************************************************)
Dispatch(t, o) ==
    /\ InUserCode(t)
    /\ result[o] \in {"done", "error"}
    /\ result' = [result EXCEPT ![o] = "new"]
    /\ UNCHANGED <<fileVars, sock, opVars, active, reg, pollVars, aborted,
                   history>>

DispatchAccept(t, o) ==
    /\ InUserCode(t)
    /\ result[o] = "accepted"
    /\ result' = [result EXCEPT ![o] = "new"]
    /\ newFd' = [newFd EXCEPT ![o] = Invalid]
    /\ target' = [target EXCEPT ![o] = None]
    /\ MoveDescriptor(target[o], newFd[o], o)
    /\ UNCHANGED <<live, closing, call, active, twice>>

----------------------------------------------------------------------------
(* The other ends: data and connections arrive, and a connection comes
   about or is refused. *)
PeerActs(f) ==
    /\ Running
    /\ IsOpen(f)
    /\ f \in Listeners \/ sock[f].conn \in Connected
    /\ sock[f].units < MaxUnits
    /\ sock' = [sock EXCEPT ![f].units = @ + 1]
    /\ UNCHANGED <<fileVars, opVars, schedVars, pollVars, aborted, history>>

Handshake(f) ==
    /\ Running
    /\ sock[f].conn = "connecting"
    /\ \E c \in {"established", "refused"} :
         sock' = [sock EXCEPT ![f].conn = c]
    /\ UNCHANGED <<fileVars, opVars, schedVars, pollVars, aborted, history>>

PollStep(t) == \/ Poll(t)
               \/ Perform(t)
               \/ PerformOnClosed(t)
               \/ Unblock(t)
               \/ EndEvent(t)

Next ==
    \/ \E t \in Threads :
           \/ PollStep(t)
           \/ CloseAgain(t)
           \/ \E x \in Objects : \/ ConstructStream(t, x)
                                 \/ ConstructDatagram(t, x)
                                 \/ ConstructAcceptor(t, x)
                                 \/ Destroy(t, x)
                                 \/ close(t, x)
                                 \/ cancel(t, x)
           \/ \E x, y \in Sockets : MoveAssign(t, x, y)
           \/ \E o \in Ops : \/ UseStream(t, o)
                             \/ UseDatagram(t, o)
                             \/ accept(t, o)
                             \/ Dispatch(t, o)
                             \/ DispatchAccept(t, o)
    \/ \E f \in Files : PeerActs(f) \/ Handshake(f)

Spec == Init /\ [][Next]_vars

----------------------------------------------------------------------------
(* One thread holds the lock while an operation is stuck, and only then may a
   closed number linger in epoll. *)
TypeOK ==
    /\ fd \in [Objects -> Fds \cup {Invalid}]
    /\ table \in [Fds -> Files \cup {None}]
    /\ \A f \in Files : sock[f].units \in Nat
    /\ stuck # None => lock # None
    /\ lingers # Invalid => stuck # None

(***************************************************************************)
(* As long as no second close() of IoObject::close() has hit a file that   *)
(* another thread opened in between: an object's number refers to its own  *)
(* file, and every file belongs to one object or to one accept result that *)
(* waits for its handler.  Moves, accepts into sockets that are open and   *)
(* reused numbers neither leak nor share a descriptor.                     *)
(***************************************************************************)
DescriptorsAccounted ==
    ~twice =>
        /\ \A x \in Objects : fd[x] # Invalid => table[fd[x]] = own[x]
        /\ \A n \in Fds : table[n] # None =>
             Cardinality({x \in Objects : fd[x] = n})
                 + Cardinality({o \in Ops : newFd[o] = n}) = 1

(***************************************************************************)
(* "Only one IO operation per FD is guaranteed to succeed without          *)
(* blocking" (io_scheduler.cpp): a read can block the loop, with the lock  *)
(* held, only on an accepted socket and only if another operation has      *)
(* taken data since the report was made, or the descriptor was closed      *)
(* since.  MSG_DONTWAIT operations and sockets of socket() never block.    *)
(***************************************************************************)
BlocksOnlyWhenUsedUp ==
    stuck # None =>
        LET o == Item(lock)
        IN  /\ stuck \in Accepted
            /\ call[o] \notin {"receive_message", "send_message"}
            /\ call[o] \in Reads => report[lock].age # "fresh"

(***************************************************************************)
(* A failed epoll_ctl() ends the program in two cases only.  A thread ends *)
(* the event of a descriptor that was closed after or while the kernel     *)
(* made the report: what other threads do with its operations meanwhile,   *)
(* schedule, complete or cancel, is harmless.  Or an operation is called   *)
(* on an object that was closed or moved from: as long as an object has a  *)
(* descriptor schedule() does not fail, whatever became of the number      *)
(* before.                                                                 *)
(***************************************************************************)
AbortStep ==
    aborted' /\ ~aborted =>
        \/ \E t \in Threads : report[t].age = "closed" /\ report'[t] = NoReport
        \/ \E t \in Threads, o \in Ops, x \in Objects, what \in Calls :
              fd[x] = Invalid /\ Submit(t, o, x, what)

AbortsOnlyWhenClosed == [][AbortStep]_vars

(***************************************************************************)
(* A connect() that completes with success has a connection, and one that  *)
(* completes with an error has none under way, except when it was tried    *)
(* again with a report older than the attempt (EALREADY).                  *)
(***************************************************************************)
ConnectStep ==
    \A n \in Fds : \A o \in ToSet(active[n]) \ ToSet(active'[n]) :
        call[o] = "connect" /\ lock' # None /\ table[n] \in SocketFiles =>
            LET c == sock'[table[n]].conn
            IN  /\ result'[o] = "done" => c \in {"up", "datagram"}
                /\ result'[o] = "error" /\ c = "connecting" =>
                       report[lock'].age # "fresh"

ConnectResultIsTrue == [][ConnectStep]_vars
============================================================================
