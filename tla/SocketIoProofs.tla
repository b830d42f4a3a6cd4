--------------------------- MODULE SocketIoProofs ---------------------------
(***************************************************************************)
(* What SocketIo promises about descriptors, proved for any number of      *)
(* threads, sockets, acceptors, operations, files and descriptor numbers.  *)
(***************************************************************************)
EXTENDS SocketIo, DataLemmas

Results == {"new", "none", "done", "error", "accepted"}
Ages    == {"fresh", "used", "closed"}

(* Calls without MSG_DONTWAIT *)
Blocking == {"read", "receive_from", "write", "send_to"}

Reports == [fd : Fds \cup {Invalid}, in : BOOLEAN, tried : SUBSET Ops,
            age : Ages]

SocketTypes ==
    /\ fd \in [Objects -> Fds \cup {Invalid}]
    /\ table \in [Fds -> Files \cup {None}]
    /\ sock \in [Files -> [units : Nat, conn : Connection]]
    /\ call \in [Ops -> Calls \cup {"none"}]
    /\ target \in [Ops -> Sockets \cup {None}]
    /\ active \in [Fds -> Seq(Ops)]
    /\ result \in [Ops -> Results]
    /\ newFd \in [Ops -> Fds \cup {Invalid}]
    /\ reg \subseteq Fds
    /\ report \in [Threads -> Reports]
    /\ lock \in Threads \cup {None}
    /\ stuck \in Files \cup {None}
    /\ lingers \in Fds \cup {Invalid}
    /\ lingers # Invalid => stuck # None
    /\ closing \in [Threads -> Fds \cup {Invalid}]
    /\ own \in [Objects \cup Ops -> Files \cup {None}]

(* An operation is in the list once, at one number, while it has no result.
   An accept has a socket to assign to. *)
ListInv ==
    /\ \A n \in Fds : IsInjective(active[n])
    /\ \A m, n \in Fds : m # n => ToSet(active[m]) \cap ToSet(active[n]) = {}
    /\ \A n \in Fds : \A o \in ToSet(active[n]) :
         /\ result[o] = "none"
         /\ call[o] \in Calls
         /\ call[o] = "accept" => target[o] \in Sockets

(* The result of an accept is a descriptor and waits for its handler. *)
ResultInv ==
    \A o \in Ops : /\ (result[o] = "accepted") <=> (newFd[o] # Invalid)
                   /\ result[o] = "accepted" => target[o] \in Sockets

(* Nobody connects an acceptor. *)
ListenersQuiet ==
    \A f \in Listeners : sock[f].conn \notin {"connecting", "refused"}

(* The number that an object or an accept result holds *)
Number == [y \in Objects \cup Ops |-> IF y \in Objects THEN fd[y]
                                      ELSE newFd[y]]

(* Every number in use is held once, and refers to its holder's file. *)
HeldOnce(num, tab, of) ==
    LET Holding == {y \in Objects \cup Ops : num[y] # Invalid}
    IN  /\ \A y \in Holding : of[y] # None /\ tab[num[y]] = of[y]
        /\ \A y, z \in Holding : num[y] = num[z] => y = z
        /\ \A n \in Fds : tab[n] # None => \E y \in Holding : num[y] = n

OneHolder == HeldOnce(Number, table, own)

(* A file has one number, and epoll knows only numbers in use. *)
TableInv ==
    /\ \A m, n \in Fds : table[m] = table[n] /\ table[m] # None => m = n
    /\ \A n \in reg : table[n] # None

(* What a report still says about its descriptor *)
ReportInv ==
    \A t \in Threads :
        LET r == report[t]
        IN  /\ r # NoReport => r.fd \in Fds
            /\ r # NoReport /\ r.age # "closed" =>
                 /\ table[r.fd] # None
                 /\ active[r.fd] # <<>> => r.fd \in reg
            /\ r # NoReport /\ r.age = "fresh" =>
                 IF r.in THEN Readable(table[r.fd])
                 ELSE sock[table[r.fd]].conn # "connecting"

(* A call that does not return: the thread has the lock and its report, and
   the file stays what the report's number referred to, or nothing. *)
StuckInv ==
    stuck # None =>
        /\ lock \in Threads /\ report[lock] # NoReport
        /\ ToTry(lock) # {}
        /\ stuck \in Accepted
        /\ call[Item(lock)] \in Blocking
        /\ call[Item(lock)] \in Reads => report[lock].age # "fresh"
        /\ \A n \in Fds : table[n] = stuck => n = report[lock].fd

SocketInv ==
    /\ SocketTypes
    /\ ListInv
    /\ ResultInv
    /\ ListenersQuiet
    /\ ~twice => OneHolder
    /\ TableInv
    /\ ReportInv
    /\ StuckInv

----------------------------------------------------------------------------
(* open() and accept() take a free number. *)
LEMMA NewFdIsFree ==
    ASSUME FreeFd
    PROVE  NewFd \in Fds /\ table[NewFd] = None
<1> DEFINE T == {n \in Fds : table[n] = None}
<1>1. T # {} /\ T \in SUBSET Nat
  BY SocketAssumption DEF FreeFd, Fds
<1> HIDE DEF T
<1>2. Min(T) \in T
  BY <1>1, MinIsMember
<1> QED
  BY <1>2 DEF NewFd, T

LEMMA InvalidIsNoNumber == Invalid \notin Fds
BY SocketAssumption DEF Invalid, Fds

(* The item that an event tries next is in the list, at the report's number,
   and goes in the report's direction. *)
LEMMA ItemIsActive ==
    ASSUME SocketTypes, NEW t \in Threads, report[t].fd \in Fds,
           ToTry(t) # {}
    PROVE  LET s == active[report[t].fd]
           IN  /\ s \in Seq(Ops)
               /\ Min(ToTry(t)) \in 1 .. Len(s)
               /\ Item(t) = s[Min(ToTry(t))]
               /\ Item(t) \in Ops
               /\ Item(t) \in ToSet(s)
               /\ (call[Item(t)] \in Reads) = report[t].in
<1> DEFINE s == active[report[t].fd]
           T == ToTry(t)
           i == Min(T)
<1>1. s \in Seq(Ops)
  BY DEF SocketTypes
<1>2. Len(s) \in Nat /\ DOMAIN s = 1 .. Len(s)
  <2> HIDE DEF s
  <2> QED
    BY <1>1, LenProperties
<1>3. T \subseteq DOMAIN s /\ \A j \in T : (call[s[j]] \in Reads)
                                             = report[t].in
  BY DEF ToTry
<1>4. T \in SUBSET Nat
  BY <1>2, <1>3
<1>5. i \in T
  <2> HIDE DEF T
  <2> QED
    BY <1>4, MinIsMember DEF T
<1>6. i \in 1 .. Len(s)
  BY <1>2, <1>3, <1>5
<1>7. s[i] \in Ops /\ s[i] \in ToSet(s)
  <2> HIDE DEF s, i
  <2> QED
    BY <1>1, <1>6, SetOfSeq
<1>8. Item(t) = s[i]
  BY DEF Item
<1> QED
  BY <1>1, <1>3, <1>5, <1>6, <1>7, <1>8

(* A reported number *)
LEMMA ReportIsTyped ==
    ASSUME SocketTypes, NEW t \in Threads
    PROVE  /\ report[t] \in Reports
           /\ NoReport \in Reports /\ NoReport.fd = Invalid
           /\ NoReport.age = "fresh"
BY DEF SocketTypes, Reports, NoReport, Ages

(* How a system call on file f can end *)
LEMMA PerformIoEnds ==
    ASSUME SocketTypes, ListenersQuiet, NEW o \in Ops, call[o] \in Calls,
           NEW f \in Files, NEW io \in PerformIo(o, f)
    PROVE  /\ io[2] \in [units : Nat, conn : Connection]
           /\ f \in Listeners => io[2].conn = sock[f].conn
           /\ io[1] = "accepted" => call[o] = "accept"
           /\ io[1] = "blocks" =>
                /\ f \in Accepted
                /\ call[o] \in Blocking
                /\ call[o] \in Reads => ~Readable(f)
                /\ io[2] = sock[f]
           /\ call[o] \in Blocking => io[2].conn = sock[f].conn
           /\ call[o] = "connect" /\ f \notin Listeners =>
                /\ io[1] = "done" => io[2].conn \in {"up", "datagram"}
                /\ io[1] = "error" /\ io[2].conn = "connecting" =>
                     sock[f].conn = "connecting"
           /\ io[1] \in {"again", "blocks", "done", "error", "accepted"}
<1> DEFINE R == [units : Nat, conn : Connection]
<1>1. sock[f] \in R /\ sock[f].units \in Nat /\ sock[f].conn \in Connection
  BY DEF SocketTypes
<1>2. \A c \in Connection : /\ [sock[f] EXCEPT !.conn = c] \in R
                            /\ [sock[f] EXCEPT !.conn = c].conn = c
  BY <1>1
<1>3. sock[f].units > 0 =>
        /\ [sock[f] EXCEPT !.units = @ - 1] \in R
        /\ [sock[f] EXCEPT !.units = @ - 1].conn = sock[f].conn
  BY <1>1
<1> DEFINE less == [sock[f] EXCEPT !.units = @ - 1]
<1>4. \A r : Stay(r, f) = {<<r, sock[f]>>}
  BY DEF Stay
<1>5. CASE (f \in Listeners /\ call[o] # "accept")
             \/ (f \notin Listeners /\ call[o] = "accept")
  <2>1. io = <<"done", sock[f]>>
    BY <1>5, <1>4 DEF PerformIo
  <2> QED
    BY <2>1, <1>1, <1>5 DEF Blocking
<1>6. CASE f \in Listeners /\ call[o] = "accept"
  <2>1. io \in UnixAccept(f)
    BY <1>6 DEF PerformIo
  <2>2. io \in {<<"again", sock[f]>>, <<"done", sock[f]>>,
                <<"accepted", less>>}
        /\ (io[1] = "accepted" => Readable(f))
    BY <2>1, <1>4 DEF UnixAccept
  <2>3. Readable(f) => sock[f].units > 0
    BY <1>6 DEF Readable, ListenersQuiet
  <2> HIDE DEF less
  <2> QED
    BY <2>2, <2>3, <1>1, <1>3, <1>6 DEF Blocking, less
<1>7. CASE f \notin Listeners /\ call[o] = "connect"
  <2>1. io \in NetConnect(f)
    BY <1>7 DEF PerformIo
  <2>2. \A c \in Connection : \A r :
          Becomes(r, f, c) = {<<r, [sock[f] EXCEPT !.conn = c]>>}
    BY DEF Becomes
  <2>3. \E c \in Connection, r \in {"again", "done", "error"} :
          /\ io = <<r, [sock[f] EXCEPT !.conn = c]>> \/
             (io = <<r, sock[f]>> /\ c = sock[f].conn)
          /\ r = "done" => c \in {"up", "datagram"}
          /\ r = "error" /\ c = "connecting" => sock[f].conn = "connecting"
    BY <1>1, <1>4, <2>1, <2>2 DEF NetConnect, Connection
  <2> QED
    BY <2>3, <1>1, <1>2, <1>7 DEF Blocking
<1>8. CASE f \notin Listeners /\ call[o] \notin {"accept", "connect"}
  <2>1. CASE sock[f].conn = "connecting" \/ Unconnected(f)
    <3>1. io \in {<<"again", sock[f]>>, <<"done", sock[f]>>}
      BY <1>8, <1>4, <2>1 DEF PerformIo, Unconnected
    <3> QED
      BY <3>1, <1>1, <1>8
  <2>2. CASE sock[f].conn # "connecting" /\ ~Unconnected(f)
    <3>1. Readable(f) => sock[f].units > 0
      BY <1>8, <2>2 DEF Readable, Unconnected
    <3>2. CASE call[o] \in {"read", "receive_from"}
      <4>1. io \in Take(f, WouldBlock(f))
        BY <3>2, <1>8, <2>2 DEF PerformIo, Transfer, IoRead, NetReceiveFrom
      <4>2. \/ io = <<"done", less>> /\ Readable(f)
            \/ io = <<"blocks", sock[f]>> /\ f \in Accepted /\ ~Readable(f)
            \/ io = <<"again", sock[f]>>
        BY <4>1, <1>4 DEF Take, WouldBlock
      <4> HIDE DEF less
      <4> QED
        BY <4>2, <3>1, <3>2, <1>1, <1>3, <1>8 DEF Blocking, less
    <3>3. CASE call[o] = "receive_message"
      <4>1. io \in Take(f, Stay("again", f))
        BY <3>3, <1>8, <2>2 DEF PerformIo, Transfer, ReceiveMessage
      <4>2. \/ io = <<"done", less>> /\ Readable(f)
            \/ io = <<"again", sock[f]>>
        BY <4>1, <1>4 DEF Take
      <4> HIDE DEF less
      <4> QED
        BY <4>2, <3>1, <3>3, <1>1, <1>3, <1>8 DEF Blocking, less
    <3>4. CASE call[o] \in {"write", "send_to"}
      <4>1. io \in Stay("done", f) \cup WouldBlock(f)
        BY <3>4, <1>8, <2>2 DEF PerformIo, Transfer, IoWrite, NetSendTo
      <4>2. \/ io = <<"done", sock[f]>>
            \/ io = <<"blocks", sock[f]>> /\ f \in Accepted
            \/ io = <<"again", sock[f]>>
        BY <4>1, <1>4 DEF WouldBlock
      <4> QED
        BY <4>2, <3>4, <1>1, <1>8 DEF Blocking, Reads
    <3>5. CASE call[o] = "send_message"
      <4>1. io \in {<<"done", sock[f]>>, <<"again", sock[f]>>}
        BY <3>5, <1>8, <2>2, <1>4 DEF PerformIo, Transfer, SendMessage
      <4> QED
        BY <4>1, <3>5, <1>1, <1>8 DEF Blocking
    <3> QED
      BY <3>2, <3>3, <3>4, <3>5, <1>8
         DEF Calls, StreamCalls, DatagramCalls
  <2> QED
    BY <2>1, <2>2
<1> QED
  BY <1>5, <1>6, <1>7, <1>8

----------------------------------------------------------------------------
(* What opening, closing and moving do to the holders of numbers *)
LEMMA HolderGains ==
    ASSUME NEW num \in [Objects \cup Ops -> Fds \cup {Invalid}],
           NEW tab \in [Fds -> Files \cup {None}],
           NEW of \in [Objects \cup Ops -> Files \cup {None}],
           HeldOnce(num, tab, of),
           NEW y \in Objects \cup Ops, num[y] = Invalid,
           NEW n \in Fds, tab[n] = None, NEW f \in Files
    PROVE  HeldOnce([num EXCEPT ![y] = n], [tab EXCEPT ![n] = f],
                    [of EXCEPT ![y] = f])
<1> DEFINE num2 == [num EXCEPT ![y] = n]
           tab2 == [tab EXCEPT ![n] = f]
           of2  == [of EXCEPT ![y] = f]
<1>n. f # None /\ n # Invalid
  BY SocketAssumption, InvalidIsNoNumber
<1>1. \A z \in Objects \cup Ops : z # y => num2[z] = num[z] /\ of2[z] = of[z]
  OBVIOUS
<1>2. num2[y] = n /\ of2[y] = f /\ tab2[n] = f
  OBVIOUS
<1>3. \A m \in Fds : m # n => tab2[m] = tab[m]
  OBVIOUS
<1>4. \A z \in Objects \cup Ops : num[z] # Invalid => num[z] \in Fds
  OBVIOUS
<1>h. \A z \in Objects \cup Ops : num[z] # Invalid => num[z] # n
  BY DEF HeldOnce
<1> HIDE DEF num2, tab2, of2
<1>5. \A z \in Objects \cup Ops : num2[z] # Invalid =>
        of2[z] # None /\ tab2[num2[z]] = of2[z]
  BY <1>n, <1>1, <1>2, <1>3, <1>4, <1>h DEF HeldOnce
<1>6. \A w, z \in Objects \cup Ops :
        num2[w] # Invalid /\ num2[w] = num2[z] => w = z
  BY <1>n, <1>1, <1>2, <1>h DEF HeldOnce
<1>7. \A m \in Fds : tab2[m] # None =>
        \E z \in Objects \cup Ops : num2[z] # Invalid /\ num2[z] = m
  <2> TAKE m \in Fds
  <2> HAVE tab2[m] # None
  <2>1. CASE m = n
    BY <1>n, <1>2, <2>1
  <2>2. CASE m # n
    <3>1. PICK z \in Objects \cup Ops : num[z] # Invalid /\ num[z] = m
      BY <1>3, <2>2 DEF HeldOnce
    <3>2. z # y
      BY <3>1
    <3> QED
      BY <1>1, <3>1, <3>2
  <2> QED
    BY <2>1, <2>2
<1>8. HeldOnce(num2, tab2, of2)
  BY <1>5, <1>6, <1>7 DEF HeldOnce
<1> QED
  BY <1>8 DEF num2, tab2, of2

LEMMA HolderLoses ==
    ASSUME NEW num \in [Objects \cup Ops -> Fds \cup {Invalid}],
           NEW tab \in [Fds -> Files \cup {None}],
           NEW of \in [Objects \cup Ops -> Files \cup {None}],
           HeldOnce(num, tab, of),
           NEW y \in Objects \cup Ops, num[y] # Invalid
    PROVE  HeldOnce([num EXCEPT ![y] = Invalid],
                    [tab EXCEPT ![num[y]] = None],
                    [of EXCEPT ![y] = None])
<1> DEFINE num2 == [num EXCEPT ![y] = Invalid]
           tab2 == [tab EXCEPT ![num[y]] = None]
           of2  == [of EXCEPT ![y] = None]
<1>1. \A z \in Objects \cup Ops : z # y => num2[z] = num[z] /\ of2[z] = of[z]
  OBVIOUS
<1>2. num2[y] = Invalid /\ tab2[num[y]] = None
  OBVIOUS
<1>3. \A m \in Fds : m # num[y] => tab2[m] = tab[m]
  OBVIOUS
<1>4. \A z \in Objects \cup Ops : num[z] # Invalid => num[z] \in Fds
  OBVIOUS
<1>h. \A z \in Objects \cup Ops : num[z] # Invalid /\ z # y => num[z] # num[y]
  BY DEF HeldOnce
<1> HIDE DEF num2, tab2, of2
<1>5. \A z \in Objects \cup Ops : num2[z] # Invalid =>
        of2[z] # None /\ tab2[num2[z]] = of2[z]
  BY <1>1, <1>2, <1>3, <1>4, <1>h DEF HeldOnce
<1>6. \A w, z \in Objects \cup Ops :
        num2[w] # Invalid /\ num2[w] = num2[z] => w = z
  BY <1>1, <1>2 DEF HeldOnce
<1>7. \A m \in Fds : tab2[m] # None =>
        \E z \in Objects \cup Ops : num2[z] # Invalid /\ num2[z] = m
  <2> TAKE m \in Fds
  <2> HAVE tab2[m] # None
  <2>1. m # num[y] /\ tab[m] # None
    BY <1>2, <1>3
  <2>2. PICK z \in Objects \cup Ops : num[z] # Invalid /\ num[z] = m
    BY <2>1 DEF HeldOnce
  <2> QED
    BY <1>1, <2>1, <2>2
<1>8. HeldOnce(num2, tab2, of2)
  BY <1>5, <1>6, <1>7 DEF HeldOnce
<1> QED
  BY <1>8 DEF num2, tab2, of2

(* The number of y goes to x, which has none. *)
LEMMA HolderChanges ==
    ASSUME NEW num \in [Objects \cup Ops -> Fds \cup {Invalid}],
           NEW tab \in [Fds -> Files \cup {None}],
           NEW of \in [Objects \cup Ops -> Files \cup {None}],
           HeldOnce(num, tab, of),
           NEW x \in Objects \cup Ops, num[x] = Invalid,
           NEW y \in Objects \cup Ops, num[y] # Invalid
    PROVE  HeldOnce([num EXCEPT ![x] = num[y], ![y] = Invalid], tab,
                    [of EXCEPT ![x] = of[y], ![y] = None])
<1> DEFINE num2 == [num EXCEPT ![x] = num[y], ![y] = Invalid]
           of2  == [of EXCEPT ![x] = of[y], ![y] = None]
<1>1. \A z \in Objects \cup Ops : z # x /\ z # y =>
        num2[z] = num[z] /\ of2[z] = of[z]
  OBVIOUS
<1>2. x # y /\ num2[x] = num[y] /\ of2[x] = of[y] /\ num2[y] = Invalid
  OBVIOUS
<1> HIDE DEF num2, of2
<1>5. \A z \in Objects \cup Ops : num2[z] # Invalid =>
        of2[z] # None /\ tab[num2[z]] = of2[z]
  BY <1>1, <1>2 DEF HeldOnce
<1>6. \A w, z \in Objects \cup Ops :
        num2[w] # Invalid /\ num2[w] = num2[z] => w = z
  BY <1>1, <1>2 DEF HeldOnce
<1>7. \A m \in Fds : tab[m] # None =>
        \E z \in Objects \cup Ops : num2[z] # Invalid /\ num2[z] = m
  <2> TAKE m \in Fds
  <2> HAVE tab[m] # None
  <2>2. PICK z \in Objects \cup Ops : num[z] # Invalid /\ num[z] = m
    BY DEF HeldOnce
  <2> QED
    BY <1>1, <1>2, <2>2
<1>8. HeldOnce(num2, tab, of2)
  BY <1>5, <1>6, <1>7 DEF HeldOnce
<1> QED
  BY <1>8 DEF num2, of2

----------------------------------------------------------------------------
(* What close() leaves of the kernel's tables and of the reports *)
LEMMA CloseEffects ==
    ASSUME SocketInv, NEW n \in Fds \cup {Invalid}, CloseFd(n),
           UNCHANGED <<active, call>>
    PROVE  /\ table' \in [Fds -> Files \cup {None}]
           /\ sock' \in [Files -> [units : Nat, conn : Connection]]
           /\ reg' \subseteq Fds
           /\ report' \in [Threads -> Reports]
           /\ UNCHANGED <<lock, stuck, aborted>>
           /\ lingers' \in Fds \cup {Invalid}
           /\ lingers' # Invalid => stuck # None
           /\ ListenersQuiet'
           /\ TableInv'
           /\ ReportInv'
           /\ StuckInv'
           /\ n = Invalid => table' = table
           /\ n \in Fds => table' = [table EXCEPT ![n] = None]
<1> USE DEF SocketInv
<1>n. n = Invalid <=> n \notin Fds
  BY InvalidIsNoNumber
<1>1. /\ table' \in [Fds -> Files \cup {None}]
      /\ n = Invalid => table' = table
      /\ n \in Fds => table' = [table EXCEPT ![n] = None]
      /\ \A m \in Fds : m # n => table'[m] = table[m]
      /\ \A m \in Fds : table'[m] # None => table'[m] = table[m] /\ m # n
  BY <1>n DEF CloseFd, SocketTypes
<1>2. \A f \in Files : NewFile(f) \in [units : Nat, conn : Connection]
                       /\ NewFile(f).conn \in {"up", "none"}
  BY DEF NewFile, Connection
<1>3. sock' \in [Files -> [units : Nat, conn : Connection]]
  BY <1>2 DEF CloseFd, SocketTypes
<1>4. /\ reg' \subseteq Fds /\ reg' = reg \ {n}
      /\ UNCHANGED <<lock, stuck, aborted>>
  BY DEF CloseFd, SocketTypes
<1>l. lingers' \in Fds \cup {Invalid} /\ (lingers' # Invalid => stuck # None)
  BY DEF CloseFd, SocketTypes, TableInv
<1>5. \A t \in Threads :
        /\ report'[t] \in Reports
        /\ report'[t].fd = report[t].fd /\ report'[t].in = report[t].in
        /\ report'[t].tried = report[t].tried
        /\ report'[t].age \in {report[t].age, "closed"}
        /\ report'[t].fd # n => report'[t] = report[t]
        /\ report'[t].fd = n /\ n \in Fds => report'[t].age = "closed"
        /\ report[t] = NoReport => report'[t] = NoReport
  <2> TAKE t \in Threads
  <2>1. report[t] \in Reports /\ (report[t] = NoReport =>
                                    report[t].fd \notin Fds)
    BY ReportIsTyped, InvalidIsNoNumber
  <2>2. CASE n \in Fds /\ report[t].fd = n
    <3>1. report'[t] = [report[t] EXCEPT !.age = "closed"]
      BY <2>2 DEF CloseFd
    <3> QED
      BY <2>1, <2>2, <3>1 DEF Reports, Ages
  <2>3. CASE ~(n \in Fds /\ report[t].fd = n)
    <3>1. report'[t] = report[t]
      BY <2>3 DEF CloseFd
    <3> QED
      BY <2>1, <2>3, <3>1
  <2> QED
    BY <2>2, <2>3
<1>6. report' \in [Threads -> Reports]
  <2>1. report' = [t \in Threads |-> report'[t]]
    BY DEF CloseFd
  <2> QED
    BY <1>5, <2>1
<1>7. ListenersQuiet'
  BY <1>2 DEF CloseFd, ListenersQuiet, Files
<1>8. TableInv'
  BY <1>1, <1>4 DEF TableInv, SocketTypes
<1>9. ReportInv'
  <2> SUFFICES ASSUME NEW t \in Threads, report'[t] # NoReport
               PROVE  /\ report'[t].fd \in Fds
                      /\ report'[t].age # "closed" =>
                           /\ table'[report'[t].fd] # None
                           /\ active'[report'[t].fd] # <<>> =>
                                report'[t].fd \in reg'
                      /\ report'[t].age = "fresh" =>
                           IF report'[t].in
                           THEN Readable(table[report[t].fd])'
                           ELSE sock'[table'[report'[t].fd]].conn
                                  # "connecting"
    BY DEF ReportInv
  <2> DEFINE m == report[t].fd
  <2>1. report[t] # NoReport /\ m \in Fds /\ report'[t].fd = m
    BY <1>5 DEF ReportInv
  <2>2. CASE m = n
    BY <1>5, <2>1, <2>2
  <2>3. CASE m # n
    <3>1. report'[t] = report[t] /\ table'[m] = table[m] /\ (m \in reg =>
                                                               m \in reg')
      BY <1>1, <1>4, <1>5, <2>1, <2>3
    <3>2. ASSUME report[t].age = "fresh"
          PROVE  table[m] \in Files /\ sock'[table[m]] = sock[table[m]]
      <4>1. table[m] \in Files
        BY <2>1, <3>2 DEF ReportInv, SocketTypes
      <4>2. n \in Fds => table[n] # table[m]
        BY <2>1, <2>3, <4>1, SocketAssumption DEF TableInv
      <4> QED
        BY <4>1, <4>2 DEF CloseFd
    <3> QED
      BY <2>1, <3>1, <3>2 DEF ReportInv, Readable
  <2> QED
    BY <2>2, <2>3
<1>10. StuckInv'
  <2> SUFFICES ASSUME stuck # None
               PROVE  /\ lock \in Threads /\ report'[lock] # NoReport
                      /\ ToTry(lock)' # {}
                      /\ stuck \in Accepted
                      /\ call[Item(lock)'] \in Blocking
                      /\ call[Item(lock)'] \in Reads =>
                           report'[lock].age # "fresh"
                      /\ \A m \in Fds : table'[m] = stuck =>
                           m = report'[lock].fd
    BY <1>4 DEF StuckInv
  <2>1. lock \in Threads /\ report[lock] # NoReport
    BY DEF StuckInv
  <2>2. /\ report'[lock].fd = report[lock].fd
        /\ report'[lock].in = report[lock].in
        /\ report'[lock].tried = report[lock].tried
        /\ report'[lock].age \in {report[lock].age, "closed"}
    BY <1>5, <2>1
  <2>3. ToTry(lock)' = ToTry(lock)
    BY <1>4, <2>2 DEF ToTry
  <2>4. Item(lock)' = Item(lock)
    BY <1>4, <2>2, <2>3 DEF Item
  <2>5. report'[lock] # NoReport
    BY <2>1, <2>2, InvalidIsNoNumber DEF NoReport, ReportInv
  <2> QED
    BY <1>1, <2>1, <2>2, <2>3, <2>4, <2>5 DEF StuckInv
<1> QED
  BY <1>1, <1>3, <1>4, <1>l, <1>6, <1>7, <1>8, <1>9, <1>10

(* Operations of number n leave the list. *)
LEMMA FinishEffects ==
    ASSUME SocketTypes, ListInv, NEW n \in Fds,
           NEW S \in SUBSET ToSet(active[n]),
           NEW r \in {"done", "error", "accepted"},
           NEW rest \in Seq(Ops), IsInjective(rest),
           ToSet(rest) = ToSet(active[n]) \ S,
           Finish(S, r, n, rest)
    PROVE  /\ active' \in [Fds -> Seq(Ops)]
           /\ result' \in [Ops -> Results]
           /\ call' \in [Ops -> Calls \cup {"none"}]
           /\ target' \in [Ops -> Sockets \cup {None}]
           /\ ListInv'
<1>s. \A m \in Fds : active[m] \in Seq(Ops) /\ ToSet(active[m]) \subseteq Ops
  <2> TAKE m \in Fds
  <2>1. active[m] \in Seq(Ops)
    BY DEF SocketTypes
  <2> QED
    BY <2>1, SetOfSeq
<1>1. /\ active' \in [Fds -> Seq(Ops)]
      /\ \A m \in Fds : m # n => active'[m] = active[m]
      /\ active'[n] = rest
  BY DEF Finish, SocketTypes
<1>2. /\ result' \in [Ops -> Results]
      /\ call' \in [Ops -> Calls \cup {"none"}]
      /\ target' \in [Ops -> Sockets \cup {None}]
  BY DEF Finish, SocketTypes, Results
<1>3. /\ \A o \in Ops \ S : /\ result'[o] = result[o]
                            /\ target'[o] = target[o]
                            /\ call'[o] = call[o]
      /\ \A o \in S : /\ o \in Ops
                      /\ result[o] = "none" /\ result'[o] = r
                      /\ r = "accepted" => target'[o] = target[o]
  BY <1>s DEF Finish, ListInv
<1>4. \A m \in Fds : /\ ToSet(active'[m]) \subseteq ToSet(active[m])
                     /\ ToSet(active'[m]) \cap S = {}
                     /\ IsInjective(active'[m])
  <2> TAKE m \in Fds
  <2>1. CASE m = n
    BY <1>1, <2>1
  <2>2. CASE m # n
    <3>1. active'[m] = active[m] /\ ToSet(active[m]) \cap ToSet(active[n]) = {}
      BY <1>1, <2>2 DEF ListInv
    <3> QED
      BY <3>1 DEF ListInv
  <2> QED
    BY <2>1, <2>2
<1>5. ListInv'
  <2>1. \A k, m \in Fds :
             k # m => ToSet(active'[k]) \cap ToSet(active'[m]) = {}
    BY <1>4 DEF ListInv
  <2>2. ASSUME NEW m \in Fds, NEW o \in ToSet(active'[m])
        PROVE  /\ result'[o] = "none"
               /\ call'[o] \in Calls
               /\ call'[o] = "accept" => target'[o] \in Sockets
    <3>1. o \in ToSet(active[m]) /\ o \in Ops \ S
      BY <1>s, <1>4, <2>2
    <3> QED
      BY <1>3, <3>1 DEF ListInv
  <2> QED
    BY <1>4, <2>1, <2>2 DEF ListInv
<1> QED
  BY <1>1, <1>2, <1>3, <1>5

----------------------------------------------------------------------------
(* One lemma for each operation *)

LEMMA NumberIsTyped ==
    ASSUME SocketTypes
    PROVE  /\ Number \in [Objects \cup Ops -> Fds \cup {Invalid}]
           /\ \A x \in Objects : Number[x] = fd[x]
           /\ \A o \in Ops : Number[o] = newFd[o]
<1>1. \A o \in Ops : o \notin Objects
  BY SocketAssumption
<1> QED
  BY <1>1 DEF Number, SocketTypes

(* A file that is opened was nowhere before: no table entry, no report and
   no blocked call knows it. *)
LEMMA OpenEffects ==
    ASSUME SocketInv, NEW f \in Files, Open(f), UNCHANGED reg
    PROVE  /\ FreeFd /\ NewFd \in Fds /\ table[NewFd] = None /\ f # None
           /\ table' = [table EXCEPT ![NewFd] = f]
           /\ table' \in [Fds -> Files \cup {None}]
           /\ \A n \in Fds : table[n] # f
           /\ \A n \in Fds : table[n] # None => table'[n] = table[n]
           /\ \A n \in Fds : table'[n] = stuck /\ stuck # None
                               => table[n] = stuck
           /\ TableInv'
<1> USE DEF SocketInv
<1>1. /\ FreeFd /\ NewFd \in Fds /\ table[NewFd] = None /\ f # None
      /\ table' = [table EXCEPT ![NewFd] = f]
      /\ \A n \in Fds : table[n] # f
      /\ f # stuck
  BY NewFdIsFree, SocketAssumption DEF Open, IsOpen
<1>2. /\ table' \in [Fds -> Files \cup {None}]
      /\ table'[NewFd] = f
      /\ \A n \in Fds : n # NewFd => table'[n] = table[n]
  BY <1>1 DEF SocketTypes
<1>3. /\ \A n \in Fds : table[n] # None => table'[n] = table[n]
      /\ \A n \in Fds : table'[n] = stuck /\ stuck # None => table[n] = stuck
  BY <1>1, <1>2
<1>4. TableInv'
  BY <1>1, <1>2, SMTT(40) DEF TableInv, SocketTypes
<1> QED
  BY <1>1, <1>2, <1>3, <1>4

(* The blocked call does not notice changes of other things. *)
LEMMA StuckFrame ==
    ASSUME StuckInv, UNCHANGED <<active, call, report, lock, stuck>>,
           \A n \in Fds : table'[n] = stuck /\ stuck # None
                            => table[n] = stuck
    PROVE  StuckInv'
BY DEF StuckInv, ToTry, Item

(* The constructors *)
LEMMA MakeKeepsInv ==
    ASSUME SocketInv, NEW t \in Threads, NEW x \in Objects,
           NEW S \in SUBSET Files, NEW c \in {"none", "datagram"},
           Make(t, x, S, c)
    PROVE  SocketInv'
<1> USE DEF SocketInv
<1>u. UNCHANGED <<closing, call, target, newFd, active, result, reg, report,
                  lock, stuck, lingers, aborted, twice>>
  BY DEF Make, opVars, schedVars, pollVars
<1>1. PICK f \in S : /\ Open(f)
                     /\ own' = [own EXCEPT ![x] = f]
                     /\ sock' = [sock EXCEPT ![f].conn = c]
  BY DEF Make
<1>2. fd[x] = Invalid /\ fd' = [fd EXCEPT ![x] = NewFd] /\ ~twice
  BY DEF Make, InUserCode, Running
<1>3. f \in Files
  OBVIOUS
<1>4. /\ NewFd \in Fds /\ table[NewFd] = None
      /\ table' = [table EXCEPT ![NewFd] = f]
      /\ table' \in [Fds -> Files \cup {None}]
      /\ \A n \in Fds : table[n] # f
      /\ \A n \in Fds : table[n] # None => table'[n] = table[n]
      /\ \A n \in Fds : table'[n] = stuck /\ stuck # None => table[n] = stuck
      /\ TableInv'
  BY <1>u, <1>1, <1>3, OpenEffects
<1>5. /\ sock' \in [Files -> [units : Nat, conn : Connection]]
      /\ sock'[f].conn = c
      /\ \A g \in Files : g # f => sock'[g] = sock[g]
  BY <1>1, <1>3 DEF SocketTypes, Connection
<1>6. SocketTypes'
  BY <1>u, <1>1, <1>2, <1>4, <1>5 DEF SocketTypes
<1>7. ListInv' /\ ResultInv'
  BY <1>u DEF ListInv, ResultInv
<1>8. ListenersQuiet'
  BY <1>5 DEF ListenersQuiet, Files
<1>9. OneHolder'
  <2>1. Number' = [Number EXCEPT ![x] = NewFd]
    BY <1>u, <1>2, <1>4 DEF Number, SocketTypes
  <2>2. HeldOnce([Number EXCEPT ![x] = NewFd], [table EXCEPT ![NewFd] = f],
                 [own EXCEPT ![x] = f])
    <3>1. /\ Number \in [Objects \cup Ops -> Fds \cup {Invalid}]
          /\ Number[x] = Invalid
          /\ table \in [Fds -> Files \cup {None}]
          /\ own \in [Objects \cup Ops -> Files \cup {None}]
          /\ HeldOnce(Number, table, own)
          /\ x \in Objects \cup Ops
      BY <1>2, NumberIsTyped DEF SocketTypes, OneHolder
    <3> HIDE DEF SocketInv
    <3> QED
      BY <1>3, <1>4, <3>1, HolderGains
  <2> QED
    BY <1>1, <1>4, <2>1, <2>2 DEF OneHolder
<1>10. ReportInv'
  BY <1>u, <1>4, <1>5 DEF ReportInv, Readable, SocketTypes
<1>11. StuckInv'
  BY <1>u, <1>4, StuckFrame
<1> QED
  BY <1>4, <1>6, <1>7, <1>8, <1>9, <1>10, <1>11

(* x = std::move(y), and the handler of an accept with y as its result:
   MoveDescriptor() for both *)
LEMMA MoveHolds ==
    ASSUME SocketInv, ~twice, NEW x \in Objects, NEW y \in Objects \cup Ops,
           x # y, NEW n, n = Number[y], n # Invalid, MoveDescriptor(x, n, y),
           \A o \in Ops : newFd'[o] = IF o = y THEN Invalid ELSE newFd[o]
    PROVE  /\ fd' \in [Objects -> Fds \cup {Invalid}]
           /\ own' \in [Objects \cup Ops -> Files \cup {None}]
           /\ fd[x] \in Fds \cup {Invalid} /\ CloseFd(fd[x])
           /\ OneHolder'
<1> USE DEF SocketInv
<1>n. /\ Number \in [Objects \cup Ops -> Fds \cup {Invalid}]
      /\ table \in [Fds -> Files \cup {None}]
      /\ own \in [Objects \cup Ops -> Files \cup {None}]
      /\ HeldOnce(Number, table, own)
      /\ n \in Fds
  BY NumberIsTyped DEF OneHolder, SocketTypes
<1>1. /\ fd' \in [Objects -> Fds \cup {Invalid}]
      /\ fd'[x] = n
      /\ y \in Objects => fd'[y] = Invalid
      /\ \A z \in Objects : z # x /\ z # y => fd'[z] = fd[z]
  BY <1>n DEF MoveDescriptor, SocketTypes
<1>2. /\ own' = [own EXCEPT ![x] = own[y], ![y] = None]
      /\ own' \in [Objects \cup Ops -> Files \cup {None}]
  BY <1>n DEF MoveDescriptor
<1>3. fd[x] \in Fds \cup {Invalid} /\ CloseFd(fd[x])
  BY DEF MoveDescriptor, SocketTypes
<1>4. Number' = [Number EXCEPT ![x] = Number[y], ![y] = Invalid]
  <2>1. ASSUME NEW z \in Objects \cup Ops
        PROVE  Number'[z] = [Number EXCEPT ![x] = Number[y],
                                           ![y] = Invalid][z]
    <3>1. Number'[z] = IF z \in Objects THEN fd'[z] ELSE newFd'[z]
      BY DEF Number
    <3>2. Number[z] = IF z \in Objects THEN fd[z] ELSE newFd[z]
      BY DEF Number
    <3> QED
      BY <1>n, <1>1, <3>1, <3>2
  <2>2. Number' = [z \in Objects \cup Ops |-> Number'[z]]
    BY DEF Number
  <2> QED
    BY <1>n, <2>1, <2>2
<1>5. Number[x] = fd[x]
  BY NumberIsTyped
<1>6. CASE fd[x] = Invalid
  <2>1. table' = table
    BY <1>3, <1>6, InvalidIsNoNumber DEF CloseFd
  <2>2. HeldOnce([Number EXCEPT ![x] = Number[y], ![y] = Invalid], table,
                 [own EXCEPT ![x] = own[y], ![y] = None])
    <3>1. Number[x] = Invalid /\ Number[y] # Invalid /\ x \in Objects \cup Ops
      BY <1>5, <1>6
    <3> HIDE DEF SocketInv
    <3> QED
      BY <1>n, <3>1, HolderChanges
  <2> QED
    BY <1>1, <1>2, <1>3, <1>4, <2>1, <2>2 DEF OneHolder
<1>7. CASE fd[x] # Invalid
  <2> DEFINE num == [Number EXCEPT ![x] = Invalid]
             tab == [table EXCEPT ![Number[x]] = None]
             of  == [own EXCEPT ![x] = None]
  <2>1. table' = tab
    BY <1>3, <1>5, <1>7, InvalidIsNoNumber DEF CloseFd
  <2>2. HeldOnce(num, tab, of)
    <3>1. Number[x] # Invalid /\ x \in Objects \cup Ops
      BY <1>5, <1>7
    <3> HIDE DEF SocketInv
    <3> QED
      BY <1>n, <3>1, HolderLoses
  <2>3. /\ num \in [Objects \cup Ops -> Fds \cup {Invalid}]
        /\ tab \in [Fds -> Files \cup {None}]
        /\ of \in [Objects \cup Ops -> Files \cup {None}]
        /\ num[x] = Invalid /\ num[y] = Number[y] /\ of[y] = own[y]
        /\ x \in Objects \cup Ops
    BY <1>n
  <2>4. /\ [num EXCEPT ![x] = Number[y], ![y] = Invalid]
             = [Number EXCEPT ![x] = Number[y], ![y] = Invalid]
        /\ [of EXCEPT ![x] = own[y], ![y] = None]
             = [own EXCEPT ![x] = own[y], ![y] = None]
    BY <1>n
  <2> HIDE DEF num, tab, of, SocketInv
  <2>5. HeldOnce([num EXCEPT ![x] = num[y], ![y] = Invalid], tab,
                 [of EXCEPT ![x] = of[y], ![y] = None])
    BY <2>2, <2>3, HolderChanges
  <2>6. HeldOnce(Number', table', own')
    BY <1>2, <1>4, <2>1, <2>3, <2>4, <2>5
  <2>7. OneHolder'
    BY <2>6 DEF OneHolder
  <2> QED
    BY <1>1, <1>2, <1>3, <2>7
<1> QED
  BY <1>6, <1>7

LEMMA MoveAssignKeepsInv ==
    ASSUME SocketInv, NEW t \in Threads, NEW x \in Sockets,
           NEW y \in Sockets, MoveAssign(t, x, y)
    PROVE  SocketInv'
<1> USE DEF SocketInv
<1>o. x \in Objects /\ y \in Objects
  BY DEF Objects
<1>u. UNCHANGED <<closing, call, target, newFd, active, result, twice>>
  BY DEF MoveAssign, opVars
<1>1. /\ ~twice /\ x # y /\ fd[y] # Invalid /\ MoveDescriptor(x, fd[y], y)
      /\ Number[y] = fd[y]
  BY <1>o, NumberIsTyped DEF MoveAssign, InUserCode, Running
<1>2. \A o \in Ops : newFd'[o] = IF o = y THEN Invalid ELSE newFd[o]
  BY <1>o, <1>u, SocketAssumption
<1>3. /\ fd' \in [Objects -> Fds \cup {Invalid}]
      /\ own' \in [Objects \cup Ops -> Files \cup {None}]
      /\ fd[x] \in Fds \cup {Invalid} /\ CloseFd(fd[x])
      /\ OneHolder'
  <2> DEFINE n == fd[y]
  <2>1. n = Number[y] /\ n # Invalid /\ MoveDescriptor(x, n, y)
        /\ y \in Objects \cup Ops
    BY <1>o, <1>1
  <2> HIDE DEF n, SocketInv
  <2> QED
    BY <1>o, <1>1, <1>2, <2>1, MoveHolds
<1>4. /\ table' \in [Fds -> Files \cup {None}]
      /\ sock' \in [Files -> [units : Nat, conn : Connection]]
      /\ reg' \subseteq Fds
      /\ report' \in [Threads -> Reports]
      /\ UNCHANGED <<lock, stuck, aborted>>
      /\ lingers' \in Fds \cup {Invalid}
      /\ lingers' # Invalid => stuck # None
      /\ ListenersQuiet' /\ TableInv' /\ ReportInv' /\ StuckInv'
  BY <1>u, <1>3, CloseEffects
<1>5. SocketTypes'
  BY <1>u, <1>3, <1>4 DEF SocketTypes
<1>6. ListInv' /\ ResultInv'
  BY <1>u DEF ListInv, ResultInv
<1> QED
  BY <1>3, <1>4, <1>5, <1>6

(* An accepted connection is given to its socket before the handler runs. *)
LEMMA DispatchAcceptKeepsInv ==
    ASSUME SocketInv, NEW t \in Threads, NEW o \in Ops, DispatchAccept(t, o)
    PROVE  SocketInv'
<1> USE DEF SocketInv
<1>u. UNCHANGED <<closing, call, active, twice>>
  BY DEF DispatchAccept
<1>1. /\ ~twice /\ result[o] = "accepted"
      /\ result' = [result EXCEPT ![o] = "new"]
      /\ newFd' = [newFd EXCEPT ![o] = Invalid]
      /\ target' = [target EXCEPT ![o] = None]
      /\ MoveDescriptor(target[o], newFd[o], o)
  BY DEF DispatchAccept, InUserCode, Running
<1>2. /\ target[o] \in Objects /\ newFd[o] # Invalid /\ target[o] # o
      /\ Number[o] = newFd[o]
  BY <1>1, NumberIsTyped, SocketAssumption DEF ResultInv, Objects
<1>3. /\ fd' \in [Objects -> Fds \cup {Invalid}]
      /\ own' \in [Objects \cup Ops -> Files \cup {None}]
      /\ fd[target[o]] \in Fds \cup {Invalid} /\ CloseFd(fd[target[o]])
      /\ OneHolder'
  <2> DEFINE n == newFd[o]
             x == target[o]
  <2>1. /\ n = Number[o] /\ n # Invalid /\ MoveDescriptor(x, n, o)
        /\ o \in Objects \cup Ops /\ x \in Objects /\ x # o
    BY <1>1, <1>2
  <2>2. \A p \in Ops : newFd'[p] = IF p = o THEN Invalid ELSE newFd[p]
    BY <1>1 DEF SocketTypes
  <2> HIDE DEF n, x, SocketInv
  <2>3. /\ fd' \in [Objects -> Fds \cup {Invalid}]
        /\ own' \in [Objects \cup Ops -> Files \cup {None}]
        /\ fd[x] \in Fds \cup {Invalid} /\ CloseFd(fd[x])
        /\ OneHolder'
    BY <1>1, <2>1, <2>2, MoveHolds
  <2> QED
    BY <2>3 DEF x
<1>4. /\ table' \in [Fds -> Files \cup {None}]
      /\ sock' \in [Files -> [units : Nat, conn : Connection]]
      /\ reg' \subseteq Fds
      /\ report' \in [Threads -> Reports]
      /\ UNCHANGED <<lock, stuck, aborted>>
      /\ lingers' \in Fds \cup {Invalid}
      /\ lingers' # Invalid => stuck # None
      /\ ListenersQuiet' /\ TableInv' /\ ReportInv' /\ StuckInv'
  BY <1>u, <1>3, CloseEffects
<1>5. SocketTypes'
  BY <1>u, <1>1, <1>3, <1>4 DEF SocketTypes, Results
<1>6. \A n \in Fds : \A p \in ToSet(active[n]) : p # o /\ p \in Ops
  <2> TAKE n \in Fds
  <2>1. ToSet(active[n]) \subseteq Ops
    BY SetOfSeq DEF SocketTypes
  <2> QED
    BY <1>1, <2>1 DEF ListInv
<1>7. ListInv'
  BY <1>u, <1>1, <1>6 DEF ListInv, SocketTypes
<1>8. ResultInv'
  BY <1>1 DEF ResultInv, SocketTypes
<1> QED
  BY <1>3, <1>4, <1>5, <1>7, <1>8

LEMMA DispatchKeepsInv ==
    ASSUME SocketInv, NEW t \in Threads, NEW o \in Ops, Dispatch(t, o)
    PROVE  SocketInv'
<1> USE DEF SocketInv
<1>u. UNCHANGED <<fd, table, closing, sock, call, target, newFd, active, reg,
                  report, lock, stuck, lingers, aborted, own, twice>>
  BY DEF Dispatch, fileVars, opVars, pollVars, history
<1>1. /\ result[o] \in {"done", "error"}
      /\ result' = [result EXCEPT ![o] = "new"]
  BY DEF Dispatch
<1>2. SocketTypes'
  BY <1>u, <1>1 DEF SocketTypes, Results
<1>3. \A n \in Fds : \A p \in ToSet(active[n]) : p # o /\ p \in Ops
  <2> TAKE n \in Fds
  <2>1. ToSet(active[n]) \subseteq Ops
    BY SetOfSeq DEF SocketTypes
  <2> QED
    BY <1>1, <2>1 DEF ListInv
<1>4. ListInv'
  BY <1>u, <1>1, <1>3 DEF ListInv, SocketTypes
<1>5. ResultInv'
  BY <1>u, <1>1 DEF ResultInv, SocketTypes
<1>6. ListenersQuiet' /\ TableInv'
  BY <1>u DEF ListenersQuiet, TableInv
<1>7. OneHolder' <=> OneHolder
  BY <1>u DEF OneHolder, Number, HeldOnce
<1>8. ReportInv'
  BY <1>u DEF ReportInv, Readable
<1>9. StuckInv'
  BY <1>u, StuckFrame
<1> QED
  BY <1>u, <1>2, <1>4, <1>5, <1>6, <1>7, <1>8, <1>9

(* ~FileDescriptor() and the first close() of IoObject::close() *)
LEMMA CloseKeepsInv ==
    ASSUME SocketInv, ~twice, NEW x \in Objects,
           fd' = [fd EXCEPT ![x] = Invalid],
           own' = [own EXCEPT ![x] = None],
           CloseFd(fd[x]),
           closing' \in [Threads -> Fds \cup {Invalid}],
           UNCHANGED <<opVars, active, result, twice>>
    PROVE  SocketInv'
<1> USE DEF SocketInv
<1>u. UNCHANGED <<call, target, newFd, active, result>>
  BY DEF opVars
<1>1. fd[x] \in Fds \cup {Invalid}
  BY DEF SocketTypes
<1>4. /\ table' \in [Fds -> Files \cup {None}]
      /\ sock' \in [Files -> [units : Nat, conn : Connection]]
      /\ reg' \subseteq Fds
      /\ report' \in [Threads -> Reports]
      /\ UNCHANGED <<lock, stuck, aborted>>
      /\ lingers' \in Fds \cup {Invalid}
      /\ lingers' # Invalid => stuck # None
      /\ ListenersQuiet' /\ TableInv' /\ ReportInv' /\ StuckInv'
      /\ fd[x] = Invalid => table' = table
      /\ fd[x] \in Fds => table' = [table EXCEPT ![fd[x]] = None]
  BY <1>u, <1>1, CloseEffects
<1>5. SocketTypes'
  BY <1>u, <1>4 DEF SocketTypes
<1>6. ListInv' /\ ResultInv'
  BY <1>u DEF ListInv, ResultInv
<1>7. CASE fd[x] = Invalid
  <2>1. Number' = Number /\ table' = table /\ Number[x] = Invalid
    BY <1>u, <1>4, <1>7, NumberIsTyped DEF Number, SocketTypes
  <2>2. \A y \in Objects \cup Ops : y # x => own'[y] = own[y]
    BY DEF SocketTypes
  <2>3. OneHolder'
    BY <2>1, <2>2 DEF OneHolder, HeldOnce
  <2> QED
    BY <1>4, <1>5, <1>6, <2>3
<1>8. CASE fd[x] # Invalid
  <2>1. Number' = [Number EXCEPT ![x] = Invalid]
    BY <1>u DEF Number, SocketTypes
  <2>2. HeldOnce([Number EXCEPT ![x] = Invalid],
                 [table EXCEPT ![Number[x]] = None],
                 [own EXCEPT ![x] = None])
    <3>1. /\ Number \in [Objects \cup Ops -> Fds \cup {Invalid}]
          /\ Number[x] # Invalid
          /\ table \in [Fds -> Files \cup {None}]
          /\ own \in [Objects \cup Ops -> Files \cup {None}]
          /\ HeldOnce(Number, table, own)
          /\ x \in Objects \cup Ops
      BY <1>8, NumberIsTyped DEF SocketTypes, OneHolder
    <3> HIDE DEF SocketInv
    <3> QED
      BY <3>1, HolderLoses
  <2>3. Number[x] = fd[x] /\ fd[x] \in Fds
    BY <1>1, <1>8, NumberIsTyped
  <2>4. OneHolder'
    BY <1>4, <2>1, <2>2, <2>3 DEF OneHolder
  <2> QED
    BY <1>4, <1>5, <1>6, <2>4
<1> QED
  BY <1>7, <1>8

LEMMA DestroyKeepsInv ==
    ASSUME SocketInv, NEW t \in Threads, NEW x \in Objects,
           Destroy(t, x) \/ close(t, x)
    PROVE  SocketInv'
<1>1. /\ fd[x] \in Fds \cup {Invalid}
      /\ closing \in [Threads -> Fds \cup {Invalid}]
  BY DEF SocketInv, SocketTypes
<1>2. closing' \in [Threads -> Fds \cup {Invalid}]
  BY <1>1 DEF Destroy, close
<1> QED
  BY <1>2, CloseKeepsInv DEF Destroy, close, InUserCode, Running

(* The second close() of IoObject::close(): if it hits a file the history
   says so, otherwise the number was free. *)
LEMMA CloseAgainKeepsInv ==
    ASSUME SocketInv, NEW t \in Threads, CloseAgain(t)
    PROVE  SocketInv'
<1> USE DEF SocketInv
<1>u. UNCHANGED <<fd, call, target, newFd, active, result, own>>
  BY DEF CloseAgain, opVars
<1>1. /\ closing[t] \in Fds /\ ~twice /\ CloseFd(closing[t])
      /\ twice' = (table[closing[t]] # None)
      /\ closing' = [closing EXCEPT ![t] = Invalid]
  BY DEF CloseAgain, Running, SocketTypes
<1>4. /\ table' \in [Fds -> Files \cup {None}]
      /\ sock' \in [Files -> [units : Nat, conn : Connection]]
      /\ reg' \subseteq Fds
      /\ report' \in [Threads -> Reports]
      /\ UNCHANGED <<lock, stuck, aborted>>
      /\ lingers' \in Fds \cup {Invalid}
      /\ lingers' # Invalid => stuck # None
      /\ ListenersQuiet' /\ TableInv' /\ ReportInv' /\ StuckInv'
      /\ table' = [table EXCEPT ![closing[t]] = None]
  BY <1>u, <1>1, CloseEffects
<1>5. SocketTypes'
  BY <1>u, <1>1, <1>4 DEF SocketTypes
<1>6. ListInv' /\ ResultInv'
  BY <1>u DEF ListInv, ResultInv
<1>7. ASSUME ~twice'
      PROVE  OneHolder'
  <2>1. table[closing[t]] = None
    BY <1>1, <1>7
  <2>2. table' = table
    BY <1>1, <1>4, <2>1 DEF SocketTypes
  <2> QED
    BY <1>u, <1>1, <2>2 DEF OneHolder, Number, HeldOnce
<1> QED
  BY <1>4, <1>5, <1>6, <1>7

(* make_async_io_operation() and schedule(), with the number of an object *)
LEMMA SubmitKeepsInv ==
    ASSUME SocketInv, NEW t \in Threads, NEW o \in Ops, NEW x \in Objects,
           NEW what \in Calls, Submit(t, o, x, what),
           target' \in [Ops -> Sockets \cup {None}],
           \A p \in Ops : p # o => target'[p] = target[p],
           what = "accept" => target'[o] \in Sockets
    PROVE  SocketInv' /\ (aborted' => fd[x] = Invalid)
<1> USE DEF SocketInv
<1>u. UNCHANGED <<fd, table, closing, sock, newFd, report, lock, stuck,
                  lingers, own, twice>>
  BY DEF Submit, fileVars, pollVars, history
<1> DEFINE n == fd[x]
<1>g. ~twice /\ ~aborted /\ lock = None /\ result[o] = "new"
  BY DEF Submit, InUserCode, Running
<1>a. CASE ~HasFile(x) /\ aborted' = TRUE /\ UNCHANGED <<call, schedVars>>
  <2>u. UNCHANGED <<call, active, result, reg>>
    BY <1>a DEF schedVars
  <2>1. n = Invalid
    <3>1. n # Invalid => table[n] # None
      <4>1. Number[x] = n /\ OneHolder
        BY <1>g, NumberIsTyped
      <4> QED
        BY <4>1 DEF OneHolder, HeldOnce
    <3> QED
      BY <1>a, <3>1 DEF HasFile, SocketTypes
  <2>2. SocketTypes'
    BY <1>u, <2>u DEF SocketTypes
  <2>3. \A m \in Fds : \A p \in ToSet(active[m]) : p # o /\ p \in Ops
    <3> TAKE m \in Fds
    <3>1. ToSet(active[m]) \subseteq Ops
      BY SetOfSeq DEF SocketTypes
    <3> QED
      BY <1>g, <3>1 DEF ListInv
  <2>4. ListInv'
    BY <2>u, <2>3 DEF ListInv
  <2>5. ResultInv'
    BY <1>u, <1>g, <2>u DEF ResultInv
  <2>6. ListenersQuiet' /\ TableInv'
    BY <1>u, <2>u DEF ListenersQuiet, TableInv
  <2>7. OneHolder' <=> OneHolder
    BY <1>u DEF OneHolder, Number, HeldOnce
  <2>8. ReportInv'
    BY <1>u, <2>u DEF ReportInv, Readable
  <2>9. StuckInv'
    BY <1>u, <2>u, StuckFrame
  <2> QED
    BY <1>u, <2>1, <2>2, <2>4, <2>5, <2>6, <2>7, <2>8, <2>9
<1>b. SUFFICES ASSUME ~(~HasFile(x) /\ aborted' = TRUE
                          /\ UNCHANGED <<call, schedVars>>)
               PROVE  SocketInv' /\ ~aborted'
  BY <1>a
<1>1. /\ n \in Fds /\ ~twice /\ lock = None /\ result[o] = "new"
      /\ table[n] # None
      /\ call' = [call EXCEPT ![o] = what]
      /\ active' = [active EXCEPT ![n] = Append(@, o)]
      /\ result' = [result EXCEPT ![o] = "none"]
      /\ reg' = reg \cup {n}
      /\ ~aborted'
  BY <1>b, <1>g DEF Submit, HasFile
<1>s. \A m \in Fds : active[m] \in Seq(Ops) /\ ToSet(active[m]) \subseteq Ops
                     /\ o \notin ToSet(active[m])
  <2> TAKE m \in Fds
  <2>1. active[m] \in Seq(Ops)
    BY DEF SocketTypes
  <2> QED
    BY <1>1, <2>1, SetOfSeq DEF ListInv
<1> HIDE DEF n
<1>3. /\ Append(active[n], o) \in Seq(Ops)
      /\ ToSet(Append(active[n], o)) = ToSet(active[n]) \cup {o}
      /\ IsInjective(Append(active[n], o))
  <2>1. active[n] \in Seq(Ops) /\ IsInjective(active[n])
        /\ o \notin ToSet(active[n])
    BY <1>1, <1>s DEF ListInv
  <2> HIDE DEF SocketInv
  <2> QED
    BY <2>1, AppendSet, AppendProperties
<1>4. /\ active' \in [Fds -> Seq(Ops)]
      /\ active'[n] = Append(active[n], o)
      /\ \A m \in Fds : m # n => active'[m] = active[m]
  BY <1>1, <1>3 DEF SocketTypes
<1>5. SocketTypes'
  BY <1>u, <1>1, <1>4 DEF SocketTypes, Results
<1>6. ListInv'
  <2>1. \A m \in Fds :
             ToSet(active'[m]) = IF m = n THEN ToSet(active[m]) \cup {o}
                                          ELSE ToSet(active[m])
    BY <1>3, <1>4
  <2>2. \A m \in Fds : IsInjective(active'[m])
    BY <1>3, <1>4 DEF ListInv
  <2>3. \A k, m \in Fds :
             k # m => ToSet(active'[k]) \cap ToSet(active'[m]) = {}
    BY <1>s, <2>1, ZenonT(60) DEF ListInv
  <2>4. ASSUME NEW m \in Fds, NEW p \in ToSet(active'[m])
        PROVE  /\ result'[p] = "none"
               /\ call'[p] \in Calls
               /\ call'[p] = "accept" => target'[p] \in Sockets
    <3>1. CASE p = o
      BY <1>1, <3>1 DEF SocketTypes
    <3>2. CASE p # o
      <4>1. p \in ToSet(active[m]) /\ p \in Ops
        BY <1>s, <2>1, <2>4, <3>2
      <4>2. result'[p] = result[p] /\ call'[p] = call[p]
            /\ target'[p] = target[p]
        BY <1>1, <3>2, <4>1 DEF SocketTypes
      <4> QED
        BY <4>1, <4>2 DEF ListInv
    <3> QED
      BY <3>1, <3>2
  <2> QED
    BY <2>2, <2>3, <2>4 DEF ListInv
<1>7. ResultInv'
  BY <1>u, <1>1 DEF ResultInv, SocketTypes
<1>8. ListenersQuiet'
  BY <1>u DEF ListenersQuiet
<1>9. TableInv'
  BY <1>u, <1>1 DEF TableInv
<1>10. OneHolder' <=> OneHolder
  BY <1>u DEF OneHolder, Number, HeldOnce
<1>11. ReportInv'
  BY <1>u, <1>1, <1>4 DEF ReportInv, Readable
<1>12. StuckInv'
  BY <1>u, <1>1, SocketAssumption DEF StuckInv
<1> QED
  BY <1>u, <1>1, <1>5, <1>6, <1>7, <1>8, <1>9, <1>10, <1>11, <1>12

LEMMA UseSocketKeepsInv ==
    ASSUME SocketInv, NEW t \in Threads, NEW o \in Ops,
           UseStream(t, o) \/ UseDatagram(t, o)
    PROVE  /\ SocketInv'
           /\ aborted' => \E x \in Objects, what \in Calls :
                            fd[x] = Invalid /\ Submit(t, o, x, what)
<1>1. PICK x \in Sockets, what \in OnStreams \cup OnDatagrams :
        Submit(t, o, x, what) /\ UNCHANGED target
  BY DEF UseStream, UseDatagram, UseSocket
<1>2. x \in Objects /\ what \in Calls /\ what # "accept"
  BY SocketAssumption DEF Objects, Calls, StreamCalls, DatagramCalls
<1>3. target' \in [Ops -> Sockets \cup {None}]
  BY <1>1 DEF SocketInv, SocketTypes
<1> QED
  BY <1>1, <1>2, <1>3, SubmitKeepsInv

LEMMA AcceptKeepsInv ==
    ASSUME SocketInv, NEW t \in Threads, NEW o \in Ops, accept(t, o)
    PROVE  /\ SocketInv'
           /\ aborted' => \E x \in Objects, what \in Calls :
                            fd[x] = Invalid /\ Submit(t, o, x, what)
<1>1. PICK x \in Acceptors, y \in Sockets :
        /\ Submit(t, o, x, "accept")
        /\ target' = [target EXCEPT ![o] = y]
  BY DEF accept
<1>2. x \in Objects /\ "accept" \in Calls
  BY DEF Objects, Calls
<1>3. /\ target' \in [Ops -> Sockets \cup {None}]
      /\ target'[o] \in Sockets
      /\ \A p \in Ops : p # o => target'[p] = target[p]
  BY <1>1 DEF SocketInv, SocketTypes
<1> QED
  BY <1>1, <1>2, <1>3, SubmitKeepsInv

LEMMA CancelKeepsInv ==
    ASSUME SocketInv, NEW t \in Threads, NEW x \in Objects, cancel(t, x)
    PROVE  SocketInv'
<1> USE DEF SocketInv
<1>u. UNCHANGED <<fd, table, closing, sock, newFd, report, lock, stuck,
                  lingers, aborted, own, twice>>
  BY DEF cancel, fileVars, pollVars, history
<1> DEFINE n == fd[x]
           S == ToSet(active[n])
<1>1. /\ n \in Fds /\ lock = None
      /\ Finish(S, "done", n, <<>>)
      /\ reg' = reg \ {n}
  BY DEF cancel, SocketTypes
<1>2. /\ <<>> \in Seq(Ops) /\ ToSet(<<>>) = {} /\ IsInjective(<<>>)
  BY DEF ToSet, IsInjective
<1>3. /\ active' \in [Fds -> Seq(Ops)]
      /\ result' \in [Ops -> Results]
      /\ call' \in [Ops -> Calls \cup {"none"}]
      /\ target' \in [Ops -> Sockets \cup {None}]
      /\ ListInv'
      /\ \A o \in Ops \ S : result'[o] = result[o] /\ target'[o] = target[o]
      /\ \A o \in S : /\ o \in Ops
                      /\ result[o] = "none" /\ result'[o] = "done"
      /\ \A m \in Fds : m # n => active'[m] = active[m]
      /\ active'[n] = <<>>
  <2>1. /\ S \in SUBSET ToSet(active[n]) /\ ToSet(<<>>) = ToSet(active[n]) \ S
        /\ "done" \in {"done", "error", "accepted"}
    BY <1>2 DEF S
  <2>2. \A o \in S : o \in Ops /\ result[o] = "none"
    BY <1>1, SetOfSeq DEF ListInv, SocketTypes
  <2>3. SocketTypes /\ ListInv
    OBVIOUS
  <2>4. /\ active' \in [Fds -> Seq(Ops)]
        /\ result' \in [Ops -> Results]
        /\ call' \in [Ops -> Calls \cup {"none"}]
        /\ target' \in [Ops -> Sockets \cup {None}]
        /\ ListInv'
    <3> HIDE DEF SocketInv, n, S
    <3> QED
      BY <1>1, <1>2, <2>1, <2>3, FinishEffects
  <2>5. /\ \A o \in Ops : /\ result'[o] = IF o \in S THEN "done" ELSE result[o]
                          /\ target'[o] = IF o \in S THEN None ELSE target[o]
        /\ \A m \in Fds : m # n => active'[m] = active[m]
        /\ active'[n] = <<>>
    <3> HIDE DEF n, S
    <3> QED
      BY <1>1 DEF Finish, SocketTypes
  <2> HIDE DEF SocketInv, n, S
  <2> QED
    BY <2>2, <2>4, <2>5
<1> HIDE DEF n, S
<1>5. SocketTypes'
  BY <1>u, <1>1, <1>3 DEF SocketTypes
<1>6. ResultInv'
  BY <1>u, <1>3 DEF ResultInv
<1>7. ListenersQuiet'
  BY <1>u DEF ListenersQuiet
<1>8. TableInv'
  BY <1>u, <1>1 DEF TableInv
<1>9. OneHolder' <=> OneHolder
  BY <1>u DEF OneHolder, Number, HeldOnce
<1>10. ReportInv'
  BY <1>u, <1>1, <1>3 DEF ReportInv, Readable
<1>11. StuckInv'
  BY <1>u, <1>1, SocketAssumption DEF StuckInv
<1> QED
  BY <1>u, <1>3, <1>5, <1>6, <1>7, <1>8, <1>9, <1>10, <1>11

(* epoll_pwait() returns: the report is true when it is made. *)
LEMMA PollKeepsInv ==
    ASSUME SocketInv, NEW t \in Threads, Poll(t)
    PROVE  SocketInv'
<1> USE DEF SocketInv
<1>u. UNCHANGED <<fd, table, closing, sock, call, target, newFd, active,
                  result, reg, lock, stuck, lingers, aborted, own, twice>>
  BY DEF Poll, fileVars, opVars, schedVars, history
<1>1. PICK n \in Fds, in \in BOOLEAN, age \in {"fresh", "closed"} :
        /\ age = "fresh" => n \in reg /\ Reportable(n, table[n], in)
        /\ report' = [report EXCEPT ![t] = Report(n, in, age)]
  <2>1. ASSUME NEW n \in reg, NEW in \in BOOLEAN,
               Reportable(n, table[n], in),
               report' = [report EXCEPT ![t] = Report(n, in, "fresh")]
        PROVE  \E m \in Fds, b \in BOOLEAN, age \in {"fresh", "closed"} :
                 /\ age = "fresh" => m \in reg /\ Reportable(m, table[m], b)
                 /\ report' = [report EXCEPT ![t] = Report(m, b, age)]
    <3>1. n \in Fds
      BY DEF SocketTypes
    <3> QED
      BY <2>1, <3>1
  <2>2. ASSUME NEW in \in BOOLEAN, lingers # Invalid,
               report' = [report EXCEPT ![t] = Report(lingers, in, "closed")]
        PROVE  \E m \in Fds, b \in BOOLEAN, age \in {"fresh", "closed"} :
                 /\ age = "fresh" => m \in reg /\ Reportable(m, table[m], b)
                 /\ report' = [report EXCEPT ![t] = Report(m, b, age)]
    <3>1. lingers \in Fds /\ "closed" # "fresh"
      BY <2>2 DEF SocketTypes
    <3> QED
      BY <2>2, <3>1
  <2> QED
    BY <2>1, <2>2 DEF Poll
<1>2. report[t] = NoReport
  BY DEF Poll, InUserCode
<1> DEFINE r == Report(n, in, age)
<1>3. age = "fresh" => n \in reg /\ table[n] # None
  BY <1>1 DEF TableInv
<1>4. /\ r \in Reports /\ r.fd = n /\ r.in = in /\ r.age = age
  BY DEF Report, NoReport, Reports, Ages
<1>5. /\ report' \in [Threads -> Reports] /\ report'[t] = r
      /\ \A u \in Threads : u # t => report'[u] = report[u]
  BY <1>1, <1>4 DEF SocketTypes
<1> HIDE DEF r
<1>6. age = "fresh" /\ ~in => sock[table[n]].conn # "connecting"
  BY <1>1 DEF Reportable, Writable, Unconnected, Connected
<1>7. SocketTypes'
  BY <1>u, <1>5 DEF SocketTypes
<1>8. ListInv' /\ ResultInv' /\ ListenersQuiet' /\ TableInv'
  BY <1>u DEF ListInv, ResultInv, ListenersQuiet, TableInv
<1>9. OneHolder' <=> OneHolder
  BY <1>u DEF OneHolder, Number, HeldOnce
<1>10. ReportInv'
  <2>1. age = "fresh" /\ in => Readable(table[n])
    BY <1>1 DEF Reportable
  <2> QED
    BY <1>u, <1>3, <1>4, <1>5, <1>6, <2>1 DEF ReportInv, Readable
<1>11. StuckInv'
  <2> SUFFICES ASSUME stuck # None
               PROVE  StuckInv'
    BY <1>u DEF StuckInv
  <2>1. lock \in Threads /\ lock # t /\ report'[lock] = report[lock]
    BY <1>2, <1>5 DEF StuckInv
  <2>2. ToTry(lock)' = ToTry(lock) /\ Item(lock)' = Item(lock)
    BY <1>u, <2>1 DEF ToTry, Item
  <2> QED
    BY <1>u, <2>1, <2>2 DEF StuckInv
<1> QED
  BY <1>u, <1>7, <1>8, <1>9, <1>10, <1>11

----------------------------------------------------------------------------
(* process_notifications(): the item is erased and posted. *)
LEMMA FinishItemEffects ==
    ASSUME SocketInv, NEW t \in Threads, report[t].fd \in Fds,
           ToTry(t) # {}, NEW r \in {"done", "error", "accepted"},
           FinishItem(t, r)
    PROVE  /\ active' \in [Fds -> Seq(Ops)]
           /\ result' \in [Ops -> Results]
           /\ call' \in [Ops -> Calls \cup {"none"}]
           /\ target' \in [Ops -> Sockets \cup {None}]
           /\ ListInv'
           /\ Item(t) \in Ops /\ result[Item(t)] = "none"
           /\ \A o \in Ops : o # Item(t) => /\ result'[o] = result[o]
                                            /\ target'[o] = target[o]
           /\ \A m \in Fds : active'[m] # <<>> => active[m] # <<>>
           /\ \A m \in Fds : \A p \in ToSet(active[m]) \ ToSet(active'[m]) :
                p = Item(t) /\ m = report[t].fd
<1> USE DEF SocketInv
<1> DEFINE n == report[t].fd
           i == Min(ToTry(t))
           o == Item(t)
           s == active[n]
           rest == RemoveAt(s, i)
<1>1. /\ s \in Seq(Ops) /\ i \in 1 .. Len(s) /\ o = s[i]
      /\ o \in Ops /\ o \in ToSet(s)
  BY ItemIsActive
<1>2. Finish({o}, r, n, rest)
  BY DEF FinishItem
<1>3. IsInjective(s) /\ result[o] = "none" /\ s # <<>>
  <2>1. s # <<>>
    BY <1>1
  <2> QED
    BY <1>1, <2>1 DEF ListInv
<1>t. SocketTypes /\ ListInv /\ n \in Fds
  OBVIOUS
<1> HIDE DEF n, i, o, SocketInv
<1>4. /\ rest \in Seq(Ops) /\ IsInjective(rest)
      /\ ToSet(rest) = ToSet(active[n]) \ {o}
      /\ {o} \in SUBSET ToSet(active[n])
  <2> HIDE DEF s
  <2>1. rest \in Seq(Ops) /\ IsInjective(rest)
        /\ ToSet(rest) = ToSet(s) \ {o} /\ {o} \in SUBSET ToSet(s)
    BY <1>1, <1>3, RemoveAtElements, RemoveAtSet
  <2> QED
    BY <2>1 DEF s
<1>5. /\ \A p \in Ops : p # o => /\ result'[p] = result[p]
                                 /\ target'[p] = target[p]
      /\ \A m \in Fds : m # n => active'[m] = active[m]
      /\ active'[n] = rest
  BY <1>2, <1>t DEF Finish, SocketTypes
<1> HIDE DEF rest
<1>6. /\ active' \in [Fds -> Seq(Ops)]
      /\ result' \in [Ops -> Results]
      /\ call' \in [Ops -> Calls \cup {"none"}]
      /\ target' \in [Ops -> Sockets \cup {None}]
      /\ ListInv'
  <2> HIDE DEF s
  <2> QED
    BY <1>t, <1>2, <1>4, FinishEffects
<1>7. \A m \in Fds : active'[m] # <<>> => active[m] # <<>>
  BY <1>3, <1>5
<1>8. \A m \in Fds : \A p \in ToSet(active[m]) \ ToSet(active'[m]) :
        p = o /\ m = n
  BY <1>4, <1>5
<1> QED
  BY <1>1, <1>3, <1>5, <1>6, <1>7, <1>8 DEF o, n

(* ... and what it gets as its result *)
LEMMA ItemResult ==
    ASSUME SocketInv, NEW t \in Threads, Item(t) \in Ops, NEW r,
           FinishItem(t, r)
    PROVE  /\ result'[Item(t)] = r
           /\ r = "accepted" => target'[Item(t)] = target[Item(t)]
BY DEF FinishItem, Finish

(* The reports of number n are used up, and one of them may have tried one
   more operation. *)
Aged(n) ==
    \A u \in Threads :
        /\ report'[u] \in Reports
        /\ report'[u].fd = report[u].fd /\ report'[u].in = report[u].in
        /\ report'[u].age = "closed" <=> report[u].age = "closed"
        /\ report'[u].age = "fresh" =>
             report[u].age = "fresh" /\ (report[u].fd = n => ~Taken(n))
        /\ report'[u] # NoReport => report[u] # NoReport

LEMMA UsedUpAges ==
    ASSUME SocketInv, NEW n \in Fds,
           report' = UsedUp(n)
             \/ \E t \in Threads, o \in Ops :
                  /\ report[t].fd = n
                  /\ report' = [UsedUp(n) EXCEPT ![t].tried = @ \cup {o}]
    PROVE  Aged(n) /\ report' \in [Threads -> Reports]
<1> USE DEF SocketInv
<1> DEFINE used == UsedUp(n)
<1>1. \A u \in Threads :
        /\ used[u] \in Reports
        /\ used[u].fd = report[u].fd /\ used[u].in = report[u].in
        /\ used[u].age = "closed" <=> report[u].age = "closed"
        /\ used[u].age = "fresh" =>
             report[u].age = "fresh" /\ (report[u].fd = n => ~Taken(n))
        /\ report[u].fd # n => used[u] = report[u]
  <2> TAKE u \in Threads
  <2>1. report[u] \in Reports
    BY ReportIsTyped
  <2>2. CASE report[u].fd = n /\ report[u].age = "fresh" /\ Taken(n)
    <3>1. used[u] = [report[u] EXCEPT !.age = "used"]
      BY <2>2 DEF UsedUp
    <3> QED
      BY <2>1, <2>2, <3>1 DEF Reports, Ages
  <2>3. CASE ~(report[u].fd = n /\ report[u].age = "fresh" /\ Taken(n))
    <3>1. used[u] = report[u]
      BY <2>3 DEF UsedUp
    <3> QED
      BY <2>1, <2>3, <3>1
  <2> QED
    BY <2>2, <2>3
<1>2. DOMAIN used = Threads /\ used = [u \in Threads |-> used[u]]
  BY DEF UsedUp
<1>r. NoReport.fd \notin Fds
  BY InvalidIsNoNumber DEF NoReport
<1> HIDE DEF used
<1>3. CASE report' = used
  BY <1>1, <1>2, <1>3, <1>r DEF Aged
<1>4. CASE \E t \in Threads, o \in Ops :
             /\ report[t].fd = n
             /\ report' = [used EXCEPT ![t].tried = @ \cup {o}]
  <2>1. PICK t \in Threads, o \in Ops :
             /\ report[t].fd = n
             /\ report' = [used EXCEPT ![t].tried = @ \cup {o}]
    BY <1>4
  <2>2. /\ \A u \in Threads : u # t => report'[u] = used[u]
        /\ report'[t] = [used[t] EXCEPT !.tried = @ \cup {o}]
        /\ report' = [u \in Threads |-> report'[u]]
    BY <1>2, <2>1, ZenonT(60)
  <2>3. /\ report'[t] \in Reports
        /\ report'[t].fd = used[t].fd /\ report'[t].in = used[t].in
        /\ report'[t].age = used[t].age
    <3>1. used[t] \in Reports
      BY <1>1
    <3> QED
      BY <2>2, <3>1 DEF Reports
  <2>4. report[t] # NoReport
    BY <1>r, <2>1
  <2>5. \A u \in Threads : report'[u] \in Reports
    BY <1>1, <2>2, <2>3
  <2>6. report' \in [Threads -> Reports]
    BY <2>2, <2>5
  <2>7. Aged(n)
    <3> SUFFICES ASSUME NEW u \in Threads
                 PROVE  /\ report'[u] \in Reports
                        /\ report'[u].fd = report[u].fd
                        /\ report'[u].in = report[u].in
                        /\ report'[u].age = "closed"
                             <=> report[u].age = "closed"
                        /\ report'[u].age = "fresh" =>
                             /\ report[u].age = "fresh"
                             /\ report[u].fd = n => ~Taken(n)
                        /\ report'[u] # NoReport => report[u] # NoReport
      BY DEF Aged
    <3>1. CASE u = t
      BY <1>1, <2>3, <2>4, <3>1
    <3>2. CASE u # t
      <4>1. report'[u] = used[u]
        BY <2>2, <3>2
      <4> QED
        BY <1>1, <1>r, <2>5, <4>1
    <3> QED
      BY <3>1, <3>2
  <2> QED
    BY <2>6, <2>7
<1> QED
  BY <1>3, <1>4 DEF used

(* If a call changes only file f and f has no number but n, the reports that
   stay fresh say what is true. *)
LEMMA AgedReports ==
    ASSUME SocketInv, NEW n \in Fds, Aged(n), NEW f \in Files,
           \A m \in Fds : table[m] = f => m = n,
           \A g \in Files : g # f => sock'[g] = sock[g],
           \A m \in Fds : table[m] # None => table'[m] = table[m],
           \A m \in Fds : active'[m] # <<>> => active[m] # <<>>,
           UNCHANGED reg
    PROVE  ReportInv'
<1> USE DEF SocketInv
<1> SUFFICES ASSUME NEW u \in Threads, report'[u] # NoReport
             PROVE  /\ report'[u].fd \in Fds
                    /\ report'[u].age # "closed" =>
                         /\ table'[report'[u].fd] # None
                         /\ active'[report'[u].fd] # <<>> =>
                              report'[u].fd \in reg'
                    /\ report'[u].age = "fresh" =>
                         IF report'[u].in
                         THEN Readable(table[report[u].fd])'
                         ELSE sock'[table'[report'[u].fd]].conn
                                # "connecting"
  BY DEF ReportInv
<1> DEFINE m == report[u].fd
<1>1. /\ report[u] # NoReport /\ m \in Fds /\ report'[u].fd = m
      /\ report'[u].in = report[u].in
      /\ report'[u].age = "closed" <=> report[u].age = "closed"
      /\ report'[u].age = "fresh" =>
           report[u].age = "fresh" /\ (m = n => ~Taken(n))
  BY DEF Aged, ReportInv
<1>2. report'[u].age # "closed" => /\ table'[m] = table[m] /\ table[m] # None
                                   /\ active'[m] # <<>> => m \in reg'
  BY <1>1 DEF ReportInv
<1>3. ASSUME report'[u].age = "fresh"
      PROVE  /\ table'[m] = table[m]
             /\ sock'[table[m]] = sock[table[m]]
  <2>1. table[m] # None /\ table[m] \in Files
    BY <1>1, <1>2, <1>3 DEF SocketTypes
  <2>2. CASE m = n
    BY <1>1, <1>2, <1>3, <2>1, <2>2 DEF Taken
  <2>3. CASE m # n
    BY <1>1, <1>2, <1>3, <2>1, <2>3
  <2> QED
    BY <2>2, <2>3
<1>4. report'[u].age = "fresh" =>
        IF report'[u].in THEN Readable(table[report[u].fd])'
        ELSE sock'[table'[report'[u].fd]].conn # "connecting"
  BY <1>1, <1>3 DEF ReportInv, Readable
<1> QED
  BY <1>1, <1>2, <1>4

(* A thread with a report and the lock: the next item and its file *)
LEMMA PerformSetting ==
    ASSUME SocketInv, NEW t \in Threads, HasLock(t), ToTry(t) # {}
    PROVE  /\ ~twice /\ report[t] # NoReport /\ report[t].fd \in Fds
           /\ Item(t) \in Ops /\ Item(t) \in ToSet(active[report[t].fd])
           /\ result[Item(t)] = "none" /\ newFd[Item(t)] = Invalid
           /\ call[Item(t)] \in Calls
           /\ call[Item(t)] = "accept" => target[Item(t)] \in Sockets
           /\ (call[Item(t)] \in Reads) = report[t].in
<1> USE DEF SocketInv
<1>1. ~twice /\ report[t] # NoReport /\ report[t].fd \in Fds
  BY DEF HasLock, Running, ReportInv
<1>2. /\ Item(t) \in Ops /\ Item(t) \in ToSet(active[report[t].fd])
      /\ (call[Item(t)] \in Reads) = report[t].in
  BY <1>1, ItemIsActive
<1>3. /\ result[Item(t)] = "none" /\ call[Item(t)] \in Calls
      /\ call[Item(t)] = "accept" => target[Item(t)] \in Sockets
  BY <1>1, <1>2 DEF ListInv
<1>4. newFd[Item(t)] = Invalid
  BY <1>2, <1>3 DEF ResultInv
<1> QED
  BY <1>1, <1>2, <1>3, <1>4

(* One perform_io() of process_notifications() *)
LEMMA PerformKeepsInv ==
    ASSUME SocketInv, NEW t \in Threads, Perform(t)
    PROVE  SocketInv'
<1> USE DEF SocketInv
<1> DEFINE o == Item(t)
           n == report[t].fd
           f == table[n]
<1>1. /\ HasLock(t) /\ stuck = None /\ ToTry(t) # {} /\ f # None
      /\ lock' = t /\ UNCHANGED <<lingers, aborted, twice>>
  BY DEF Perform
<1>2. /\ ~twice /\ report[t] # NoReport /\ n \in Fds
      /\ o \in Ops /\ o \in ToSet(active[n])
      /\ result[o] = "none" /\ newFd[o] = Invalid /\ call[o] \in Calls
      /\ call[o] = "accept" => target[o] \in Sockets
      /\ (call[o] \in Reads) = report[t].in
  BY <1>1, PerformSetting
<1>3. f \in Files
  BY <1>1, <1>2 DEF SocketTypes
<1>4. PICK io \in PerformIo(o, f) :
        /\ sock' = [sock EXCEPT ![f] = io[2]]
        /\ \/ /\ io[1] = "again"
              /\ report' = [UsedUp(n) EXCEPT ![t].tried = @ \cup {o}]
              /\ UNCHANGED <<opVars, schedVars, stuck, fileVars, own>>
           \/ /\ io[1] = "blocks"
              /\ stuck' = f
              /\ UNCHANGED <<opVars, schedVars, report, fileVars, own>>
           \/ /\ io[1] \in {"done", "error"}
              /\ FinishItem(t, io[1])
              /\ report' = UsedUp(n)
              /\ UNCHANGED <<reg, stuck, newFd, fileVars, own>>
           \/ /\ io[1] = "accepted"
              /\ FinishItem(t, "accepted")
              /\ report' = UsedUp(n)
              /\ \E g \in Accepted : Open(g) /\ own' = [own EXCEPT ![o] = g]
              /\ newFd' = [newFd EXCEPT ![o] = NewFd]
              /\ UNCHANGED <<reg, stuck, live, fd, closing>>
  BY DEF Perform
<1>5. /\ io[2] \in [units : Nat, conn : Connection]
      /\ f \in Listeners => io[2].conn = sock[f].conn
      /\ io[1] = "accepted" => call[o] = "accept"
      /\ io[1] = "blocks" =>
           /\ f \in Accepted
           /\ call[o] \in Blocking
           /\ call[o] \in Reads => ~Readable(f)
           /\ io[2] = sock[f]
  <2>1. SocketTypes /\ ListenersQuiet
    OBVIOUS
  <2> HIDE DEF o, n, f, SocketInv
  <2> QED
    BY <1>2, <1>3, <2>1, PerformIoEnds
<1>6. /\ sock' \in [Files -> [units : Nat, conn : Connection]]
      /\ sock'[f] = io[2]
      /\ \A g \in Files : g # f => sock'[g] = sock[g]
  BY <1>3, <1>4, <1>5 DEF SocketTypes
<1>7. ListenersQuiet'
  BY <1>5, <1>6 DEF ListenersQuiet, Files
<1>8. \A m \in Fds : table[m] = f => m = n
  BY <1>1, <1>2 DEF TableInv
<1> HIDE DEF o, n, f
<1>9. CASE /\ io[1] = "again"
           /\ report' = [UsedUp(n) EXCEPT ![t].tried = @ \cup {o}]
           /\ UNCHANGED <<opVars, schedVars, stuck, fileVars, own>>
  <2>u. UNCHANGED <<fd, table, closing, call, target, newFd, active, result,
                    reg, stuck, own>>
    BY <1>9 DEF opVars, schedVars, fileVars
  <2>1. Aged(n) /\ report' \in [Threads -> Reports]
    BY <1>2, <1>9, UsedUpAges DEF n
  <2>2. SocketTypes'
    BY <1>1, <1>6, <2>u, <2>1 DEF SocketTypes
  <2>3. ListInv' /\ ResultInv' /\ TableInv'
    BY <2>u DEF ListInv, ResultInv, TableInv
  <2>4. OneHolder' <=> OneHolder
    BY <2>u DEF OneHolder, Number, HeldOnce
  <2>5. ReportInv'
    BY <1>2, <1>3, <1>6, <1>8, <2>u, <2>1, AgedReports
  <2>6. StuckInv'
    BY <1>1, <2>u DEF StuckInv
  <2> QED
    BY <1>1, <1>7, <2>2, <2>3, <2>4, <2>5, <2>6
<1>10. CASE /\ io[1] = "blocks"
            /\ stuck' = f
            /\ UNCHANGED <<opVars, schedVars, report, fileVars, own>>
  <2>u. UNCHANGED <<fd, table, closing, call, target, newFd, active, result,
                    reg, report, own>>
    BY <1>10 DEF opVars, schedVars, fileVars
  <2>1. sock' = sock
    BY <1>3, <1>4, <1>5, <1>10 DEF SocketTypes
  <2>2. SocketTypes'
    BY <1>1, <1>3, <1>10, <2>u, <2>1 DEF SocketTypes
  <2>3. ListInv' /\ ResultInv' /\ TableInv'
    BY <2>u DEF ListInv, ResultInv, TableInv
  <2>4. OneHolder' <=> OneHolder
    BY <2>u DEF OneHolder, Number, HeldOnce
  <2>5. ReportInv'
    BY <2>u, <2>1 DEF ReportInv, Readable
  <2>6. StuckInv'
    <3>1. /\ lock' = t /\ stuck' = f
          /\ ToTry(t)' = ToTry(t) /\ Item(t)' = Item(t)
      BY <1>1, <1>10, <2>u DEF ToTry, Item
    <3>2. call[o] \in Reads => report[t].age # "fresh"
      BY <1>2, <1>5, <1>10 DEF ReportInv, f, n
    <3>3. ToTry(lock)' = ToTry(t) /\ Item(lock)' = o
      BY <3>1 DEF ToTry, Item, o
    <3> QED
      BY <1>1, <1>2, <1>5, <1>8, <1>10, <2>u, <3>1, <3>2, <3>3
         DEF StuckInv, n
  <2> QED
    BY <1>1, <1>7, <2>2, <2>3, <2>4, <2>5, <2>6
<1>11. CASE /\ io[1] \in {"done", "error"}
            /\ FinishItem(t, io[1])
            /\ report' = UsedUp(n)
            /\ UNCHANGED <<reg, stuck, newFd, fileVars, own>>
  <2>u. UNCHANGED <<fd, table, closing, newFd, reg, stuck, own>>
    BY <1>11 DEF fileVars
  <2>1. Aged(n) /\ report' \in [Threads -> Reports]
    BY <1>2, <1>11, UsedUpAges
  <2>2. /\ active' \in [Fds -> Seq(Ops)]
        /\ result' \in [Ops -> Results]
        /\ call' \in [Ops -> Calls \cup {"none"}]
        /\ target' \in [Ops -> Sockets \cup {None}]
        /\ ListInv'
        /\ \A p \in Ops : p # o => /\ result'[p] = result[p]
                                   /\ target'[p] = target[p]
        /\ \A m \in Fds : active'[m] # <<>> => active[m] # <<>>
    <3>1. io[1] \in {"done", "error", "accepted"}
      BY <1>11
    <3>2. report[t].fd \in Fds
      BY <1>2 DEF n
    <3> HIDE DEF SocketInv
    <3> QED
      BY <1>1, <1>11, <3>1, <3>2, FinishItemEffects DEF o
  <2>3. result'[o] \in {"done", "error"}
    BY <1>2, <1>11, ItemResult DEF o
  <2>4. SocketTypes'
    BY <1>1, <1>6, <2>u, <2>1, <2>2 DEF SocketTypes
  <2>5. ResultInv'
    BY <1>2, <2>u, <2>2, <2>3 DEF ResultInv
  <2>6. TableInv'
    BY <2>u DEF TableInv
  <2>7. OneHolder' <=> OneHolder
    BY <2>u DEF OneHolder, Number, HeldOnce
  <2>8. ReportInv'
    BY <1>2, <1>3, <1>6, <1>8, <2>u, <2>1, <2>2, AgedReports,
       SMTT(40)
  <2>9. StuckInv'
    BY <1>1, <2>u DEF StuckInv
  <2> QED
    BY <1>1, <1>7, <2>2, <2>4, <2>5, <2>6, <2>7, <2>8, <2>9
<1>12. CASE /\ io[1] = "accepted"
            /\ FinishItem(t, "accepted")
            /\ report' = UsedUp(n)
            /\ \E g \in Accepted : Open(g) /\ own' = [own EXCEPT ![o] = g]
            /\ newFd' = [newFd EXCEPT ![o] = NewFd]
            /\ UNCHANGED <<reg, stuck, live, fd, closing>>
  <2>1. Aged(n) /\ report' \in [Threads -> Reports]
    BY <1>2, <1>12, UsedUpAges
  <2>2. /\ active' \in [Fds -> Seq(Ops)]
        /\ result' \in [Ops -> Results]
        /\ call' \in [Ops -> Calls \cup {"none"}]
        /\ target' \in [Ops -> Sockets \cup {None}]
        /\ ListInv'
        /\ \A p \in Ops : p # o => /\ result'[p] = result[p]
                                   /\ target'[p] = target[p]
        /\ \A m \in Fds : active'[m] # <<>> => active[m] # <<>>
    <3>1. "accepted" \in {"done", "error", "accepted"}
      OBVIOUS
    <3>2. report[t].fd \in Fds
      BY <1>2 DEF n
    <3> HIDE DEF SocketInv
    <3> QED
      BY <1>1, <1>12, <3>1, <3>2, FinishItemEffects DEF o
  <2>3. result'[o] = "accepted" /\ target'[o] \in Sockets
    BY <1>2, <1>5, <1>12, ItemResult DEF o
  <2>4. PICK g \in Accepted : Open(g) /\ own' = [own EXCEPT ![o] = g]
    BY <1>12
  <2>g. g \in Files
    BY DEF Files
  <2>5. /\ NewFd \in Fds /\ table[NewFd] = None
        /\ table' = [table EXCEPT ![NewFd] = g]
        /\ table' \in [Fds -> Files \cup {None}]
        /\ \A m \in Fds : table[m] # None => table'[m] = table[m]
        /\ TableInv'
    BY <1>12, <2>4, <2>g, OpenEffects
  <2>6. /\ newFd' \in [Ops -> Fds \cup {Invalid}]
        /\ newFd'[o] = NewFd /\ NewFd # Invalid
        /\ \A p \in Ops : p # o => newFd'[p] = newFd[p]
        /\ own' \in [Objects \cup Ops -> Files \cup {None}]
    BY <1>2, <1>12, <2>4, <2>g, <2>5, InvalidIsNoNumber DEF SocketTypes
  <2>7. SocketTypes'
    BY <1>1, <1>6, <1>12, <2>1, <2>2, <2>5, <2>6 DEF SocketTypes
  <2>8. ResultInv'
    BY <1>2, <2>2, <2>3, <2>6, ZenonT(60) DEF ResultInv
  <2>9. OneHolder'
    <3>1. Number' = [Number EXCEPT ![o] = NewFd]
      <4>1. o \notin Objects
        BY <1>2, SocketAssumption
      <4> QED
        BY <1>2, <1>12, <2>5, <4>1, ZenonT(60) DEF Number, SocketTypes
    <3>2. HeldOnce([Number EXCEPT ![o] = NewFd], [table EXCEPT ![NewFd] = g],
                   [own EXCEPT ![o] = g])
      <4>1. /\ Number \in [Objects \cup Ops -> Fds \cup {Invalid}]
            /\ Number[o] = Invalid
            /\ table \in [Fds -> Files \cup {None}]
            /\ own \in [Objects \cup Ops -> Files \cup {None}]
            /\ HeldOnce(Number, table, own)
            /\ o \in Objects \cup Ops
        BY <1>2, NumberIsTyped DEF SocketTypes, OneHolder
      <4> HIDE DEF SocketInv
      <4> QED
        BY <2>g, <2>5, <4>1, HolderGains
    <3> QED
      BY <2>4, <2>5, <3>1, <3>2 DEF OneHolder
  <2>10. ReportInv'
    BY <1>2, <1>3, <1>6, <1>8, <1>12, <2>1, <2>2, <2>5, AgedReports
  <2>11. StuckInv'
    BY <1>1, <1>12 DEF StuckInv
  <2> QED
    BY <1>7, <2>2, <2>5, <2>7, <2>8, <2>9, <2>10, <2>11
<1> QED
  BY <1>4, <1>9, <1>10, <1>11, <1>12

LEMMA PerformOnClosedKeepsInv ==
    ASSUME SocketInv, NEW t \in Threads, PerformOnClosed(t)
    PROVE  SocketInv'
<1> USE DEF SocketInv
<1> DEFINE o == Item(t)
<1>u. UNCHANGED <<fd, table, closing, sock, newFd, reg, report, stuck,
                  lingers, aborted, own, twice>>
  BY DEF PerformOnClosed, fileVars, history
<1>1. /\ HasLock(t) /\ stuck = None /\ ToTry(t) # {} /\ lock' = t
      /\ FinishItem(t, "done")
  BY DEF PerformOnClosed
<1>2. report[t].fd \in Fds /\ o \in Ops /\ result[o] = "none"
      /\ newFd[o] = Invalid
  BY <1>1, PerformSetting
<1>3. /\ active' \in [Fds -> Seq(Ops)]
      /\ result' \in [Ops -> Results]
      /\ call' \in [Ops -> Calls \cup {"none"}]
      /\ target' \in [Ops -> Sockets \cup {None}]
      /\ ListInv'
      /\ \A p \in Ops : p # o => /\ result'[p] = result[p]
                                 /\ target'[p] = target[p]
      /\ \A m \in Fds : active'[m] # <<>> => active[m] # <<>>
  <2>1. "done" \in {"done", "error", "accepted"}
    OBVIOUS
  <2> HIDE DEF SocketInv
  <2> QED
    BY <1>1, <1>2, <2>1, FinishItemEffects
<1>4. result'[o] = "done"
  BY <1>1, <1>2, ItemResult
<1> HIDE DEF o
<1>5. SocketTypes'
  BY <1>u, <1>1, <1>3 DEF SocketTypes
<1>6. ResultInv'
  BY <1>u, <1>2, <1>3, <1>4 DEF ResultInv
<1>7. ListenersQuiet' /\ TableInv'
  BY <1>u DEF ListenersQuiet, TableInv
<1>8. OneHolder' <=> OneHolder
  BY <1>u DEF OneHolder, Number, HeldOnce
<1>9. ReportInv'
  BY <1>u, <1>3 DEF ReportInv, Readable
<1>10. StuckInv'
  BY <1>u, <1>1 DEF StuckInv
<1> QED
  BY <1>u, <1>3, <1>5, <1>6, <1>7, <1>8, <1>9, <1>10

LEMMA UnblockKeepsInv ==
    ASSUME SocketInv, NEW t \in Threads, Unblock(t)
    PROVE  SocketInv'
<1> USE DEF SocketInv
<1> DEFINE o == Item(t)
           n == report[t].fd
           f == stuck
           open == \E m \in Fds : table[m] = stuck
<1>u. UNCHANGED <<fd, table, closing, newFd, reg, lock, aborted, own, twice>>
  BY DEF Unblock, fileVars, history
<1>1. /\ HasLock(t) /\ f # None /\ lock = t /\ stuck' = None
      /\ lingers' = Invalid
      /\ FinishItem(t, "done") /\ report' = UsedUp(n)
  BY DEF Unblock
<1>2. ToTry(t) # {} /\ f \in Files /\ \A m \in Fds : table[m] = f => m = n
  BY <1>1 DEF StuckInv, Files
<1>3. /\ n \in Fds /\ o \in Ops /\ result[o] = "none"
      /\ newFd[o] = Invalid /\ call[o] \in Calls
  BY <1>1, <1>2, PerformSetting
<1>4. PICK io \in PerformIo(o, f) :
        sock' = [sock EXCEPT ![f] = IF open THEN io[2] ELSE NewFile(f)]
  BY DEF Unblock
<1>5. /\ io[2] \in [units : Nat, conn : Connection]
      /\ f \in Listeners => io[2].conn = sock[f].conn
  <2>1. SocketTypes /\ ListenersQuiet
    OBVIOUS
  <2> HIDE DEF o, n, f, SocketInv
  <2> QED
    BY <1>2, <1>3, <2>1, PerformIoEnds
<1>6. /\ NewFile(f) \in [units : Nat, conn : Connection]
      /\ NewFile(f).conn \in {"up", "none"}
  BY DEF NewFile, Connection
<1>7. /\ active' \in [Fds -> Seq(Ops)]
      /\ result' \in [Ops -> Results]
      /\ call' \in [Ops -> Calls \cup {"none"}]
      /\ target' \in [Ops -> Sockets \cup {None}]
      /\ ListInv'
      /\ \A p \in Ops : p # o => /\ result'[p] = result[p]
                                 /\ target'[p] = target[p]
      /\ \A m \in Fds : active'[m] # <<>> => active[m] # <<>>
  <2>1. "done" \in {"done", "error", "accepted"}
    OBVIOUS
  <2> HIDE DEF SocketInv
  <2> QED
    BY <1>1, <1>2, <1>3, <2>1, FinishItemEffects
<1>8. result'[o] = "done"
  BY <1>1, <1>3, ItemResult
<1> HIDE DEF o, n, f, open
<1>9. /\ sock' \in [Files -> [units : Nat, conn : Connection]]
      /\ sock'[f] \in {io[2], NewFile(f)}
      /\ \A g \in Files : g # f => sock'[g] = sock[g]
  BY <1>2, <1>4, <1>5, <1>6 DEF SocketTypes
<1>10. ListenersQuiet'
  BY <1>2, <1>5, <1>6, <1>9 DEF ListenersQuiet, Files
<1>11. Aged(n) /\ report' \in [Threads -> Reports]
  BY <1>1, <1>3, UsedUpAges
<1>12. SocketTypes'
  BY <1>u, <1>1, <1>7, <1>9, <1>11 DEF SocketTypes
<1>13. ResultInv'
  BY <1>u, <1>3, <1>7, <1>8 DEF ResultInv
<1>14. TableInv'
  BY <1>u DEF TableInv
<1>15. OneHolder' <=> OneHolder
  BY <1>u DEF OneHolder, Number, HeldOnce
<1>16. ReportInv'
  BY <1>u, <1>2, <1>3, <1>7, <1>9, <1>11, AgedReports
<1>17. StuckInv'
  BY <1>1 DEF StuckInv
<1> QED
  BY <1>u, <1>7, <1>10, <1>12, <1>13, <1>14, <1>15, <1>16, <1>17

LEMMA EndEventKeepsInv ==
    ASSUME SocketInv, NEW t \in Threads, EndEvent(t)
    PROVE  SocketInv'
<1> USE DEF SocketInv
<1> DEFINE n == report[t].fd
<1>u. UNCHANGED <<fd, table, closing, sock, call, target, newFd, active,
                  result, stuck, lingers, own, twice>>
  BY DEF EndEvent, fileVars, opVars, history
<1>1. /\ stuck = None /\ lock' = None
      /\ reg' = IF active[n] # <<>> THEN reg ELSE reg \ {n}
      /\ report' = [report EXCEPT ![t] = NoReport]
  BY DEF EndEvent
<1> HIDE DEF n
<1>2. /\ report' \in [Threads -> Reports] /\ report'[t] = NoReport
      /\ \A u \in Threads : u # t => report'[u] = report[u]
  BY <1>1, ReportIsTyped DEF SocketTypes
<1>3. reg' \subseteq reg /\ \A m \in Fds : active[m] # <<>> /\ m \in reg
                                             => m \in reg'
  BY <1>1
<1>4. SocketTypes'
  BY <1>u, <1>1, <1>2, <1>3 DEF SocketTypes
<1>5. ListInv' /\ ResultInv' /\ ListenersQuiet'
  BY <1>u DEF ListInv, ResultInv, ListenersQuiet
<1>6. TableInv'
  BY <1>u, <1>3 DEF TableInv
<1>7. OneHolder' <=> OneHolder
  BY <1>u DEF OneHolder, Number, HeldOnce
<1>8. ReportInv'
  <2> SUFFICES ASSUME NEW u \in Threads, report'[u] # NoReport
               PROVE  /\ report'[u].fd \in Fds
                      /\ report'[u].age # "closed" =>
                           /\ table'[report'[u].fd] # None
                           /\ active'[report'[u].fd] # <<>> =>
                                report'[u].fd \in reg'
                      /\ report'[u].age = "fresh" =>
                           IF report'[u].in
                           THEN Readable(table[report[u].fd])'
                           ELSE sock'[table'[report'[u].fd]].conn
                                  # "connecting"
    BY DEF ReportInv
  <2>1. report'[u] = report[u]
    BY <1>2
  <2> QED
    BY <1>u, <1>3, <2>1 DEF ReportInv, Readable
<1>9. StuckInv'
  BY <1>u, <1>1 DEF StuckInv
<1> QED
  BY <1>u, <1>4, <1>5, <1>6, <1>7, <1>8, <1>9

(* The other ends: more can be read, and a connection is no longer under
   way. *)
LEMMA PeerKeepsInv ==
    ASSUME SocketInv, NEW f \in Files, PeerActs(f) \/ Handshake(f)
    PROVE  SocketInv'
<1> USE DEF SocketInv
<1>u. UNCHANGED <<fd, table, closing, call, target, newFd, active, result,
                  reg, report, lock, stuck, lingers, aborted, own, twice>>
  BY DEF PeerActs, Handshake, fileVars, opVars, schedVars, pollVars, history
<1>1. \/ sock' = [sock EXCEPT ![f].units = @ + 1]
      \/ /\ sock[f].conn = "connecting"
         /\ \E c \in {"established", "refused"} :
              sock' = [sock EXCEPT ![f].conn = c]
  BY DEF PeerActs, Handshake
<1>2. /\ sock' \in [Files -> [units : Nat, conn : Connection]]
      /\ \A g \in Files : g # f => sock'[g] = sock[g]
      /\ sock'[f].units >= sock[f].units
      /\ \/ sock'[f].conn = sock[f].conn
         \/ /\ sock[f].conn = "connecting"
            /\ sock'[f].conn \in {"established", "refused"}
  <2>1. sock \in [Files -> [units : Nat, conn : Connection]]
    BY DEF SocketTypes
  <2>2. sock[f].units \in Nat
    BY <2>1
  <2>3. CASE sock' = [sock EXCEPT ![f].units = @ + 1]
    <3>1. sock[f].units + 1 \in Nat /\ sock[f].units + 1 >= sock[f].units
      BY <2>2
    <3> QED
      BY <2>1, <2>3, <3>1
  <2>4. CASE /\ sock[f].conn = "connecting"
             /\ \E c \in {"established", "refused"} :
                  sock' = [sock EXCEPT ![f].conn = c]
    <3>1. sock[f].units >= sock[f].units
      BY <2>2
    <3> QED
      BY <2>1, <2>4, <3>1 DEF Connection
  <2> QED
    BY <1>1, <2>3, <2>4
<1>3. SocketTypes'
  BY <1>u, <1>2 DEF SocketTypes
<1>4. ListInv' /\ ResultInv' /\ TableInv'
  BY <1>u DEF ListInv, ResultInv, TableInv
<1>5. ListenersQuiet'
  BY <1>2 DEF ListenersQuiet, Files
<1>6. OneHolder' <=> OneHolder
  BY <1>u DEF OneHolder, Number, HeldOnce
<1>7. \A g \in Files : /\ Readable(g) => Readable(g)'
                       /\ sock[g].conn # "connecting" =>
                            sock'[g].conn # "connecting"
  <2> TAKE g \in Files
  <2>1. sock[g].units \in Nat /\ sock'[g].units \in Nat
    BY <1>2 DEF SocketTypes
  <2> QED
    BY <1>2, <2>1 DEF Readable
<1>8. ReportInv'
  <2> SUFFICES ASSUME NEW u \in Threads, report[u] # NoReport
               PROVE  /\ report[u].fd \in Fds
                      /\ report[u].age # "closed" =>
                           /\ table[report[u].fd] # None
                           /\ active[report[u].fd] # <<>> =>
                                report[u].fd \in reg
                      /\ report[u].age = "fresh" =>
                           IF report[u].in
                           THEN Readable(table[report[u].fd])'
                           ELSE sock'[table[report[u].fd]].conn
                                  # "connecting"
    BY <1>u DEF ReportInv
  <2> DEFINE g == table[report[u].fd]
  <2>1. report[u].age # "closed" => g \in Files
    BY DEF ReportInv, SocketTypes
  <2>2. report[u].age = "fresh" /\ report[u].in => Readable(g)'
    <3>1. report[u].age = "fresh" /\ report[u].in => g \in Files /\ Readable(g)
      BY <2>1 DEF ReportInv
    <3>2. g' = g
      BY <1>u
    <3> QED
      BY <1>7, <3>1, <3>2 DEF Readable
  <2>3. report[u].age = "fresh" /\ ~report[u].in =>
          sock'[g].conn # "connecting"
    BY <1>7, <2>1 DEF ReportInv
  <2> QED
    BY <2>2, <2>3 DEF ReportInv
<1>9. StuckInv'
  BY <1>u, StuckFrame
<1> QED
  BY <1>u, <1>3, <1>4, <1>5, <1>6, <1>8, <1>9

----------------------------------------------------------------------------
LEMMA InitEstablishes == Init => SocketInv
<1> SUFFICES ASSUME Init
             PROVE  SocketInv
  OBVIOUS
<1>1. \A f \in Files : /\ NewFile(f) \in [units : Nat, conn : Connection]
                       /\ NewFile(f).conn \in {"up", "none"}
  BY DEF NewFile, Connection
<1>2. NoReport \in Reports
  BY DEF NoReport, Reports, Ages
<1>3. <<>> \in Seq(Ops) /\ ToSet(<<>>) = {} /\ IsInjective(<<>>)
  BY DEF ToSet, IsInjective
<1>4. SocketTypes
  BY <1>1, <1>2, <1>3 DEF Init, SocketTypes, Results
<1>5. ListInv
  BY <1>3 DEF Init, ListInv
<1>6. ResultInv /\ TableInv /\ StuckInv
  BY DEF Init, ResultInv, TableInv, StuckInv
<1>7. ListenersQuiet
  BY <1>1 DEF Init, ListenersQuiet, Files
<1>8. OneHolder
  BY DEF Init, OneHolder, HeldOnce, Number
<1>9. ReportInv
  BY DEF Init, ReportInv
<1> QED
  BY <1>4, <1>5, <1>6, <1>7, <1>8, <1>9 DEF SocketInv

LEMMA StutterKeepsInv ==
    ASSUME SocketInv, UNCHANGED vars
    PROVE  SocketInv'
<1> USE DEF SocketInv
<1>u. UNCHANGED <<fd, table, closing, sock, call, target, newFd, active,
                  result, reg, report, lock, stuck, lingers, aborted, own,
                  twice>>
  BY DEF vars, fileVars, opVars, schedVars, pollVars, history
<1>1. SocketTypes' /\ ListInv' /\ ResultInv' /\ ListenersQuiet' /\ TableInv'
  BY <1>u DEF SocketTypes, ListInv, ResultInv, ListenersQuiet, TableInv
<1>2. OneHolder' <=> OneHolder
  BY <1>u DEF OneHolder, Number, HeldOnce
<1>3. ReportInv'
  BY <1>u DEF ReportInv, Readable
<1>4. StuckInv'
  BY <1>u, StuckFrame
<1> QED
  BY <1>u, <1>1, <1>2, <1>3, <1>4

LEMMA NextKeepsInv ==
    ASSUME SocketInv, Next
    PROVE  SocketInv'
<1>1. ASSUME NEW t \in Threads, PollStep(t)
      PROVE  SocketInv'
  BY <1>1, PollKeepsInv, PerformKeepsInv, PerformOnClosedKeepsInv,
     UnblockKeepsInv, EndEventKeepsInv DEF PollStep
<1>2. ASSUME NEW t \in Threads, CloseAgain(t)
      PROVE  SocketInv'
  BY <1>2, CloseAgainKeepsInv
<1>3. ASSUME NEW t \in Threads, NEW x \in Objects,
             \/ ConstructStream(t, x) \/ ConstructDatagram(t, x)
             \/ ConstructAcceptor(t, x)
      PROVE  SocketInv'
  <2>1. SocketFiles \in SUBSET Files /\ Listeners \in SUBSET Files
    BY DEF Files
  <2> QED
    BY <1>3, <2>1, MakeKeepsInv
       DEF ConstructStream, ConstructDatagram, ConstructAcceptor
<1>4. ASSUME NEW t \in Threads, NEW x \in Objects,
             Destroy(t, x) \/ close(t, x) \/ cancel(t, x)
      PROVE  SocketInv'
  BY <1>4, DestroyKeepsInv, CancelKeepsInv
<1>5. ASSUME NEW t \in Threads, NEW x \in Sockets, NEW y \in Sockets,
             MoveAssign(t, x, y)
      PROVE  SocketInv'
  BY <1>5, MoveAssignKeepsInv
<1>6. ASSUME NEW t \in Threads, NEW o \in Ops,
             \/ UseStream(t, o) \/ UseDatagram(t, o) \/ accept(t, o)
             \/ Dispatch(t, o) \/ DispatchAccept(t, o)
      PROVE  SocketInv'
  BY <1>6, UseSocketKeepsInv, AcceptKeepsInv, DispatchKeepsInv,
     DispatchAcceptKeepsInv
<1>7. ASSUME NEW f \in Files, PeerActs(f) \/ Handshake(f)
      PROVE  SocketInv'
  BY <1>7, PeerKeepsInv
<1> QED
  BY <1>1, <1>2, <1>3, <1>4, <1>5, <1>6, <1>7 DEF Next

(***************************************************************************)
(* The inductive invariant of sockets, descriptor numbers and the reports  *)
(* that threads hold of them is true in every reachable state.             *)
(***************************************************************************)
THEOREM SocketInvariant == Spec => []SocketInv
<1>1. Init => SocketInv
  BY InitEstablishes
<1>2. SocketInv /\ [Next]_vars => SocketInv'
  BY NextKeepsInv, StutterKeepsInv
<1> QED
  BY <1>1, <1>2, PTL DEF Spec

(***************************************************************************)
(* The variables of sockets and descriptors keep their types, no receive   *)
(* queue goes below zero, and a call that does not return always has the   *)
(* scheduler's lock.                                                       *)
(***************************************************************************)
THEOREM SocketTypeCorrect == Spec => []TypeOK
<1>1. SocketInv => TypeOK
  <2> SUFFICES ASSUME SocketInv
               PROVE  TypeOK
    OBVIOUS
  <2>1. stuck # None => lock # None
    BY SocketAssumption DEF SocketInv, StuckInv
  <2> QED
    BY <2>1 DEF SocketInv, SocketTypes, TypeOK
<1> QED
  BY <1>1, SocketInvariant, PTL

(***************************************************************************)
(* Constructors, moves, destructors, close() and accepts neither leak nor  *)
(* share a descriptor, whatever numbers the kernel reuses and whichever    *)
(* thread is where, until a second close() hits somebody else's file.      *)
(***************************************************************************)
THEOREM NoDescriptorLeaks == Spec => []DescriptorsAccounted
<1>1. SocketInv => DescriptorsAccounted
  <2> SUFFICES ASSUME SocketInv, ~twice
               PROVE  /\ \A x \in Objects :
                           fd[x] # Invalid => table[fd[x]] = own[x]
                      /\ \A n \in Fds : table[n] # None =>
                           Cardinality({x \in Objects : fd[x] = n})
                             + Cardinality({o \in Ops : newFd[o] = n}) = 1
    BY DEF DescriptorsAccounted
  <2>1. /\ HeldOnce(Number, table, own)
        /\ \A x \in Objects : Number[x] = fd[x]
        /\ \A o \in Ops : Number[o] = newFd[o]
        /\ \A o \in Ops : o \notin Objects
    BY NumberIsTyped, SocketAssumption DEF SocketInv, OneHolder
  <2>2. \A x \in Objects : fd[x] # Invalid => table[fd[x]] = own[x]
    BY <2>1 DEF HeldOnce
  <2>3. ASSUME NEW n \in Fds, table[n] # None
        PROVE  Cardinality({x \in Objects : fd[x] = n})
                 + Cardinality({o \in Ops : newFd[o] = n}) = 1
    <3> DEFINE X == {x \in Objects : fd[x] = n}
               O == {o \in Ops : newFd[o] = n}
    <3>1. PICK y \in Objects \cup Ops : Number[y] = n
      BY <2>1, <2>3 DEF HeldOnce
    <3>2. \A z \in Objects \cup Ops : Number[z] = n => z = y
      BY <2>1, <3>1, InvalidIsNoNumber DEF HeldOnce
    <3>3. \/ X = {y} /\ O = {}
          \/ X = {} /\ O = {y}
      BY <2>1, <3>1, <3>2
    <3>4. Cardinality({}) = 0 /\ Cardinality({y}) = 1
      BY FS_EmptySet, FS_Singleton
    <3> HIDE DEF X, O
    <3>5. Cardinality(X) + Cardinality(O) = 1
      BY <3>3, <3>4
    <3> QED
      BY <3>5 DEF X, O
  <2> QED
    BY <2>2, <2>3
<1> QED
  BY <1>1, SocketInvariant, PTL

(***************************************************************************)
(* The loop can be blocked in a read only on an accepted socket, without   *)
(* MSG_DONTWAIT, and with a report older than another operation's reading  *)
(* of the data, or whose descriptor was closed.                            *)
(***************************************************************************)
THEOREM ReadsBlockOnlyWhenUsedUp == Spec => []BlocksOnlyWhenUsedUp
<1>1. SocketInv => BlocksOnlyWhenUsedUp
  BY DEF SocketInv, StuckInv, BlocksOnlyWhenUsedUp, Blocking
<1> QED
  BY <1>1, SocketInvariant, PTL

(***************************************************************************)
(* epoll_ctl() fails the assertion of process_notifications() only for a   *)
(* descriptor that was closed after the thread's report was made or while  *)
(* a blocked call kept its file, and the assertion of schedule() only for  *)
(* an operation on an object that has no descriptor.                       *)
(***************************************************************************)
THEOREM OnlyClosingAborts == Spec => AbortsOnlyWhenClosed
<1>1. ASSUME SocketInv, [Next]_vars, aborted', ~aborted
      PROVE  \/ \E t \in Threads : /\ report[t].age = "closed"
                                   /\ report'[t] = NoReport
             \/ \E t \in Threads, o \in Ops, x \in Objects, what \in Calls :
                  fd[x] = Invalid /\ Submit(t, o, x, what)
  <2>1. ASSUME NEW t \in Threads, EndEvent(t)
        PROVE  report[t].age = "closed" /\ report'[t] = NoReport
    <3> DEFINE n == report[t].fd
    <3>1. /\ report[t] # NoReport
          /\ aborted' = (table[n] = None \/ (active[n] # <<>> /\ n \notin reg))
          /\ report' = [report EXCEPT ![t] = NoReport]
      BY <2>1 DEF EndEvent, HasLock
    <3>2. report'[t] = NoReport
      BY <1>1, <3>1 DEF SocketInv, SocketTypes
    <3> QED
      BY <1>1, <3>1, <3>2 DEF SocketInv, ReportInv
  <2>2. ASSUME NEW t \in Threads, NEW o \in Ops,
               UseStream(t, o) \/ UseDatagram(t, o) \/ accept(t, o)
        PROVE  \E x \in Objects, what \in Calls :
                 fd[x] = Invalid /\ Submit(t, o, x, what)
    BY <1>1, <2>2, UseSocketKeepsInv, AcceptKeepsInv
  <2>3. ASSUME NEW t \in Threads,
               Poll(t) \/ Perform(t) \/ PerformOnClosed(t) \/ Unblock(t)
        PROVE  UNCHANGED aborted
    BY <2>3 DEF Poll, Perform, PerformOnClosed, Unblock
  <2>4. ASSUME NEW t \in Threads, NEW x \in Objects,
               \/ ConstructStream(t, x) \/ ConstructDatagram(t, x)
               \/ ConstructAcceptor(t, x) \/ Destroy(t, x) \/ close(t, x)
               \/ cancel(t, x)
        PROVE  UNCHANGED aborted
    BY <2>4 DEF ConstructStream, ConstructDatagram, ConstructAcceptor, Make,
                Destroy, close, cancel, CloseFd
  <2>5. ASSUME NEW t \in Threads,
               \/ CloseAgain(t)
               \/ \E x, y \in Sockets : MoveAssign(t, x, y)
               \/ \E o \in Ops : Dispatch(t, o) \/ DispatchAccept(t, o)
        PROVE  UNCHANGED aborted
    BY <2>5 DEF CloseAgain, MoveAssign, Dispatch, DispatchAccept,
                MoveDescriptor, CloseFd
  <2>6. ASSUME NEW f \in Files, PeerActs(f) \/ Handshake(f)
        PROVE  UNCHANGED aborted
    BY <2>6 DEF PeerActs, Handshake
  <2>7. UNCHANGED vars => UNCHANGED aborted
    BY DEF vars
  <2>8. CASE Next
    BY <1>1, <2>1, <2>2, <2>3, <2>4, <2>5, <2>6, <2>8 DEF Next, PollStep
  <2> QED
    BY <1>1, <2>7, <2>8
<1>2. SocketInv /\ [Next]_vars => [AbortStep]_vars
  BY <1>1 DEF AbortStep
<1> QED
  BY <1>2, SocketInvariant, PTL DEF Spec, AbortsOnlyWhenClosed

(***************************************************************************)
(* NetConnect::io() and UnixConnect::io(): whoever is told that a connect  *)
(* succeeded has a connection, and whoever is told that it failed has none *)
(* under way, unless an old report made the scheduler try again.           *)
(***************************************************************************)
THEOREM ConnectIsTruthful == Spec => ConnectResultIsTrue
<1>1. ASSUME SocketInv, NEW t \in Threads, Perform(t)
      PROVE  ConnectStep
  <2> DEFINE n == report[t].fd
             f == table[n]
  <2>1. /\ HasLock(t) /\ ToTry(t) # {} /\ f # None /\ lock' = t
    BY <1>1 DEF Perform
  <2>2. /\ report[t] # NoReport /\ n \in Fds
        /\ Item(t) \in Ops /\ call[Item(t)] \in Calls
        /\ (call[Item(t)] \in Reads) = report[t].in
    BY <1>1, <2>1, PerformSetting
  <2>3. PICK io \in PerformIo(Item(t), f) :
          /\ sock' = [sock EXCEPT ![f] = io[2]]
          /\ \/ UNCHANGED active
             \/ io[1] \in {"done", "error", "accepted"}
                /\ FinishItem(t, io[1])
    BY <1>1 DEF Perform, schedVars
  <2>4. CASE UNCHANGED active
    BY <2>4 DEF ConnectStep
  <2>5. CASE io[1] \in {"done", "error", "accepted"} /\ FinishItem(t, io[1])
    <3> SUFFICES ASSUME NEW m \in Fds,
                        NEW o \in ToSet(active[m]) \ ToSet(active'[m]),
                        call[o] = "connect", table[m] \in SocketFiles
                 PROVE  /\ result'[o] = "done" =>
                             sock'[table[m]].conn \in {"up", "datagram"}
                        /\ result'[o] = "error"
                             /\ sock'[table[m]].conn = "connecting" =>
                               report[t].age # "fresh"
      BY <2>1 DEF ConnectStep
    <3>1. o = Item(t) /\ m = n
      BY <1>1, <2>1, <2>2, <2>5, FinishItemEffects
    <3>2. result'[o] = io[1]
      BY <1>1, <2>2, <2>5, <3>1, ItemResult
    <3>3. f \in Files /\ f \notin Listeners
      BY <3>1, SocketAssumption DEF Files
    <3>4. /\ io[1] = "done" => io[2].conn \in {"up", "datagram"}
          /\ io[1] = "error" /\ io[2].conn = "connecting" =>
               sock[f].conn = "connecting"
      <4>1. SocketTypes /\ ListenersQuiet /\ call[Item(t)] = "connect"
        BY <1>1, <3>1 DEF SocketInv
      <4> HIDE DEF n, f
      <4> QED
        BY <2>2, <2>3, <3>3, <4>1, PerformIoEnds
    <3>5. sock'[f] = io[2]
      BY <1>1, <2>3, <3>3 DEF SocketInv, SocketTypes
    <3>6. ~report[t].in
      BY <2>2, <3>1 DEF Reads
    <3>7. report[t].age = "fresh" => sock[f].conn # "connecting"
      BY <1>1, <2>2, <3>6 DEF SocketInv, ReportInv
    <3> QED
      BY <3>1, <3>2, <3>4, <3>5, <3>7
  <2> QED
    BY <2>3, <2>4, <2>5
<1>2. ASSUME SocketInv, NEW t \in Threads, PerformOnClosed(t)
      PROVE  ConnectStep
  <2>1. /\ HasLock(t) /\ ToTry(t) # {} /\ table[report[t].fd] = None
        /\ FinishItem(t, "done")
    BY <1>2 DEF PerformOnClosed
  <2>2. report[t].fd \in Fds
    BY <1>2, <2>1, PerformSetting
  <2>3. \A m \in Fds : \A o \in ToSet(active[m]) \ ToSet(active'[m]) :
          m = report[t].fd
    <3>1. "done" \in {"done", "error", "accepted"}
      OBVIOUS
    <3> QED
      BY <1>2, <2>1, <2>2, <3>1, FinishItemEffects
  <2>4. None \notin SocketFiles
    BY SocketAssumption DEF Files
  <2> QED
    BY <2>1, <2>3, <2>4 DEF ConnectStep
<1>3. ASSUME SocketInv, NEW t \in Threads, Unblock(t)
      PROVE  ConnectStep
  <2>1. HasLock(t) /\ stuck # None /\ lock = t /\ FinishItem(t, "done")
    BY <1>3 DEF Unblock
  <2>2. ToTry(t) # {} /\ call[Item(t)] \in Blocking
    BY <1>3, <2>1 DEF SocketInv, StuckInv
  <2>3. report[t].fd \in Fds
    BY <1>3, <2>1, <2>2, PerformSetting
  <2>4. \A m \in Fds : \A o \in ToSet(active[m]) \ ToSet(active'[m]) :
          o = Item(t)
    <3>1. "done" \in {"done", "error", "accepted"}
      OBVIOUS
    <3> QED
      BY <1>3, <2>1, <2>2, <2>3, <3>1, FinishItemEffects
  <2> QED
    BY <2>2, <2>4 DEF ConnectStep, Blocking
<1>4. ASSUME lock' = None
      PROVE  ConnectStep
  BY <1>4 DEF ConnectStep
<1>5. ASSUME \A n \in Fds : ToSet(active[n]) \subseteq ToSet(active'[n])
      PROVE  ConnectStep
  BY <1>5 DEF ConnectStep
<1>6. ASSUME SocketInv, NEW t \in Threads, NEW o \in Ops,
             UseStream(t, o) \/ UseDatagram(t, o) \/ accept(t, o)
      PROVE  ConnectStep
  <2>1. PICK x \in Objects : \/ active' = active
                            \/ active' = [active EXCEPT ![fd[x]]
                                             = Append(@, o)]
    BY <1>6 DEF UseStream, UseDatagram, UseSocket, accept, Submit, Objects,
                schedVars
  <2>2. active \in [Fds -> Seq(Ops)]
    BY <1>6 DEF SocketInv, SocketTypes
  <2>3. ASSUME NEW n \in Fds
        PROVE  ToSet(active[n]) \subseteq ToSet(active'[n])
    <3>1. ToSet(Append(active[n], o)) = ToSet(active[n]) \cup {o}
      BY <2>2, AppendSet
    <3> QED
      BY <2>1, <2>2, <3>1
  <2> QED
    BY <1>5, <2>3
<1>7. ASSUME UNCHANGED active
      PROVE  ConnectStep
  BY <1>7 DEF ConnectStep
<1>8. ASSUME NEW t \in Threads, EndEvent(t) \/ \E x \in Objects : cancel(t, x)
      PROVE  ConnectStep
  BY <1>4, <1>8 DEF EndEvent, cancel, pollVars
<1>9. ASSUME NEW t \in Threads,
             \/ Poll(t) \/ CloseAgain(t)
             \/ \E x \in Objects : \/ ConstructStream(t, x)
                                   \/ ConstructDatagram(t, x)
                                   \/ ConstructAcceptor(t, x)
                                   \/ Destroy(t, x) \/ close(t, x)
             \/ \E x, y \in Sockets : MoveAssign(t, x, y)
             \/ \E o \in Ops : Dispatch(t, o) \/ DispatchAccept(t, o)
      PROVE  ConnectStep
  <2>1. ASSUME Poll(t) \/ CloseAgain(t)
        PROVE  UNCHANGED active
    BY <2>1 DEF Poll, CloseAgain, schedVars
  <2>2. ASSUME NEW x \in Objects,
               \/ ConstructStream(t, x) \/ ConstructDatagram(t, x)
               \/ ConstructAcceptor(t, x) \/ Destroy(t, x) \/ close(t, x)
        PROVE  UNCHANGED active
    BY <2>2 DEF ConstructStream, ConstructDatagram, ConstructAcceptor, Make,
                Destroy, close, schedVars
  <2>3. ASSUME \/ \E x, y \in Sockets : MoveAssign(t, x, y)
               \/ \E o \in Ops : Dispatch(t, o) \/ DispatchAccept(t, o)
        PROVE  UNCHANGED active
    BY <2>3 DEF MoveAssign, Dispatch, DispatchAccept
  <2> QED
    BY <1>7, <1>9, <2>1, <2>2, <2>3
<1>10. ASSUME NEW f \in Files, PeerActs(f) \/ Handshake(f)
       PROVE  ConnectStep
  BY <1>7, <1>10 DEF PeerActs, Handshake, schedVars
<1>11. SocketInv /\ Next => ConnectStep
  BY <1>1, <1>2, <1>3, <1>6, <1>8, <1>9, <1>10 DEF Next, PollStep
<1>12. SocketInv /\ [Next]_vars => [ConnectStep]_vars
  BY <1>11
<1> QED
  BY <1>12, SocketInvariant, PTL DEF Spec, ConnectResultIsTrue
============================================================================
