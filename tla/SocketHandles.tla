--------------------------- MODULE SocketHandles ----------------------------
(***************************************************************************)
(* The descriptors behind TcpListener, TcpStream and UdpSocket objects:    *)
(* newSocket and newBoundSocket, the three factories and accept, BaseSocket*)
(* moves and destruction, releaseHandle, and the process-wide socket       *)
(* startup.  Several threads run them at once; each system call is a step, *)
(* because the kernel reuses a closed descriptor number at once, for any   *)
(* thread.  An object is used by one thread at a time (the classes have no *)
(* locks); descriptors are shared by the whole process.                    *)
(***************************************************************************)
EXTENDS Errors

CONSTANTS
  Platform,        \* "unix" or "win32": which of the two builds
  Fds,             \* descriptor numbers of the process
  Threads,
  Listeners,       \* storage for TcpListener objects
  Streams,         \* storage for TcpStream objects
  Udps,            \* storage for UdpSocket objects
  App,             \* the application, as holder of released descriptors
  InvalidSockFd,   \* -1
  None,            \* "no object"
  CallErrnos,      \* errno values of a failing system call
  CloseErrnos,     \* errno values a close() may leave, also when it closes
  StartupOutcomes  \* "ok", and on win32 also "failed"

\* errno of a call on a descriptor that is InvalidSockFd
BadFd == IF Platform = "win32" THEN "ENOTSOCK" ELSE "EBADF"

Objs == Listeners \cup Streams \cup Udps

ASSUME HandlesAssumption ==
  /\ InvalidSockFd \notin Fds
  /\ None \notin Objs
  /\ App \notin Objs \cup Threads
  /\ Objs \cap Threads = {}
  /\ Listeners \cap Streams = {}
  /\ Listeners \cap Udps = {}
  /\ Streams \cap Udps = {}
  /\ Platform \in {"unix", "win32"}
  /\ StartupOutcomes \subseteq {"ok", "failed"}
  /\ Platform = "unix" => StartupOutcomes = {"ok"}
  /\ CallErrnos \cup CloseErrnos \subseteq STRING \ {BadFd, NoOs, "late"}

VARIABLES
  startup,   \* static _SocketStartup: "unset", "running", then its outcome
  error,     \* _SocketStartup::error
  open,      \* kernel: the open descriptors of the process
  isV6,      \* kernel: whether an open descriptor is an AF_INET6 socket
  alive,     \* the objects that are constructed and not yet destroyed
  m_fd,      \* BaseSocket::m_fd (InvalidSockFd in storage without an object)
  ipv6,      \* UdpSocket::ipv6
  released,  \* descriptors releaseHandle() handed to the application
  pc,        \* per thread: the system call it makes next, "idle" outside
  sock,      \* per thread: the descriptor held by a local of a factory
  self,      \* per thread: the object being made or assigned to
  other,     \* per thread: the object moved from, or accepted on
  errno,     \* per thread: errno while its factory fails (NoOs: not to be read)
  cause,     \* per thread, history: errno of the call that made its last factory
             \* fail, or Late: that factory read errno behind a close()
  ret        \* per thread: result of its last factory call

kernel  == <<open, isV6>>
objects == <<alive, m_fd, ipv6>>
local   == <<sock, self, other>>
errors  == <<errno, cause, ret>>
process == <<startup, error>>
vars    == <<process, kernel, objects, released, pc, local, errors>>

Errnos   == CallErrnos \cup CloseErrnos \cup {BadFd, NoOs}
OsErrors == {lastOsError(Platform, e) : e \in Errnos}

\* The setup calls of the factories, and the other places a thread can be in.
SetupCalls == {"v6only", "bind", "listen", "connect"}
Making     == SetupCalls \cup {"close", "construct"}
PCs        == Making \cup {"idle", "startup", "accept", "assign"}

Late == "late"

SameClass(o, p) == \E C \in {Listeners, Streams, Udps} : o \in C /\ p \in C

\* An object no other thread is making, assigning, moving or accepting on.
Unused(o) == \A t \in Threads : self[t] # o /\ other[t] # o

-----------------------------------------------------------------------------
Init ==
  /\ startup = "unset" /\ error = Error("Success")
  /\ open = {}
  /\ isV6 = [fd \in Fds |-> FALSE]
  /\ alive = {}
  /\ m_fd = [o \in Objs |-> InvalidSockFd]
  /\ ipv6 = [u \in Udps |-> FALSE]
  /\ released = {}
  /\ pc = [t \in Threads |-> "idle"]
  /\ sock = [t \in Threads |-> InvalidSockFd]
  /\ self = [t \in Threads |-> None]
  /\ other = [t \in Threads |-> None]
  /\ errno = [t \in Threads |-> NoOs]
  /\ cause = [t \in Threads |-> NoOs]
  /\ ret = [t \in Threads |-> Ok]

\* close(2) / closesocket(): the number is free again, whatever it returns.
CloseFd(fd) ==
  /\ open' = open \ {fd}
  /\ isV6' = [isV6 EXCEPT ![fd] = FALSE]

\* errno of thread t after a close: nobody promises that it is left alone.
ErrnoAfterClose(t) == {errno[t]} \cup CloseErrnos

\* The closing part of the destructor and of move assignment.
\* (mutant: the old descriptor is dropped without a close)
CloseHeldNot(o) == UNCHANGED kernel
CloseHeld(o) == IF m_fd[o] # InvalidSockFd THEN CloseFd(m_fd[o]) ELSE UNCHANGED kernel

\* m_fd of all objects after src was moved into dst.
\* (mutant: the source keeps its descriptor)
MovedCopy(dst, src) == [m_fd EXCEPT ![dst] = m_fd[src]]
Moved(dst, src) == [m_fd EXCEPT ![dst] = m_fd[src], ![src] = InvalidSockFd]

\* UdpSocket's own member, moved by the defaulted operations.
\* (mutant: a move that forgets it)
FlagMovedNot(dst, src) == ipv6
FlagMoved(dst, src) == [u \in Udps |-> IF u = dst THEN ipv6[src] ELSE ipv6[u]]

\* socket(2) / accept(2) returned the free descriptor number fd.
OpenFd(fd, v6) ==
  /\ fd \notin open
  /\ open' = open \cup {fd}
  /\ isV6' = [isV6 EXCEPT ![fd] = v6]

\* The factory of thread t makes an Err of the e its call has failed with, and
\* returns it.
ReturnErr(t, e) ==
  /\ cause' = [cause EXCEPT ![t] = e]
  /\ errno' = errno
  /\ ret' = [ret EXCEPT ![t] = Err(lastOsError(Platform, e))]

\* startupSockets(): the call that finds the static not yet made makes it first,
\* and goes on when it is made; the calls of other threads wait meanwhile.
\* (mutant: a plain flag, which two threads can find unset)
startupBeginsTwice(t) ==
  /\ pc[t] = "idle" /\ startup \in {"unset", "running"}
  /\ startup' = "running"
  /\ pc' = [pc EXCEPT ![t] = "startup"]
  /\ UNCHANGED <<error, kernel, objects, released, local, errors>>

startupBegins(t) ==
  /\ pc[t] = "idle" /\ startup = "unset"
  /\ startup' = "running"
  /\ pc' = [pc EXCEPT ![t] = "startup"]
  /\ UNCHANGED <<error, kernel, objects, released, local, errors>>

\* WSAStartup() returns its error and does not set the last one of the thread;
\* the code keeps the last one, whatever the thread was doing before.
startupEnds(t, s) ==
  /\ pc[t] = "startup"
  /\ startup' = s
  /\ error' \in IF s = "failed" THEN OsErrors ELSE {error}
  /\ pc' = [pc EXCEPT ![t] = "idle"]
  /\ UNCHANGED <<kernel, objects, released, local, errors>>

\* The error for good of a process whose startup failed; a factory that gets it
\* returns it, as initSockets() does.
startupFailed(t) ==
  /\ pc[t] = "idle" /\ startup = "failed"
  /\ ret' = [ret EXCEPT ![t] = Err(error)]
  /\ UNCHANGED <<process, kernel, objects, released, pc, local, errno, cause>>

initSockets(t) ==
  /\ pc[t] = "idle" /\ startup = "ok"
  /\ ret' = [ret EXCEPT ![t] = Ok]
  /\ cause' = [cause EXCEPT ![t] = NoOs]
  /\ UNCHANGED <<process, kernel, objects, released, pc, local, errno>>

-----------------------------------------------------------------------------
\* newSocket(): the first part of UdpSocket::bind, TcpListener::bind and
\* TcpStream::connectInternal; the new object will live in o.
FirstCall(o, v6) ==
  CASE o \in Streams -> "connect"
    [] o \notin Streams /\ v6 -> "v6only"
    [] o \notin Streams /\ ~v6 -> "bind"

newSocket(t, o, v6) ==
  /\ pc[t] = "idle"
  /\ o \notin alive /\ Unused(o)
  /\ startup = "ok"
  /\ \E fd \in Fds :
       /\ OpenFd(fd, v6)
       /\ sock' = [sock EXCEPT ![t] = fd]
  /\ self' = [self EXCEPT ![t] = o]
  /\ pc' = [pc EXCEPT ![t] = FirstCall(o, v6)]
  /\ UNCHANGED <<process, objects, released, other, errors>>

newSocketFails(t, e) ==
  /\ pc[t] = "idle" /\ startup = "ok"
  /\ ReturnErr(t, e)
  /\ UNCHANGED <<process, kernel, objects, released, pc, local>>

\* The setup calls, in the order of newBoundSocket, TcpListener::bind and
\* connectInternal (TcpConnect models what "connect" is made of).
AfterCall(t) ==
  CASE pc[t] = "v6only" -> "bind"
    [] pc[t] = "bind" /\ self[t] \in Listeners -> "listen"
    [] OTHER -> "construct"

setupCall(t) ==
  /\ pc[t] \in SetupCalls
  /\ pc' = [pc EXCEPT ![t] = AfterCall(t)]
  /\ UNCHANGED <<process, kernel, objects, released, local, errors>>

\* (mutant: the failing call's error path closes, and so does the caller)
setupCallFailsCloses(t, e) ==
  /\ pc[t] \in SetupCalls
  /\ pc' = [pc EXCEPT ![t] = "close"]
  /\ ReturnErr(t, e)
  /\ CloseFd(sock[t])
  /\ UNCHANGED <<process, objects, released, local>>

\* A setup call fails.  doConnect makes its Err before anything is closed; the
\* errno of a bound socket's call stays where it is until the close is done.
setupCallFails(t, e) ==
  /\ pc[t] \in SetupCalls
  /\ pc' = [pc EXCEPT ![t] = "close"]
  /\ errno' = [errno EXCEPT ![t] = e]
  /\ cause' = [cause EXCEPT ![t] = e]
  /\ ret' = IF pc[t] = "connect"
              THEN [ret EXCEPT ![t] = Err(lastOsError(Platform, e))]
              ELSE ret
  /\ UNCHANGED <<process, kernel, objects, released, local>>

\* What a factory returns when its socket is closed and errno is e.
\* (mutant: connectInternal reads errno late, too)
ErrAfterCloseAlways(t, e) == Err(lastOsError(Platform, e))
ErrAfterClose(t, e) ==
  IF self[t] \in Streams THEN ret[t] ELSE Err(lastOsError(Platform, e))

\* closeSocket(sock), or the destructor of connectInternal's local stream,
\* and the factory returns its Err.
closeSocket(t) ==
  /\ pc[t] = "close"
  /\ CloseFd(sock[t])
  /\ \E e \in ErrnoAfterClose(t) : ret' = [ret EXCEPT ![t] = ErrAfterClose(t, e)]
  /\ cause' = IF self[t] \in Streams THEN cause ELSE [cause EXCEPT ![t] = Late]
  /\ errno' = [errno EXCEPT ![t] = NoOs]
  /\ pc' = [pc EXCEPT ![t] = "idle"]
  /\ sock' = [sock EXCEPT ![t] = InvalidSockFd]
  /\ self' = [self EXCEPT ![t] = None]
  /\ UNCHANGED <<process, objects, released, other>>

\* The object takes the descriptor over and reaches the caller in Ok().
\* (BaseSocket's constructor asserts that the descriptor is valid.)
construct(t) ==
  /\ pc[t] = "construct"
  /\ alive' = alive \cup {self[t]}
  /\ m_fd' = [m_fd EXCEPT ![self[t]] = sock[t]]
  /\ ipv6' = [u \in Udps |-> IF u = self[t] THEN isV6[sock[t]] ELSE ipv6[u]]
  /\ pc' = [pc EXCEPT ![t] = "idle"]
  /\ sock' = [sock EXCEPT ![t] = InvalidSockFd]
  /\ self' = [self EXCEPT ![t] = None]
  /\ other' = [other EXCEPT ![t] = None]
  /\ ret' = [ret EXCEPT ![t] = Ok]
  /\ cause' = [cause EXCEPT ![t] = NoOs]
  /\ UNCHANGED <<process, kernel, released, errno>>

\* TcpListener::accept(): the call may block while other threads run.
accept(t, l, o) ==
  /\ pc[t] = "idle"
  /\ l \in alive /\ Unused(l)
  /\ o \notin alive /\ Unused(o)
  /\ pc' = [pc EXCEPT ![t] = "accept"]
  /\ self' = [self EXCEPT ![t] = o]
  /\ other' = [other EXCEPT ![t] = l]
  /\ UNCHANGED <<process, kernel, objects, released, sock, errors>>

acceptReturns(t) ==
  /\ pc[t] = "accept"
  /\ m_fd[other[t]] \in open
  /\ \E fd \in Fds :
       /\ OpenFd(fd, isV6[m_fd[other[t]]])
       /\ sock' = [sock EXCEPT ![t] = fd]
  /\ pc' = [pc EXCEPT ![t] = "construct"]
  /\ UNCHANGED <<process, objects, released, self, other, errors>>

\* Also the way out for a moved-from listener, whose m_fd is -1.
acceptFails(t, e) ==
  /\ pc[t] = "accept"
  /\ (m_fd[other[t]] = InvalidSockFd) <=> (e = BadFd)
  /\ ReturnErr(t, e)
  /\ pc' = [pc EXCEPT ![t] = "idle"]
  /\ self' = [self EXCEPT ![t] = None]
  /\ other' = [other EXCEPT ![t] = None]
  /\ UNCHANGED <<process, kernel, objects, released, sock>>

-----------------------------------------------------------------------------
\* Move construction: src keeps existing, without a descriptor.
moveConstruct(t, dst, src) ==
  /\ pc[t] = "idle"
  /\ SameClass(dst, src)
  /\ src \in alive /\ Unused(src)
  /\ dst \notin alive /\ Unused(dst)
  /\ alive' = alive \cup {dst}
  /\ m_fd' = Moved(dst, src)
  /\ ipv6' = FlagMoved(dst, src)
  /\ UNCHANGED <<process, kernel, released, pc, local, errors>>

\* Move assignment, first half: close the descriptor dst has; until the second
\* half dst.m_fd is a number that is no longer dst's.  (this == &other: no-op.)
moveAssign(t, dst, src) ==
  /\ pc[t] = "idle"
  /\ SameClass(dst, src) /\ dst # src
  /\ src \in alive /\ Unused(src)
  /\ dst \in alive /\ Unused(dst)
  /\ CloseHeld(dst)
  /\ pc' = [pc EXCEPT ![t] = "assign"]
  /\ self' = [self EXCEPT ![t] = dst]
  /\ other' = [other EXCEPT ![t] = src]
  /\ UNCHANGED <<process, objects, released, sock, errors>>

\* Second half: take src's descriptor, and UdpSocket's flag after the base.
moveAssignTake(t) ==
  /\ pc[t] = "assign"
  /\ m_fd' = Moved(self[t], other[t])
  /\ ipv6' = FlagMoved(self[t], other[t])
  /\ pc' = [pc EXCEPT ![t] = "idle"]
  /\ self' = [self EXCEPT ![t] = None]
  /\ other' = [other EXCEPT ![t] = None]
  /\ UNCHANGED <<process, kernel, alive, released, sock, errors>>

\* ~BaseSocket().  The storage holds no object afterwards.
destroy(t, o) ==
  /\ pc[t] = "idle"
  /\ o \in alive /\ Unused(o)
  /\ CloseHeld(o)
  /\ alive' = alive \ {o}
  /\ m_fd' = [m_fd EXCEPT ![o] = InvalidSockFd]
  /\ ipv6' = [u \in Udps |-> IF u = o THEN FALSE ELSE ipv6[u]]
  /\ UNCHANGED <<process, released, pc, local, errors>>

\* What releaseHandle() returns, as the set of descriptors it hands over.
\* (mutant: -1 is handed over like a descriptor)
HandedOverAny(o) == {m_fd[o]}
HandedOver(o) == {m_fd[o]} \ {InvalidSockFd}

\* TcpStream::releaseHandle()
\* (mutant: the stream keeps the descriptor it released)
releaseHandleKeeps(t, o) ==
  /\ pc[t] = "idle"
  /\ o \in alive /\ Unused(o)
  /\ released' = released \cup HandedOver(o)
  /\ UNCHANGED <<process, kernel, objects, pc, local, errors>>

releaseHandle(t, o) ==
  /\ pc[t] = "idle"
  /\ o \in alive /\ Unused(o)
  /\ released' = released \cup HandedOver(o)
  /\ m_fd' = [m_fd EXCEPT ![o] = InvalidSockFd]
  /\ UNCHANGED <<process, kernel, alive, ipv6, pc, local, errors>>

\* The application closes a descriptor it took with releaseHandle().
appClose(fd) ==
  /\ fd \in released
  /\ CloseFd(fd)
  /\ released' = released \ {fd}
  /\ UNCHANGED <<process, objects, pc, local, errors>>

-----------------------------------------------------------------------------
ThreadStep(t) ==
  \/ startupBegins(t) \/ startupFailed(t) \/ initSockets(t)
  \/ \E s \in StartupOutcomes : startupEnds(t, s)
  \/ \E o \in Objs, v6 \in BOOLEAN : newSocket(t, o, v6)
  \/ \E e \in CallErrnos : newSocketFails(t, e)
  \/ \E e \in CallErrnos : setupCallFails(t, e)
  \/ setupCall(t)
  \/ closeSocket(t)
  \/ construct(t)
  \/ \E l \in Listeners, o \in Streams : accept(t, l, o)
  \/ acceptReturns(t)
  \/ \E e \in CallErrnos \cup {BadFd} : acceptFails(t, e)
  \/ \E dst, src \in Objs : moveConstruct(t, dst, src) \/ moveAssign(t, dst, src)
  \/ moveAssignTake(t)
  \/ \E o \in Objs : destroy(t, o)
  \/ \E o \in Streams : releaseHandle(t, o)

Next == (\E t \in Threads : ThreadStep(t)) \/ (\E fd \in Fds : appClose(fd))

Spec == Init /\ [][Next]_vars

-----------------------------------------------------------------------------
NetResults == {Ok} \cup {Err(err) : err \in OsErrors}

TypeOK ==
  /\ startup \in {"unset", "running", "ok", "failed"}
  /\ error \in OsErrors \cup {Error("Success")}
  /\ startup = "failed" => error \in OsErrors
  /\ open \subseteq Fds
  /\ isV6 \in [Fds -> BOOLEAN]
  /\ alive \subseteq Objs
  /\ m_fd \in [Objs -> Fds \cup {InvalidSockFd}]
  /\ ipv6 \in [Udps -> BOOLEAN]
  /\ released \subseteq Fds
  /\ pc \in [Threads -> PCs]
  /\ sock \in [Threads -> Fds \cup {InvalidSockFd}]
  /\ self \in [Threads -> Objs \cup {None}]
  /\ other \in [Threads -> Objs \cup {None}]
  /\ errno \in [Threads -> Errnos]
  /\ cause \in [Threads -> Errnos \cup {Late}]
  /\ ret \in [Threads -> NetResults]

\* Who is responsible for fd: an object (but not one whose assignment has
\* closed its old descriptor and not yet taken the new one), a local of a
\* factory, or the application after releaseHandle().
Assigning(o) == \E t \in Threads : pc[t] = "assign" /\ self[t] = o
ObjHolders(fd)  == {o \in alive : m_fd[o] = fd /\ ~Assigning(o)}
FactoryHolders(fd) == {t \in Threads : sock[t] = fd}
HoldersOf(fd) == ObjHolders(fd) \cup FactoryHolders(fd)
                   \cup {a \in {App} : fd \in released}

\* No descriptor ever has two holders that would both close it: moves,
\* releaseHandle and the factories hand it over, they never copy it, even
\* while a closed number is being reused by another thread.
SingleHolder == \A fd \in Fds : \A x, y \in HoldersOf(fd) : x = y

\* Whatever holds a descriptor holds an open one: no close was ever done by
\* anyone but the holder (no double close hits a reused number).
HeldIsOpen == \A fd \in Fds : HoldersOf(fd) # {} => fd \in open

\* Every open descriptor is still held by somebody: every error path of
\* bind, listen, connect and accept closes what it opened.
NoLeak == \A fd \in open : HoldersOf(fd) # {}

\* UdpSocket::ipv6, which decides how destinations are converted, still says
\* which family the descriptor has, through any chain of moves.
FamilyFlag == \A u \in Udps \cap alive :
  (m_fd[u] \in Fds /\ ~Assigning(u)) => ipv6[u] = isV6[m_fd[u]]

\* A failed connect() or accept(), and a factory that gets no descriptor, report
\* the call that failed, or the startup that failed in any thread: connect()
\* closes its socket on the way out, but by then its error is made.  Only
\* bind() reads errno behind a close(), and may report what that left.
ReportsCause == \A t \in Threads :
  (pc[t] = "idle" /\ ~ret[t].ok /\ cause[t] # Late) =>
    ret[t].err = IF startup = "ok" THEN lastOsError(Platform, cause[t]) ELSE error

\* A descriptor only exists when the one startup of the process succeeded:
\* no thread gets past a startup that is running, or failed, in another.
StartupFirst == open # {} => startup = "ok"

\* The classes implement the ownership discipline.
Ownership == INSTANCE DescriptorOwnership
  WITH Holders <- Objs \cup Threads \cup {App},
       holders <- [fd \in Fds |-> HoldersOf(fd)]
ImplementsOwnership == Ownership!Spec

=============================================================================
