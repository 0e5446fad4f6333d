----------------------------- MODULE TcpConnect -----------------------------
(***************************************************************************)
(* TcpStream::connect and connectNonBlocking: connectInternal, and the     *)
(* unix and win32 versions of doConnect and doConnectTimeout, run by one   *)
(* thread against a kernel that establishes, refuses or resets the         *)
(* connection whenever it likes, signals that interrupt any waiting call,  *)
(* and a clock.  A call that fails closes the socket on its way out (the   *)
(* local TcpStream is destroyed).                                          *)
(***************************************************************************)
EXTENDS Errors, Integers

CONSTANTS
  Platforms,   \* the sources that are built: "unix", "win32" or both
  Timeouts,    \* timeoutMs arguments, in ticks; 0 or less means none
  ConnErrnos,  \* why the network may refuse a connection
  CallErrnos,  \* other errors of socket(), ioctl() and poll()
  RetryErrnos  \* {"EALREADY"} where a connect() repeated too early is refused
               \* (POSIX, BSD, macOS), {} where it joins the attempt (Linux)

\* The errors of the network and of the other calls are none of those by which
\* a connect() that goes on, was interrupted or was repeated is known.
ASSUME ConnectAssumption ==
  /\ Platforms \subseteq {"unix", "win32"}
  /\ Timeouts \subseteq Int
  /\ RetryErrnos \subseteq {"EALREADY"}
  /\ ConnErrnos \cap CallErrnos = {}
  /\ (ConnErrnos \cup CallErrnos) \cap
       {NoOs, "EINTR", "EISCONN", "EINPROGRESS", "EALREADY", "EWOULDBLOCK"} = {}

VARIABLES
  platform,  \* which of the two sources this program was built from
  conn,      \* kernel: "none", "connecting", "connected", "failed", "reset"
  soErr,     \* kernel: the pending SO_ERROR of the socket
  nonblock,  \* kernel: FIONBIO
  isOpen,    \* kernel: the descriptor is open
  pc,        \* where the call is
  nb,        \* connectInternal's arguments
  timeout,
  cres,      \* doConnectTimeout: whether ::connect returned 0
  errno,
  elapsed,   \* ticks since hclock::now() was stored in start
  time,      \* what the loop has computed as the argument of poll()
  pollUntil, \* the value of elapsed at which the running poll() gives up
  waited,    \* history: ticks the polls of this call were asked to wait and did
  why,       \* history: the OS error behind the latest failure
  ret        \* the NetResult being returned

kernel == <<conn, soErr, nonblock, isOpen>>
args   == <<platform, nb, timeout>>
clock  == <<elapsed, time, pollUntil, waited>>
vars   == <<kernel, args, clock, pc, cres, errno, why, ret>>

Timed == ~nb /\ timeout > 0

TypeOK ==
  /\ platform \in Platforms
  /\ conn \in {"none", "connecting", "connected", "failed", "reset"}
  /\ soErr \in ConnErrnos \cup {NoOs, "ECONNRESET"}
  /\ nonblock \in BOOLEAN /\ isOpen \in BOOLEAN
  /\ pc \in {"start", "setNb", "connect", "blocked", "unsetNb", "loop", "wait",
             "poll", "destroy", "done"}
  /\ nb \in BOOLEAN /\ timeout \in Timeouts \cup {0}
  /\ cres \in BOOLEAN
  /\ elapsed \in Nat /\ time \in Int /\ pollUntil \in Int /\ waited \in Nat

Init ==
  /\ platform \in Platforms
  /\ conn = "none" /\ soErr = NoOs /\ nonblock = FALSE /\ isOpen = FALSE
  /\ pc = "start" /\ nb = FALSE /\ timeout = 0
  /\ cres = FALSE /\ errno = NoOs
  /\ elapsed = 0 /\ time = 0 /\ pollUntil = 0 /\ waited = 0
  /\ why = NoOs /\ ret = Ok

-----------------------------------------------------------------------------
(* The kernel and the clock. *)

Establish ==
  /\ conn = "connecting"
  /\ conn' = "connected"
  /\ UNCHANGED <<soErr, nonblock, isOpen, args, clock, pc, cres, errno, why, ret>>

Break(from, to, e) ==
  /\ conn = from
  /\ conn' = to
  /\ soErr' = e
  /\ UNCHANGED <<nonblock, isOpen, args, clock, pc, cres, errno, why, ret>>

\* The clock runs all through the loop of doConnectTimeout: before it is read,
\* between the reading and the start of poll(), in poll() and, when the thread
\* wakes up late, past poll()'s deadline.  Bounds: the thread is at most one
\* timeout late on its way to poll() and one more in it.
Tick ==
  /\ pc \in {"loop", "wait", "poll"}
  /\ elapsed < (IF pc = "wait" THEN 2 ELSE 3) * timeout
  /\ elapsed' = elapsed + 1
  /\ waited' = IF pc = "poll" /\ elapsed < pollUntil THEN waited + 1 ELSE waited
  /\ UNCHANGED <<kernel, args, time, pollUntil, pc, cres, errno, why, ret>>

-----------------------------------------------------------------------------
(* Returning: Err destroys the stream on the way out, Ok hands it over. *)

Return(r) ==
  /\ ret' = r
  /\ pc' = IF r.ok THEN "done" ELSE "destroy"

\* A system call failed and its error is returned at once.
FailWith(e) ==
  /\ errno' = e
  /\ why' = e
  /\ Return(Err(lastOsError(platform, e)))

\* connect(address, timeoutMs) is (FALSE, timeoutMs); connectNonBlocking is
\* (TRUE, 0).
connectInternal(n, t) ==
  /\ pc = "start"
  /\ n => t = 0
  /\ nb' = n /\ timeout' = t
  /\ isOpen' = TRUE
  /\ pc' = IF n \/ t > 0 THEN "setNb" ELSE "connect"
  /\ UNCHANGED <<platform, conn, soErr, nonblock, clock, cres, errno, why, ret>>

newSocketFails(e) ==
  /\ pc = "start"
  /\ FailWith(e)
  /\ UNCHANGED <<kernel, args, clock, cres>>

\* ~TcpStream of the local in connectInternal
destroyStream ==
  /\ pc = "destroy"
  /\ conn' = "none" /\ soErr' = NoOs /\ nonblock' = FALSE /\ isOpen' = FALSE
  /\ pc' = "done"
  /\ UNCHANGED <<args, clock, cres, errno, why, ret>>

\* The caller is done with the stream and may connect again.
callAgain ==
  /\ pc = "done"
  /\ conn' = "none" /\ soErr' = NoOs /\ nonblock' = FALSE /\ isOpen' = FALSE
  /\ pc' = "start" /\ nb' = FALSE /\ timeout' = 0
  /\ cres' = FALSE /\ errno' = NoOs
  /\ elapsed' = 0 /\ time' = 0 /\ pollUntil' = 0 /\ waited' = 0
  /\ why' = NoOs /\ ret' = Ok
  /\ UNCHANGED platform

-----------------------------------------------------------------------------
(* BaseSocket *)

\* setNonBlocking(true), the first call of both connecting functions.  When it
\* fails, win32's doConnectTimeout keeps the error in its local result and
\* still restores blocking mode.
setNonBlocking ==
  /\ pc = "setNb"
  /\ nonblock' = TRUE
  /\ pc' = "connect"
  /\ UNCHANGED <<conn, soErr, isOpen, args, clock, cres, errno, why, ret>>

setNonBlockingFails(e) ==
  /\ pc = "setNb"
  /\ IF platform = "win32" /\ Timed
       THEN /\ errno' = e /\ why' = e
            /\ pc' = "unsetNb"
            /\ ret' = Err(lastOsError(platform, e))
       ELSE FailWith(e)
  /\ UNCHANGED <<kernel, args, clock, cres>>

\* getSocketError(): SO_ERROR, as an OS error whatever its number is.
getSocketError == IF soErr = NoOs THEN Error("Success") ELSE fromOs(soErr)

-----------------------------------------------------------------------------
(* ::connect (external) and doConnect *)

\* How a connection in progress shows in errno.
InProgress == IF platform = "win32" THEN "EWOULDBLOCK" ELSE "EINPROGRESS"

\* What doConnect(address, nonBlocking) makes of ::connect's result: 0, when e is
\* NoOs, or -1.
\* (mutant: a retried connect that finds the connection made is an error)
doConnectResultNoIsConn(nonBlocking, e) ==
  LET err == lastOsError(platform, e) IN
  IF e = NoOs \/ (nonBlocking /\ err.code \in {"WouldBlock", "InProgress"}) THEN Ok ELSE Err(err)

doConnectResult(nonBlocking, e) ==
  LET err == lastOsError(platform, e)
      fine == IF platform = "win32"
                THEN nonBlocking /\ err.code \in {"WouldBlock", "InProgress"}
                ELSE (nonBlocking /\ e = "EINPROGRESS") \/ e = "EISCONN"
  IN IF e = NoOs \/ fine THEN Ok ELSE Err(err)

\* ::connect on a non-blocking socket answers at once.
connectNonBlocking(c, e) ==
  /\ pc = "connect" /\ nonblock
  /\ \/ c = "connected" /\ e = NoOs
     \/ c = "connecting" /\ e = InProgress
     \/ c = "failed" /\ e \in ConnErrnos
  /\ conn' = c
  /\ cres' = (e = NoOs)
  /\ errno' = IF e = NoOs THEN errno ELSE e
  /\ why' = IF c = "failed" THEN e ELSE why
  /\ IF Timed
       THEN /\ pc' = "unsetNb"
            /\ ret' = IF platform = "win32" THEN doConnectResult(TRUE, e) ELSE ret
       ELSE Return(doConnectResult(TRUE, e))
  /\ UNCHANGED <<soErr, nonblock, isOpen, args, clock>>

\* ::connect on a blocking socket: start the connection or, on a retry after
\* EINTR, join the one in progress.
connectBlocks ==
  /\ pc = "connect" /\ ~nonblock
  /\ conn' = IF conn = "none" THEN "connecting" ELSE conn
  /\ pc' = "blocked"
  /\ UNCHANGED <<soErr, nonblock, isOpen, args, clock, cres, errno, why, ret>>

\* It returns: the kernel may also answer EISCONN to a retry.
connectReturns(e) ==
  /\ pc = "blocked"
  /\ conn = "connected"
  /\ e = "EISCONN" => errno = "EINTR"
  /\ errno' = IF e = NoOs THEN errno ELSE e
  /\ Return(doConnectResult(FALSE, e))
  /\ UNCHANGED <<kernel, args, clock, cres, why>>

\* The kernel refuses the repeated connect() while the first one goes on.
connectAlready(e) ==
  /\ pc = "connect" /\ ~nonblock
  /\ conn = "connecting" /\ errno = "EINTR"
  /\ errno' = e /\ why' = e
  /\ Return(doConnectResult(FALSE, e))
  /\ UNCHANGED <<kernel, args, clock, cres>>

connectFails ==
  /\ pc = "blocked"
  /\ conn \in {"failed", "reset"}
  /\ errno' = soErr /\ why' = soErr
  /\ soErr' = NoOs
  /\ Return(doConnectResult(FALSE, soErr))
  /\ UNCHANGED <<conn, nonblock, isOpen, args, clock, cres>>

\* A signal: EINTR, and the unix loop calls connect again.
connectInterrupted ==
  /\ pc = "blocked" /\ conn = "connecting"
  /\ platform = "unix"
  /\ errno' = "EINTR"
  /\ pc' = "connect"
  /\ UNCHANGED <<kernel, args, clock, cres, why, ret>>

-----------------------------------------------------------------------------
(* doConnectTimeout *)

\* errno after the ioctl that follows ::connect succeeded: untouched.
\* (mutant: the ioctl leaves its own value)
ErrnoAfterIoctlLost == "ENOTTY"
ErrnoAfterIoctl == errno

\* FIONBIO after setNonBlocking(false).
\* (mutant: an immediate connection returns before that call)
RestoredModeLate == IF cres THEN nonblock ELSE FALSE
RestoredMode == FALSE

\* win32: the result of doConnect(address, true), kept over the ioctl.
KeptResult == ret

\* Blocking mode is back; then look at what ::connect had said.  On win32 an
\* error WouldBlock would lead on to select(), but doConnect(address, true)
\* has turned it into Ok, so "select" is never reached.
restoreBlocking ==
  /\ pc = "unsetNb"
  /\ nonblock' = RestoredMode
  /\ errno' = ErrnoAfterIoctl
  /\ IF platform = "win32"
       THEN IF KeptResult = Err(Error("WouldBlock"))
              THEN pc' = "select" /\ ret' = ret
              ELSE Return(KeptResult)
       ELSE \/ cres /\ Return(Ok)
            \/ ~cres /\ errno' = "EINPROGRESS" /\ pc' = "loop" /\ ret' = ret
            \/ ~cres /\ errno' # "EINPROGRESS"
               /\ Return(Err(lastOsError("unix", errno')))
  /\ elapsed' = 0 /\ waited' = 0
  /\ UNCHANGED <<conn, soErr, isOpen, args, time, pollUntil, cres, why>>

restoreBlockingFails(e) ==
  /\ pc = "unsetNb"
  /\ FailWith(e)
  /\ UNCHANGED <<kernel, args, clock, cres>>

\* The head of the loop: the clock is read, and what is left of the timeout
\* will be the argument of poll().
\* (mutants: the whole timeout is waited again; start is taken in the loop)
readClockWhole ==
  /\ pc = "loop" /\ elapsed < timeout
  /\ time' = timeout
  /\ pc' = "wait"
  /\ UNCHANGED <<kernel, args, elapsed, pollUntil, waited, cres, errno, why, ret>>

readClockRestart ==
  /\ pc = "loop"
  /\ elapsed' = 0
  /\ time' = timeout
  /\ pc' = "wait"
  /\ UNCHANGED <<kernel, args, pollUntil, waited, cres, errno, why, ret>>

readClock ==
  /\ pc = "loop" /\ elapsed < timeout
  /\ time' = timeout - elapsed
  /\ pc' = "wait"
  /\ UNCHANGED <<kernel, args, elapsed, pollUntil, waited, cres, errno, why, ret>>

\* poll() starts, some time after the clock was read.
pollStarts ==
  /\ pc = "wait"
  /\ pollUntil' = elapsed + time
  /\ pc' = "poll"
  /\ UNCHANGED <<kernel, args, elapsed, time, waited, cres, errno, why, ret>>

TimeIsUp == elapsed >= timeout

connectTimesOut ==
  /\ pc = "loop" /\ TimeIsUp
  /\ Return(Err(Error("TimedOut")))
  /\ UNCHANGED <<kernel, args, clock, cres, errno, why>>

\* poll() says 0: look at the clock again.
pollTimesOut ==
  /\ pc = "poll" /\ conn = "connecting" /\ elapsed >= pollUntil
  /\ pc' = "loop"
  /\ UNCHANGED <<kernel, args, clock, cres, errno, why, ret>>

pollInterrupted ==
  /\ pc = "poll"
  /\ errno' = "EINTR"
  /\ pc' = "loop"
  /\ UNCHANGED <<kernel, args, clock, cres, why, ret>>

pollFails(e) ==
  /\ pc = "poll"
  /\ FailWith(e)
  /\ UNCHANGED <<kernel, args, clock, cres>>

\* POLLOUT, with POLLERR and POLLHUP when the connection is dead.
\* (mutant: revents is not looked at)
pollReadyUnchecked ==
  /\ pc = "poll" /\ conn \in {"connected", "failed", "reset"}
  /\ Return(Ok)
  /\ UNCHANGED <<kernel, args, clock, cres, errno, why>>

pollReady ==
  /\ pc = "poll"
  /\ \/ /\ conn = "connected"
        /\ Return(Ok)
        /\ UNCHANGED <<soErr, why>>
     \/ /\ conn \in {"failed", "reset"}
        /\ Return(Err(getSocketError))
        /\ soErr' = NoOs /\ why' = soErr
  /\ UNCHANGED <<conn, nonblock, isOpen, args, clock, cres, errno>>

-----------------------------------------------------------------------------
Caller ==
  \/ \E n \in BOOLEAN, t \in Timeouts \cup {0} : connectInternal(n, t)
  \/ \E e \in CallErrnos : \/ newSocketFails(e) \/ setNonBlockingFails(e)
                           \/ restoreBlockingFails(e) \/ pollFails(e)
  \/ setNonBlocking
  \/ \E c \in {"connecting", "connected", "failed"},
        e \in ConnErrnos \cup {NoOs, InProgress} : connectNonBlocking(c, e)
  \/ connectBlocks
  \/ \E e \in {NoOs, "EISCONN"} : connectReturns(e)
  \/ \E e \in RetryErrnos : connectAlready(e)
  \/ connectFails \/ connectInterrupted
  \/ restoreBlocking
  \/ readClock \/ pollStarts \/ connectTimesOut
  \/ pollTimesOut \/ pollInterrupted \/ pollReady
  \/ destroyStream

Kernel ==
  \/ Establish
  \/ \E e \in ConnErrnos : Break("connecting", "failed", e)
  \/ Break("connected", "reset", "ECONNRESET")

Next == Caller \/ callAgain \/ Kernel \/ Tick

Spec == Init /\ [][Next]_vars

\* The scheduler runs the calling thread and time passes; the network owes
\* nothing, and any number of signals may arrive.
FairSpec == Spec /\ WF_vars(Caller) /\ WF_vars(Tick)

-----------------------------------------------------------------------------
Returned == pc = "done"

\* connect() hands out a stream only when its connection was established,
\* whichever of the immediate, polled, interrupted and retried ways it took; in
\* the win32 source only the connect() without a timeout keeps that.
OkMeansConnected ==
  (Returned /\ ret.ok /\ ~nb /\ (platform = "unix" \/ ~Timed)) => conn \in {"connected", "reset"}

\* The same for every connect(), with or without a timeout, of either source.
EveryOkMeansConnected == (Returned /\ ret.ok /\ ~nb) => conn \in {"connected", "reset"}

\* The stream comes back in the mode asked for: doConnectTimeout's switch to
\* non-blocking never leaks out of connect().
ModeAsRequested == (Returned /\ ret.ok) => nonblock = nb

\* However often poll() is interrupted, and however late each new poll() starts
\* after the clock was read, all the polls of one connect() together are asked to
\* wait no longer than its timeout.
WaitsNoLongerThanAsked == pc \in {"loop", "wait", "poll"} => waited <= timeout

\* An Err says what really happened: TimedOut only when the whole timeout has
\* passed, however often the wait was interrupted, and otherwise the error that
\* errno or SO_ERROR held, which survive the calls made before they are read.
ErrNamesCause == (Returned /\ ~ret.ok) =>
  \/ ret.err = Error("TimedOut") /\ elapsed >= timeout
  \/ why # NoOs /\ ret.err \in {lastOsError(platform, why), fromOs(why)}

\* What a signal may do to connect(): the interrupted call and the connection
\* that was made meanwhile never show as errors, and the attempt that still goes
\* on shows (as InProgress) only without a timeout, and only where the kernel
\* refuses a repeated connect().
SignalsShowOnlyAsInProgress == (Returned /\ ~ret.ok) =>
  /\ ret.err \notin {fromOs("EINTR"), Error("IsConnected")}
  /\ ret.err = Error("InProgress") => ~nb /\ ~Timed /\ why \in RetryErrnos

\* connect() with a timeout always returns, signals or not.
TimedConnectReturns == (pc = "setNb" /\ Timed) ~> Returned

=============================================================================
