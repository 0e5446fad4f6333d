-------------------------- MODULE TcpConnectProofs --------------------------
(***************************************************************************)
(* TcpConnect proved for any timeouts and any errors of the network and of *)
(* the calls: what each result of connect() means.                         *)
(***************************************************************************)
EXTENDS TcpConnect, TLAPS

Dead   == {"failed", "reset"}
Causes == ConnErrnos \cup CallErrnos \cup {"ECONNRESET"}

\* What every Err that is on its way out satisfies.
GoodErr(r) ==
  \/ r.err = Error("TimedOut") /\ elapsed >= timeout
  \/ why \in Causes /\ r.err \in {lastOsError(platform, why), fromOs(why)}
  \/ why \in RetryErrnos /\ ~nb /\ ~Timed /\ r.err = lastOsError(platform, why)

\* Nothing of an earlier call is left.
Fresh == conn = "none" /\ soErr = NoOs /\ ~nonblock /\ errno = NoOs

(***************************************************************************)
(* The inductive invariant: what holds at each place of the call.          *)
(***************************************************************************)
AtStart == pc = "start" => Fresh /\ ~nb /\ timeout = 0
AtSetNb == pc = "setNb" => Fresh /\ (nb \/ Timed)
AtConnect == pc = "connect" =>
  IF nb \/ Timed THEN nonblock /\ conn = "none" /\ soErr = NoOs
  ELSE ~nonblock /\ errno \in {NoOs, "EINTR"} /\ (errno = "EINTR" => platform = "unix")
AtBlocked == pc = "blocked" =>
  ~nb /\ ~Timed /\ ~nonblock /\ (errno = "EINTR" => platform = "unix")
AtUnsetNb == pc = "unsetNb" =>
  /\ Timed
  /\ platform = "unix" =>
       IF cres THEN conn \in {"connected", "reset"}
       ELSE errno = "EINPROGRESS" \/ (errno \in ConnErrnos /\ why = errno)
  /\ platform = "win32" =>
       ret = Ok \/ (why \in ConnErrnos \cup CallErrnos /\ ret = Err(lastOsError("win32", why)))
AtLoop == pc \in {"loop", "wait", "poll"} => platform = "unix" /\ Timed /\ ~nonblock
\* What was waited has passed, and what will be asked for is left of the timeout.
AtWait == /\ pc \in {"loop", "wait", "poll"} => waited <= elapsed /\ waited <= timeout
          /\ pc = "wait" => waited + time <= timeout
          /\ pc = "poll" => elapsed >= pollUntil \/ waited + (pollUntil - elapsed) <= timeout
AtEnd == /\ pc = "destroy" => ~ret.ok
         /\ pc \in {"destroy", "done"} /\ ~ret.ok => GoodErr(ret)
         /\ pc = "done" /\ ret.ok =>
              /\ nonblock <=> nb
              /\ ~nb /\ (platform = "unix" \/ ~Timed) => conn \in {"connected", "reset"}

\* A connection that died under the call has its error waiting.
ErrorWaits ==
  /\ conn \in Dead /\ pc \in {"connect", "blocked", "loop", "wait", "poll"} => soErr # NoOs
  /\ conn \in Dead /\ pc = "unsetNb" /\ ~cres /\ errno = "EINPROGRESS" => soErr # NoOs

Inv ==
  /\ TypeOK
  /\ AtStart /\ AtSetNb /\ AtConnect /\ AtBlocked /\ AtUnsetNb /\ AtLoop /\ AtWait /\ AtEnd
  /\ ErrorWaits

-----------------------------------------------------------------------------
\* The codes the tables have, and for which numbers.
LEMMA Codes ==
  ASSUME NEW p \in {"unix", "win32"}, NEW e \in Causes
  PROVE  /\ lastOsError(p, e).code \notin {"InProgress", "WouldBlock", "IsConnected"}
         /\ lastOsError(p, e) # fromOs("EINTR")
<1>1. e \notin {NoOs, "EINTR", "EISCONN", "EINPROGRESS", "EALREADY", "EWOULDBLOCK"}
  BY ConnectAssumption DEF Causes, NoOs
<1>2. CASE p = "unix"
  BY <1>1, <1>2 DEF lastOsError, CodeOf, UnixCode, Error, fromOs, NoOs
<1>3. CASE p = "win32"
  BY <1>1, <1>3, SMTT(30) DEF lastOsError, CodeOf, Win32Code, UnixCode, Error, fromOs, NoOs
<1>. QED BY <1>2, <1>3

\* A connection in progress is not an error of a non-blocking connect.
LEMMA InProgressIsFine ==
  ASSUME platform \in {"unix", "win32"}
  PROVE  doConnectResult(TRUE, InProgress) = Ok
<1>1. CASE platform = "unix"
  BY <1>1 DEF doConnectResult, InProgress, NoOs
<1>2. CASE platform = "win32"
  BY <1>2 DEF doConnectResult, InProgress, lastOsError, CodeOf, Win32Code, UnixCode, Error
<1>. QED BY <1>1, <1>2

LEMMA FailureIsErr ==
  ASSUME platform \in {"unix", "win32"}, NEW e \in Causes, NEW n \in BOOLEAN
  PROVE  doConnectResult(n, e) = Err(lastOsError(platform, e))
<1>1. e \notin {"EISCONN", "EINPROGRESS", NoOs}
  BY ConnectAssumption DEF Causes, NoOs
<1>. QED BY <1>1, Codes DEF doConnectResult

-----------------------------------------------------------------------------
\* An error that is returned at once names its cause.
LEMMA FailWithGood ==
  ASSUME TypeOK, UNCHANGED args, NEW e \in CallErrnos, FailWith(e)
  PROVE  GoodErr(ret)' /\ ~ret'.ok /\ pc' = "destroy"
BY DEF FailWith, GoodErr, Return, Err, Causes, args, TypeOK

\* What the network and the clock do under the call.
LEMMA KernelStep ==
  ASSUME Inv, Kernel \/ Tick
  PROVE  Inv'
<1> USE DEF Inv, TypeOK, AtStart, AtSetNb, AtConnect, AtBlocked, AtUnsetNb, AtLoop, AtWait,
            AtEnd, ErrorWaits, Fresh, Dead, GoodErr, Timed
<1>1. CASE Establish
  BY <1>1 DEF Establish, args, clock
<1>2. ASSUME NEW e \in ConnErrnos, Break("connecting", "failed", e) PROVE Inv'
  BY <1>2, ConnectAssumption DEF Break, args, clock
<1>3. CASE Break("connected", "reset", "ECONNRESET")
  BY <1>3 DEF Break, args, clock, NoOs
<1>4. CASE Tick
  BY <1>4, ConnectAssumption DEF Tick, kernel, args
<1>. QED BY <1>1, <1>2, <1>3, <1>4 DEF Kernel

\* The steps of the call itself, one by one.
LEMMA CallerStep ==
  ASSUME Inv, Caller
  PROVE  Inv'
<1> USE DEF Inv, TypeOK, AtStart, AtSetNb, AtConnect, AtBlocked, AtUnsetNb, AtLoop, AtWait,
            AtEnd, ErrorWaits, Fresh, Dead, Timed
<1>0. platform \in {"unix", "win32"}
  BY ConnectAssumption
<1>1. ASSUME NEW n \in BOOLEAN, NEW t \in Timeouts \cup {0}, connectInternal(n, t) PROVE Inv'
  BY <1>1, ConnectAssumption DEF connectInternal, clock, NoOs
<1>2. ASSUME NEW e \in CallErrnos, newSocketFails(e) PROVE Inv'
  BY <1>2, FailWithGood DEF newSocketFails, kernel, args, clock, FailWith
<1>3. ASSUME NEW e \in CallErrnos, setNonBlockingFails(e) PROVE Inv'
  <2>1. CASE platform = "win32" /\ Timed
    BY <1>3, <2>1 DEF setNonBlockingFails, kernel, args, clock
  <2>2. CASE ~(platform = "win32" /\ Timed)
    BY <1>3, <2>2, FailWithGood DEF setNonBlockingFails, kernel, args, clock, FailWith
  <2>. QED BY <2>1, <2>2
<1>4. ASSUME NEW e \in CallErrnos, restoreBlockingFails(e) PROVE Inv'
  BY <1>4, FailWithGood DEF restoreBlockingFails, kernel, args, clock, FailWith
<1>5. ASSUME NEW e \in CallErrnos, pollFails(e) PROVE Inv'
  BY <1>5, FailWithGood DEF pollFails, kernel, args, clock, FailWith
<1>6. CASE setNonBlocking
  BY <1>6 DEF setNonBlocking, args, clock
<1>7. ASSUME NEW c \in {"connecting", "connected", "failed"},
             NEW e \in ConnErrnos \cup {NoOs, InProgress}, connectNonBlocking(c, e)
      PROVE  Inv'
  <2>1. pc = "connect" /\ nonblock /\ (nb \/ Timed) /\ UNCHANGED <<soErr, nonblock, isOpen, args, clock>>
    BY <1>7 DEF connectNonBlocking
  <2>2. /\ InProgress \notin ConnErrnos /\ InProgress # NoOs
        /\ platform = "unix" => InProgress = "EINPROGRESS"
        /\ NoOs \notin ConnErrnos
    BY <1>0, ConnectAssumption DEF InProgress, NoOs
  <2>3. CASE c = "connected"
    <3>1. e = NoOs /\ doConnectResult(TRUE, e) = Ok
      BY <1>7, <2>2, <2>3 DEF connectNonBlocking, doConnectResult
    <3>2. ~Timed => Return(Ok)
      BY <1>7, <3>1, Zenon DEF connectNonBlocking
    <3>3. platform = "win32" /\ Timed => ret' = Ok
      BY <1>7, <3>1 DEF connectNonBlocking
    <3>4. conn' = c /\ cres' = TRUE /\ errno' = errno /\ why' = why /\ (Timed => pc' = "unsetNb")
      BY <1>7, <2>3, <3>1 DEF connectNonBlocking
    <3>. QED BY <1>0, <2>1, <2>3, <3>2, <3>3, <3>4 DEF Return, Ok, args, clock
  <2>4. CASE c = "connecting"
    <3>1. e = InProgress /\ doConnectResult(TRUE, e) = Ok
      BY <1>0, <1>7, <2>4, InProgressIsFine DEF connectNonBlocking
    <3>2. ~Timed => Return(Ok)
      BY <1>7, <3>1, Zenon DEF connectNonBlocking
    <3>3. platform = "win32" /\ Timed => ret' = Ok
      BY <1>7, <3>1 DEF connectNonBlocking
    <3>4. conn' = c /\ cres' = FALSE /\ errno' = e /\ why' = why /\ (Timed => pc' = "unsetNb")
      BY <1>7, <2>2, <2>4, <3>1 DEF connectNonBlocking
    <3>. QED BY <1>0, <2>1, <2>2, <2>4, <3>1, <3>2, <3>3, <3>4 DEF Return, Ok, args, clock
  <2>5. CASE c = "failed"
    <3>1. e \in ConnErrnos /\ e \in Causes /\ e # NoOs /\ e # "EINPROGRESS"
      BY <1>7, <2>5, ConnectAssumption DEF connectNonBlocking, Causes
    <3>2. doConnectResult(TRUE, e) = Err(lastOsError(platform, e))
      BY <1>0, <3>1, FailureIsErr
    <3>3. conn' = "failed" /\ cres' = FALSE /\ errno' = e /\ why' = e
      BY <1>7, <2>5, <3>1 DEF connectNonBlocking
    <3>4. CASE Timed
      BY <1>0, <1>7, <2>1, <2>5, <3>1, <3>2, <3>3, <3>4 DEF connectNonBlocking, args, clock
    <3>5. CASE ~Timed
      <4>0. Return(Err(lastOsError(platform, e)))
        BY <1>7, <3>2, <3>5, Zenon DEF connectNonBlocking
      <4>1. pc' = "destroy" /\ ret' = Err(lastOsError(platform, e))
        BY <4>0 DEF Return, Err
      <4>2. GoodErr(ret)'
        BY <2>1, <3>1, <3>3, <4>1 DEF GoodErr, Err, args
      <4>. QED BY <2>1, <3>3, <4>1, <4>2, <1>7 DEF connectNonBlocking, Err, args, clock
    <3>. QED BY <3>4, <3>5
  <2>. QED BY <2>3, <2>4, <2>5
<1>8. CASE connectBlocks
  BY <1>8 DEF connectBlocks, args, clock
<1>9. ASSUME NEW e \in {NoOs, "EISCONN"}, connectReturns(e) PROVE Inv'
  <2>1. doConnectResult(FALSE, e) = Ok
    BY <1>0, <1>9 DEF connectReturns, doConnectResult, NoOs
  <2>2. Return(Ok)
    BY <1>9, <2>1, Zenon DEF connectReturns
  <2>3. pc = "blocked" /\ conn = "connected" /\ UNCHANGED <<kernel, args, clock, cres, why>>
    BY <1>9 DEF connectReturns
  <2>. QED BY <2>2, <2>3 DEF Return, Ok, kernel, args, clock
<1>10. CASE connectFails
  <2>1. soErr \in Causes
    BY <1>10 DEF connectFails, Causes
  <2>2. doConnectResult(FALSE, soErr) = Err(lastOsError(platform, soErr))
    BY <1>0, <2>1, FailureIsErr
  <2>0. Return(Err(lastOsError(platform, soErr)))
    BY <1>10, <2>2, Zenon DEF connectFails
  <2>3. pc' = "destroy" /\ ret' = Err(lastOsError(platform, soErr)) /\ why' = soErr
    BY <1>10, <2>0 DEF connectFails, Return, Err
  <2>4. GoodErr(ret)'
    BY <1>10, <2>1, <2>3 DEF connectFails, GoodErr, Err, args
  <2>. QED BY <1>10, <2>3, <2>4 DEF connectFails, Err, args, clock
<1>11. CASE connectInterrupted
  BY <1>11 DEF connectInterrupted, kernel, args, clock
<1>12. CASE restoreBlocking
  <2>1. /\ pc = "unsetNb" /\ Timed /\ nonblock' = FALSE /\ errno' = errno /\ elapsed' = 0
        /\ waited' = 0 /\ UNCHANGED <<conn, soErr, isOpen, args, time, pollUntil, cres, why>>
    BY <1>12 DEF restoreBlocking, RestoredMode, ErrnoAfterIoctl
  <2>2. CASE platform = "win32"
    <3>1. ret # Err(Error("WouldBlock"))
      <4>1. CASE ret = Ok
        BY <4>1 DEF Ok, Err
      <4>2. CASE why \in ConnErrnos \cup CallErrnos /\ ret = Err(lastOsError("win32", why))
        BY <4>2, Codes DEF Causes, Err, Error
      <4>. QED BY <2>1, <2>2, <4>1, <4>2
    <3>2. ret' = ret /\ pc' = IF ret.ok THEN "done" ELSE "destroy"
      BY <1>12, <2>2, <3>1 DEF restoreBlocking, KeptResult, Return
    <3>3. ~ret.ok => GoodErr(ret)'
      BY <2>1, <2>2, <3>2 DEF GoodErr, Ok, Err, Causes, args
    <3>4. TypeOK'
      BY <2>1, <3>2 DEF args, Ok, Err
    <3>5. AtEnd'
      BY <2>1, <2>2, <3>2, <3>3 DEF args, Ok, Err
    <3>6. /\ AtStart' /\ AtSetNb' /\ AtConnect' /\ AtBlocked' /\ AtUnsetNb' /\ AtLoop' /\ AtWait'
          /\ ErrorWaits'
      BY <3>2 DEF args
    <3>. QED BY <3>4, <3>5, <3>6
  <2>3. CASE platform = "unix" /\ cres
    <3>1. ret' = Ok /\ pc' = "done"
      BY <1>12, <2>3 DEF restoreBlocking, Return, Ok
    <3>. QED BY <2>1, <2>3, <3>1 DEF args, Ok
  <2>4. CASE platform = "unix" /\ ~cres /\ errno = "EINPROGRESS"
    <3>1. pc' = "loop"
      BY <1>12, <2>1, <2>4 DEF restoreBlocking
    <3>2. TypeOK'
      BY <2>1, <3>1 DEF args
    <3>3. timeout \in Int /\ timeout > 0 /\ timeout' = timeout /\ waited' = 0 /\ elapsed' = 0
      BY <2>1, ConnectAssumption DEF args
    <3>4. AtLoop' /\ ErrorWaits'
      BY <2>1, <2>4, <3>1 DEF args
    <3>5. AtWait'
      BY <3>1, <3>3
    <3>. QED BY <3>1, <3>2, <3>4, <3>5
  <2>5. CASE platform = "unix" /\ ~cres /\ errno # "EINPROGRESS"
    <3>1. pc' = "destroy" /\ ret' = Err(lastOsError("unix", errno))
      BY <1>12, <2>1, <2>5 DEF restoreBlocking, Return, Err
    <3>2. GoodErr(ret)'
      BY <2>1, <2>5, <3>1 DEF GoodErr, Err, Causes, args
    <3>. QED BY <2>1, <2>5, <3>1, <3>2 DEF args, Err
  <2>. QED BY <1>0, <2>2, <2>3, <2>4, <2>5
<1>13. CASE readClock
  BY <1>13, ConnectAssumption DEF readClock, kernel, args
<1>19. CASE pollStarts
  BY <1>19, ConnectAssumption DEF pollStarts, kernel, args
<1>20. ASSUME NEW e \in RetryErrnos, connectAlready(e) PROVE Inv'
  <2>1. e = "EALREADY"
    BY ConnectAssumption
  <2>2. ~nb /\ ~Timed /\ platform = "unix" /\ pc = "connect" /\ UNCHANGED <<kernel, args, clock, cres>>
    BY <1>20 DEF connectAlready
  <2>3. doConnectResult(FALSE, e) = Err(lastOsError(platform, e))
    BY <2>1, <2>2 DEF doConnectResult, NoOs
  <2>4. Return(Err(lastOsError(platform, e)))
    BY <1>20, <2>3, Zenon DEF connectAlready
  <2>5. pc' = "destroy" /\ ret' = Err(lastOsError(platform, e)) /\ why' = e
    BY <1>20, <2>4 DEF connectAlready, Return, Err
  <2>6. GoodErr(ret)'
    BY <2>2, <2>5 DEF GoodErr, Err, args
  <2>. QED BY <2>2, <2>5, <2>6 DEF kernel, args, clock, Err
<1>14. CASE connectTimesOut
  <2>1. pc' = "destroy" /\ ret' = Err(Error("TimedOut")) /\ UNCHANGED <<kernel, args, clock, cres, errno, why>>
    BY <1>14 DEF connectTimesOut, Return, Err
  <2>2. GoodErr(ret)'
    BY <1>14, <2>1 DEF connectTimesOut, TimeIsUp, GoodErr, Err, args, clock
  <2>. QED BY <1>14, <2>1, <2>2 DEF kernel, args, clock, Err
<1>15. CASE pollTimesOut
  BY <1>15 DEF pollTimesOut, kernel, args, clock
<1>16. CASE pollInterrupted
  BY <1>16 DEF pollInterrupted, kernel, args, clock
<1>17. CASE pollReady
  <2>1. pc = "poll" /\ UNCHANGED <<conn, nonblock, isOpen, args, clock, cres, errno>>
    BY <1>17 DEF pollReady
  <2>2. CASE conn = "connected"
    BY <1>17, <2>1, <2>2 DEF pollReady, Return, Ok, args, clock
  <2>3. CASE conn \in Dead
    <3>1. soErr \in Causes /\ soErr # NoOs
      BY <2>1, <2>3 DEF Causes
    <3>2. /\ ret' = Err(fromOs(soErr)) /\ pc' = "destroy" /\ why' = soErr /\ soErr' = NoOs
      BY <1>17, <2>3, <3>1 DEF pollReady, Return, Err, getSocketError
    <3>3. GoodErr(ret)'
      BY <2>1, <3>1, <3>2 DEF GoodErr, Err, args
    <3>. QED BY <2>1, <2>3, <3>2, <3>3 DEF args, clock, Err
  <2>. QED BY <1>17, <2>2, <2>3 DEF pollReady
<1>18. CASE destroyStream
  <2>1. GoodErr(ret)'
    BY <1>18 DEF destroyStream, GoodErr, args, clock
  <2>. QED BY <1>18, <2>1 DEF destroyStream, args, clock
<1>. QED BY <1>1, <1>2, <1>3, <1>4, <1>5, <1>6, <1>7, <1>8, <1>9, <1>10, <1>11, <1>12, <1>13,
            <1>14, <1>15, <1>16, <1>17, <1>18, <1>19, <1>20 DEF Caller

(***************************************************************************)
(* The theorems.                                                           *)
(***************************************************************************)

\* The inductive invariant holds.
THEOREM ConnectInvariance == Spec => []Inv
<1>1. Init => Inv
  <2> SUFFICES ASSUME Init PROVE Inv
    OBVIOUS
  <2>1. pc = "start" /\ conn = "none"
    BY DEF Init
  <2>2. TypeOK
    <3>1. /\ nonblock \in BOOLEAN /\ isOpen \in BOOLEAN /\ nb \in BOOLEAN /\ cres \in BOOLEAN
          /\ platform \in Platforms /\ conn = "none" /\ pc = "start" /\ soErr = NoOs
          /\ timeout = 0 /\ elapsed = 0 /\ time = 0 /\ pollUntil = 0 /\ waited = 0
      BY Zenon DEF Init
    <3>. QED BY <3>1, SMT DEF TypeOK
  <2>3. AtStart
    BY Zenon DEF Init, AtStart, Fresh
  <2>. QED BY <2>1, <2>2, <2>3 DEF Inv, AtSetNb, AtConnect, AtBlocked, AtUnsetNb, AtLoop, AtWait, AtEnd,
                             ErrorWaits, Dead
<1>2. Inv /\ [Next]_vars => Inv'
  <2> SUFFICES ASSUME Inv, [Next]_vars PROVE Inv'
    OBVIOUS
  <2>1. CASE callAgain
    <3>1. pc' = "start" /\ conn' = "none"
      BY <2>1 DEF callAgain
    <3>2. TypeOK'
      <4>1. /\ nonblock' \in BOOLEAN /\ isOpen' \in BOOLEAN /\ nb' \in BOOLEAN /\ cres' \in BOOLEAN
            /\ platform' = platform /\ conn' = "none" /\ pc' = "start" /\ soErr' = NoOs
            /\ timeout' = 0 /\ elapsed' = 0 /\ time' = 0 /\ pollUntil' = 0 /\ waited' = 0
        BY <2>1, Zenon DEF callAgain
      <4>2. platform \in Platforms
        BY DEF Inv, TypeOK
      <4>. QED BY <4>1, <4>2 DEF TypeOK
    <3>3. AtStart'
      BY <2>1, Zenon DEF callAgain, AtStart, Fresh
    <3>. QED BY <3>1, <3>2, <3>3 DEF Inv, AtSetNb, AtConnect, AtBlocked, AtUnsetNb, AtLoop, AtWait, AtEnd,
                               ErrorWaits, Dead
  <2>2. CASE UNCHANGED vars
    BY <2>2 DEF vars, kernel, args, clock, Inv, TypeOK, AtStart, AtSetNb, AtConnect, AtBlocked,
       AtUnsetNb, AtLoop, AtWait, AtEnd, ErrorWaits, Fresh, Dead, GoodErr, Timed
  <2>. QED BY <2>1, <2>2, CallerStep, KernelStep DEF Next
<1>. QED BY <1>1, <1>2, PTL DEF Spec

\* connect() that says Ok has a connection (the win32 one with a timeout apart).
THEOREM OkIsConnected == Spec => []OkMeansConnected
<1>1. Inv => OkMeansConnected
  BY DEF Inv, AtEnd, OkMeansConnected, Returned
<1>. QED BY <1>1, ConnectInvariance, PTL

\* What the win32 source breaks, and only by a connect() with a timeout: where
\* it is not built, or no timeout is given, every Ok is a connection.
THEOREM WhereEveryOkIsConnected ==
  ASSUME "win32" \notin Platforms \/ \A t \in Timeouts : t <= 0
  PROVE  Spec => []EveryOkMeansConnected
<1>1. ASSUME Inv PROVE EveryOkMeansConnected
  <2>1. platform \in {"unix", "win32"} /\ platform \in Platforms /\ timeout \in Timeouts \cup {0}
    BY <1>1, ConnectAssumption DEF Inv, TypeOK
  <2>2. platform = "unix" \/ ~Timed
    <3>1. CASE "win32" \notin Platforms
      BY <2>1, <3>1
    <3>2. CASE \A t \in Timeouts : t <= 0
      <4>1. timeout <= 0 /\ timeout \in Int
        BY <2>1, <3>2, ConnectAssumption
      <4>. QED BY <4>1 DEF Timed
    <3>. QED BY <3>1, <3>2
  <2>. QED BY <1>1, <2>2 DEF Inv, AtEnd, EveryOkMeansConnected, Returned
<1>. QED BY <1>1, ConnectInvariance, PTL

\* The blocking mode that was asked for comes back, on every way out.
THEOREM TheModeIsKept == Spec => []ModeAsRequested
<1>1. Inv => ModeAsRequested
  BY DEF Inv, TypeOK, AtEnd, ModeAsRequested, Returned
<1>. QED BY <1>1, ConnectInvariance, PTL

\* After any number of signals, and however late each poll() starts, the polls of
\* one connect() together wait no longer than its timeout.
THEOREM TheDeadlineStands == Spec => []WaitsNoLongerThanAsked
<1>1. Inv => WaitsNoLongerThanAsked
  BY DEF Inv, AtWait, WaitsNoLongerThanAsked
<1>. QED BY <1>1, ConnectInvariance, PTL

\* An Err is the timeout that has passed or the error of the call that failed.
THEOREM TheCauseIsNamed == Spec => []ErrNamesCause
<1>1. Inv => ErrNamesCause
  BY ConnectAssumption DEF Inv, AtEnd, GoodErr, ErrNamesCause, Returned, Causes, NoOs
<1>. QED BY <1>1, ConnectInvariance, PTL

\* What a signal may do to connect().
THEOREM WhatSignalsDo == Spec => []SignalsShowOnlyAsInProgress
<1>1. ASSUME Inv PROVE SignalsShowOnlyAsInProgress
  <2>1. platform \in {"unix", "win32"}
    BY <1>1, ConnectAssumption DEF Inv, TypeOK
  <2>2. ASSUME Returned, ~ret.ok
        PROVE  /\ ret.err \notin {fromOs("EINTR"), Error("IsConnected")}
               /\ ret.err = Error("InProgress") => ~nb /\ ~Timed /\ why \in RetryErrnos
    <3>1. CASE ret.err = Error("TimedOut")
      BY <3>1 DEF Error, fromOs
    <3>2. CASE why \in Causes /\ ret.err = lastOsError(platform, why)
      BY <2>1, <3>2, Codes DEF Error, fromOs
    <3>3. CASE why \in Causes /\ ret.err = fromOs(why)
      <4>1. why # "EINTR"
        BY <3>3, ConnectAssumption DEF Causes
      <4>. QED BY <3>3, <4>1 DEF Error, fromOs
    <3>4. CASE why \in RetryErrnos /\ ~nb /\ ~Timed /\ ret.err = lastOsError(platform, why)
      <4>1. why = "EALREADY"
        BY <3>4, ConnectAssumption
      <4>2. ret.err = Error("InProgress")
        BY <2>1, <3>4, <4>1 DEF lastOsError, CodeOf, UnixCode, Win32Code
      <4>. QED BY <3>4, <4>2 DEF Error, fromOs
    <3>. QED BY <1>1, <2>2, <3>1, <3>2, <3>3, <3>4 DEF Inv, AtEnd, GoodErr, Returned
  <2>. QED BY <2>2 DEF SignalsShowOnlyAsInProgress
<1>. QED BY <1>1, ConnectInvariance, PTL

=============================================================================
