---------------------------- MODULE PollOneProofs ----------------------------
(***************************************************************************)
(* pollOne proved for any timeouts, signals and behaviour of the socket:   *)
(* what it says is true when it says it, nothing is missed, and Timeout is *)
(* said when it is due.                                                    *)
(***************************************************************************)
EXTENDS PollOne, TLAPS

(***************************************************************************)
(* The inductive invariant.                                                *)
(***************************************************************************)
Typed ==
  /\ platform \in {"unix", "win32"}
  /\ soErr \in {NoOs, "ECONNRESET"}
  /\ pc \in {"start", "poll", "error", "done"}
  /\ want \in PollTypes /\ timeout \in Nat \cup {Indefinite}
  /\ elapsed \in Nat /\ signals \in Nat /\ pollUntil \in Nat \cup {Never}

\* The kernel keeps an error only for a connection that is over, and the code
\* asks for one only then.
Over ==
  /\ soErr # NoOs => HungUp
  /\ pc = "error" => HungUp

\* The wait that is running has not passed its end, ends after the timeout, and
\* has begun once more for every signal.
Waiting ==
  /\ pc = "start" => elapsed = 0 /\ signals = 0
  /\ pc = "poll" /\ timeout < 0 /\ platform = "unix" => pollUntil = Never
  /\ pc = "poll" /\ timeout >= 0 =>
       /\ pollUntil \in Nat /\ elapsed <= pollUntil
       /\ timeout <= pollUntil /\ pollUntil <= timeout * (signals + 1)

Inv == Typed /\ Over /\ Waiting

-----------------------------------------------------------------------------
\* An error of the system call is no success and no signal.
LEMMA FailuresAreNamed ==
  /\ lastOsError("win32", "ENOTSOCK") = Error("NotASocket")
  /\ \A p \in {"unix", "win32"} : lastOsError(p, "ENOMEM") = fromOs("ENOMEM")
<1>1. "ENOTSOCK" \in DOMAIN UnixCode /\ UnixCode["ENOTSOCK"] = "NotASocket" BY DEF UnixCode
<1>2. "ENOMEM" \notin DOMAIN UnixCode BY DEF UnixCode
<1>3. DOMAIN Win32Code = DOMAIN UnixCode \cup {"ENETUNREACH", "ESHUTDOWN"} BY DEF Win32Code
<1>4. Win32Code["ENOTSOCK"] = "NotASocket" BY <1>1 DEF Win32Code
<1> QED BY <1>1, <1>2, <1>3, <1>4 DEF lastOsError, CodeOf

\* One wait more makes one timeout more.
LEMMA OneMore ==
  ASSUME NEW t \in Nat, NEW n \in Nat PROVE t * (n + 1) + t = t * ((n + 1) + 1)
OBVIOUS

LEMMA CallStep ==
  ASSUME Inv, NEW w \in PollTypes, NEW t \in Timeouts \cup {Indefinite}, pollOne(w, t)
  PROVE  Inv'
<1>1. t \in Nat \cup {Indefinite} BY PollAssumption
<1>2. /\ elapsed = 0 /\ signals = 0 /\ elapsed' = 0 /\ signals' = 0
      /\ pollUntil' = WaitUntil(0, t) /\ timeout' = t /\ pc' = "poll" /\ platform' = platform
  BY DEF pollOne, Inv, Waiting
<1>3. Typed'
  BY <1>1, <1>2 DEF pollOne, Inv, Typed, WaitUntil, Never, Indefinite, socket
<1>4. Waiting'
  BY <1>1, <1>2 DEF Waiting, WaitUntil, Never, Indefinite
<1> QED BY <1>3, <1>4 DEF pollOne, Inv, Over, HungUp, socket

LEMMA SignalStep == ASSUME Inv, pollInterrupted PROVE Inv'
<1>1. /\ pc = "poll" /\ pc' = "poll" /\ platform = "unix" /\ platform' = platform
      /\ signals' = signals + 1 /\ elapsed' = elapsed /\ timeout' = timeout
      /\ pollUntil' = WaitUntil(elapsed, timeout)
  BY DEF pollInterrupted, args
<1>2. Typed' BY <1>1 DEF pollInterrupted, socket, args, Inv, Typed, WaitUntil, Never, Indefinite
<1>3. Waiting'
  <2>1. CASE timeout < 0
    BY <1>1, <2>1 DEF Waiting, WaitUntil, Inv, Typed, Indefinite, Never
  <2>2. CASE timeout >= 0
    <3>1. timeout \in Nat /\ signals \in Nat /\ elapsed \in Nat
      BY <2>2 DEF Inv, Typed, Indefinite
    <3>2. pollUntil' = elapsed + timeout BY <1>1, <2>2 DEF WaitUntil
    <3>3. elapsed <= timeout * (signals + 1) BY <1>1, <2>2, <3>1 DEF Inv, Waiting
    <3>4. elapsed + timeout <= timeout * (signals + 1) + timeout BY <3>1, <3>3
    <3>5. elapsed + timeout <= timeout * ((signals + 1) + 1) BY <3>1, <3>4, OneMore
    <3> QED BY <1>1, <2>2, <3>1, <3>2, <3>5 DEF Waiting
  <2> QED BY <2>1, <2>2 DEF Inv, Typed, Indefinite
<1> QED BY <1>1, <1>2, <1>3 DEF pollInterrupted, Inv, Over, HungUp, socket

LEMMA TickStep == ASSUME Inv, Tick PROVE Inv'
<1>1. Typed' BY DEF Tick, Inv, Typed, socket, args
<1>2. Waiting' BY DEF Tick, Inv, Typed, Waiting, args, Never, Indefinite
<1> QED BY <1>1, <1>2 DEF Tick, Inv, Over, HungUp, socket

LEMMA SocketStep == ASSUME Inv, Socket PROVE Inv'
<1>1. Typed' /\ Waiting' BY DEF Socket, Inv, Typed, Waiting, args
<1>2. rdEnd => rdEnd' BY DEF Socket
<1>3. wrEnd => wrEnd' BY DEF Socket
<1>4. soErr' # NoOs => soErr' = soErr \/ (rdEnd' /\ wrEnd') BY DEF Socket
<1>5. Over' BY <1>2, <1>3, <1>4 DEF Inv, Over, HungUp, Socket
<1> QED BY <1>1, <1>5 DEF Inv

\* The calls that return, and the one that asks for the error first.
LEMMA ReturnStep ==
  ASSUME Inv,
         \/ pollTimesOut \/ pollReady \/ pollHungUp \/ getSocketError \/ callAgain
         \/ \E errno \in {"ENOMEM", "ENOTSOCK"} : pollFails(errno)
  PROVE  Inv'
<1>1. CASE pollTimesOut
  BY <1>1 DEF pollTimesOut, Return, Inv, Typed, Over, Waiting, HungUp, socket, args
<1>2. CASE pollReady
  BY <1>2 DEF pollReady, Return, Inv, Typed, Over, Waiting, HungUp, socket, args
<1>3. CASE \E errno \in {"ENOMEM", "ENOTSOCK"} : pollFails(errno)
  BY <1>3 DEF pollFails, Return, Inv, Typed, Over, Waiting, HungUp, socket, args
<1>4. CASE pollHungUp
  <2>1. HungUp
    BY <1>4 DEF pollHungUp, Reported, Ready, Inv, Typed, Over, PollTypes
  <2> QED BY <1>4, <2>1 DEF pollHungUp, Inv, Typed, Over, Waiting, HungUp, socket, args
<1>5. CASE getSocketError
  BY <1>5 DEF getSocketError, Return, Inv, Typed, Over, Waiting, HungUp, args
<1>6. CASE callAgain
  BY <1>6 DEF callAgain, Inv, Typed, Over, Waiting, HungUp, socket, Never, Indefinite, PollTypes
<1> QED BY <1>1, <1>2, <1>3, <1>4, <1>5, <1>6

\* The inductive invariant holds of every behaviour.
THEOREM PollInvariance == Spec => []Inv
<1>1. Init => Inv
  BY PollAssumption DEF Init, Inv, Typed, Over, Waiting, HungUp, Never, Indefinite, PollTypes
<1>2. ASSUME Inv, [Next]_vars PROVE Inv'
  <2>1. CASE UNCHANGED vars
    BY <1>2, <2>1 DEF vars, socket, args, Inv, Typed, Over, Waiting, HungUp
  <2>2. CASE Next
    BY <1>2, <2>2, CallStep, SignalStep, TickStep, SocketStep, ReturnStep DEF Next, Caller
  <2> QED BY <1>2, <2>1, <2>2
<1> QED BY <1>1, <1>2, PTL DEF Spec

-----------------------------------------------------------------------------
(* What pollOne says *)

\* The steps on which pollOne returns.
LEMMA ReturnsBy ==
  ASSUME [Next]_vars, Returning
  PROVE  \/ pollTimesOut \/ pollReady \/ getSocketError
         \/ \E errno \in {"ENOMEM", "ENOTSOCK"} : pollFails(errno)
BY DEF Returning, Next, Caller, pollOne, pollHungUp, pollInterrupted, callAgain, Socket, Tick, vars

LEMMA FailsSaying ==
  ASSUME Inv, NEW errno \in {"ENOMEM", "ENOTSOCK"}, pollFails(errno)
  PROVE  ~ret'.ok /\ ret'.err \in {Error("NotASocket"), fromOs("ENOMEM")}
<1>1. ret' = PollErr(lastOsError(platform, errno)) BY DEF pollFails, Return
<1>2. lastOsError(platform, errno) \in {Error("NotASocket"), fromOs("ENOMEM")}
  BY FailuresAreNamed DEF pollFails, Inv, Typed
<1> QED BY <1>1, <1>2 DEF PollErr

LEMMA ErrorSaying ==
  ASSUME getSocketError PROVE ~ret'.ok /\ ret'.err \in {Error("Success"), fromOs(soErr)}
BY DEF getSocketError, Return, PollErr

LEMMA ReadySaying ==
  ASSUME Inv, pollReady
  PROVE  \/ ret' = PollOk("Readable") /\ "Read" \in want /\ CanRead
         \/ ret' = PollOk("Writable") /\ "Write" \in want /\ CanWrite
<1>1. Reported \subseteq Ready
  BY DEF pollReady, Reported, Inv, Typed
<1>2. CASE "Read" \in Reported
  BY <1>1, <1>2 DEF pollReady, Return, Verdict, Ready
<1>3. CASE "Read" \notin Reported
  BY <1>1, <1>3 DEF pollReady, Return, Verdict, Ready, Inv, Typed, PollTypes
<1> QED BY <1>2, <1>3

\* SaysTheTruth: a verdict is true of the socket at the step that returns it.
THEOREM TheTruthIsSaid == Spec => SaysTheTruth
<1> DEFINE Truth == Returning =>
             /\ Says("Readable") => "Read" \in want /\ CanRead
             /\ Says("Writable") => "Write" \in want /\ CanWrite
             /\ ~Says("None")
             /\ ret'.err # fromOs("EINTR")
             /\ ~ret'.ok /\ ret'.err = Error("Success") => HungUp
<1>1. ASSUME Inv, [Next]_vars PROVE [Truth]_vars
  <2>1. CASE pollTimesOut
    BY <2>1 DEF pollTimesOut, Return, PollOk, Says, Error, fromOs
  <2>2. CASE pollReady
    BY <1>1, <2>2, ReadySaying DEF PollOk, Says, Error, fromOs
  <2>3. CASE getSocketError
    <3>1. HungUp BY <1>1, <2>3 DEF getSocketError, Inv, Over
    <3>2. soErr # "EINTR" BY <1>1 DEF Inv, Typed, NoOs
    <3> QED BY <2>3, <3>1, <3>2, ErrorSaying DEF Says, Error, fromOs, NoOs
  <2>4. CASE \E errno \in {"ENOMEM", "ENOTSOCK"} : pollFails(errno)
    BY <1>1, <2>4, FailsSaying DEF Says, Error, fromOs
  <2> QED BY <1>1, <2>1, <2>2, <2>3, <2>4, ReturnsBy
<1> QED BY <1>1, PollInvariance, PTL DEF Spec, SaysTheTruth

\* What Timeout means at the step that says it.
LEMMA TimeoutSaying ==
  ASSUME Inv, [Next]_vars, Returning, Says("Timeout")
  PROVE  pollTimesOut
<1>1. ~pollReady BY ReadySaying DEF PollOk, Says
<1>2. ~getSocketError BY ErrorSaying DEF Says
<1>3. ~\E errno \in {"ENOMEM", "ENOTSOCK"} : pollFails(errno) BY FailsSaying DEF Says
<1> QED BY <1>1, <1>2, <1>3, ReturnsBy

\* NothingMissed: Timeout is not said while something that was asked for is there.
THEOREM NothingIsMissed == Spec => NothingMissed
<1> DEFINE Seen ==
      (Returning /\ Says("Timeout") /\ valid /\ (platform = "unix" \/ want # {"Read", "Write"}))
        => Ready = {}
<1>1. ASSUME Inv, [Next]_vars PROVE [Seen]_vars
  <2>1. ASSUME pollTimesOut, valid, platform = "unix" \/ want # {"Read", "Write"}
        PROVE  Ready = {}
    BY <1>1, <2>1 DEF pollTimesOut, Reported, Ready, Inv, Typed, PollTypes
  <2> QED BY <1>1, <2>1, TimeoutSaying
<1> QED BY <1>1, PollInvariance, PTL DEF Spec, NothingMissed

\* TimeoutIsDue: Timeout comes after the timeout, and at most one timeout late
\* for every signal.
THEOREM TimeoutsAreDue == Spec => TimeoutIsDue
<1> DEFINE Due == (Returning /\ Says("Timeout")) =>
             /\ platform = "unix" => timeout >= 0
             /\ elapsed >= timeout
             /\ timeout >= 0 => elapsed <= timeout * (signals + 1)
<1>1. ASSUME Inv, [Next]_vars PROVE [Due]_vars
  <2>1. ASSUME pollTimesOut
        PROVE  /\ platform = "unix" => timeout >= 0
               /\ elapsed >= timeout
               /\ timeout >= 0 => elapsed <= timeout * (signals + 1)
    <3>1. CASE timeout < 0
      BY <1>1, <2>1, <3>1 DEF pollTimesOut, Inv, Typed, Waiting, Indefinite, Never
    <3>2. CASE timeout >= 0
      BY <1>1, <2>1, <3>2 DEF pollTimesOut, Inv, Typed, Waiting, Indefinite, Never
    <3> QED BY <1>1, <3>1, <3>2 DEF Inv, Typed, Indefinite
  <2> QED BY <1>1, <2>1, TimeoutSaying
<1> QED BY <1>1, PollInvariance, PTL DEF Spec, TimeoutIsDue

=============================================================================
