------------------------------- MODULE PollOne -------------------------------
(***************************************************************************)
(* pollOne(socket, poll, timeoutMs) on one TCP socket: poll(2) in the unix *)
(* source, select() in the win32 one.  Meanwhile the socket's peer sends,  *)
(* finishes or resets, other threads drain it or shut it down, signals     *)
(* interrupt the wait, and time passes.                                    *)
(***************************************************************************)
EXTENDS Errors, Integers

CONSTANTS
  Platforms,   \* the sources that are built: "unix", "win32" or both
  Timeouts,    \* timeoutMs arguments, in ticks; pollOne is also given -1
  MaxElapsed,  \* bound: ticks of one call
  MaxSignals   \* bound: signals during one call

ASSUME PollAssumption ==
  /\ Platforms \subseteq {"unix", "win32"}
  /\ Timeouts \subseteq Nat /\ MaxSignals \in Nat /\ MaxElapsed \in Nat
  /\ \A t \in Timeouts : t * (MaxSignals + 1) <= MaxElapsed

VARIABLES
  platform,   \* which of the two sources this program was built from
  valid,      \* the object has a descriptor (FALSE: moved from, m_fd is -1)
  data,       \* kernel: there is something to read
  room,       \* kernel: there is room to write
  rdEnd,      \* kernel: nothing more will arrive
  wrEnd,      \* kernel: nothing more may be sent
  soErr,      \* kernel: the pending SO_ERROR
  pc,         \* "start", "poll" while waiting, "error" before getSocketError(), "done"
  want,       \* the PollType argument, as the set of its bits
  timeout,    \* the timeoutMs argument
  elapsed,    \* ticks since pollOne was called
  pollUntil,  \* the value of elapsed at which the running wait ends, or Never
  signals,    \* signals since pollOne was called
  ret

socket == <<valid, data, room, rdEnd, wrEnd, soErr>>
args   == <<platform, want, timeout>>
vars   == <<socket, pc, args, elapsed, pollUntil, signals, ret>>

Never == -1
Indefinite == -1

PollOk(result) == [ok |-> TRUE, result |-> result, err |-> Error("Success")]
PollErr(e)     == [ok |-> FALSE, result |-> "None", err |-> e]

PollTypes == {{"Read"}, {"Write"}, {"Read", "Write"}}

Init ==
  /\ platform \in Platforms
  /\ valid \in BOOLEAN /\ data \in BOOLEAN /\ room \in BOOLEAN
  /\ rdEnd = FALSE /\ wrEnd = FALSE /\ soErr = NoOs
  /\ pc = "start" /\ want = {"Read"} /\ timeout = 0
  /\ elapsed = 0 /\ pollUntil = Never /\ signals = 0 /\ ret = PollOk("None")

-----------------------------------------------------------------------------
(* The socket, as its peer and other threads change it: data comes and is *)
(* drained, buffers fill and empty, either direction ends, the connection   *)
(* is reset, a call of another thread takes the pending error.             *)

Socket ==
  /\ \/ ~rdEnd /\ data' = TRUE /\ UNCHANGED <<room, rdEnd, wrEnd, soErr>>
     \/ data' = FALSE /\ UNCHANGED <<room, rdEnd, wrEnd, soErr>>
     \/ room' \in BOOLEAN /\ UNCHANGED <<data, rdEnd, wrEnd, soErr>>
     \/ rdEnd' = TRUE /\ UNCHANGED <<data, room, wrEnd, soErr>>
     \/ wrEnd' = TRUE /\ UNCHANGED <<data, room, rdEnd, soErr>>
     \/ /\ ~(rdEnd /\ wrEnd)
        /\ rdEnd' = TRUE /\ wrEnd' = TRUE /\ soErr' = "ECONNRESET"
        /\ UNCHANGED <<data, room>>
     \/ soErr' = NoOs /\ UNCHANGED <<data, room, rdEnd, wrEnd>>
  /\ UNCHANGED <<valid, pc, args, elapsed, pollUntil, signals, ret>>

\* One unit of the time the running wait may still take (bound: an indefinite
\* wait is followed for MaxElapsed ticks).
Tick ==
  /\ pc = "poll"
  /\ elapsed < IF pollUntil = Never THEN MaxElapsed ELSE pollUntil
  /\ elapsed' = elapsed + 1
  /\ UNCHANGED <<socket, pc, args, pollUntil, signals, ret>>

CanRead  == data \/ rdEnd
CanWrite == room \/ wrEnd
Ready == {d \in want : (d = "Read" /\ CanRead) \/ (d = "Write" /\ CanWrite)}
HungUp == rdEnd /\ wrEnd

\* What the system call reports.  poll() ignores a negative descriptor;
\* select() is given the write set only when reading was not asked for.
\* (mutant: the unix source with the else of the win32 one)
ReportedOne ==
  IF ~valid THEN {}
  ELSE (IF "Read" \in want THEN Ready \cap {"Read"} ELSE Ready)
         \cup {h \in {"Hup"} : HungUp} \cup {h \in {"Err"} : soErr # NoOs}
Reported ==
  CASE platform = "unix" /\ ~valid -> {}
    [] platform = "unix" /\ valid ->
         Ready \cup {h \in {"Hup"} : HungUp} \cup {h \in {"Err"} : soErr # NoOs}
    [] platform = "win32" -> IF "Read" \in want THEN Ready \cap {"Read"} ELSE Ready

-----------------------------------------------------------------------------
\* When the wait that begins now ends by itself: the win32 source makes an
\* indefinite wait a zero timeval.
\* (mutants: a signal adds to the time the wait already has; a zero timeout is
\* taken for an indefinite one)
WaitUntilSum(now, t) ==
  IF t >= 0 THEN now + now + t ELSE IF platform = "win32" THEN now ELSE Never
WaitUntilForever(now, t) == IF t > 0 THEN now + t ELSE Never
WaitUntil(now, t) ==
  IF t >= 0 THEN now + t ELSE IF platform = "win32" THEN now ELSE Never

pollOne(w, t) ==
  /\ pc = "start"
  /\ want' = w /\ timeout' = t
  /\ pollUntil' = WaitUntil(elapsed, t)
  /\ pc' = "poll"
  /\ UNCHANGED <<platform, socket, elapsed, signals, ret>>

Return(r) == ret' = r /\ pc' = "done"

pollTimesOut ==
  /\ pc = "poll" /\ Reported = {}
  /\ platform = "win32" => valid
  /\ pollUntil # Never /\ elapsed >= pollUntil
  /\ Return(PollOk("Timeout"))
  /\ UNCHANGED <<socket, args, elapsed, pollUntil, signals>>

\* A signal: the unix loop waits again, for the whole timeout.
pollInterrupted ==
  /\ pc = "poll" /\ platform = "unix" /\ signals < MaxSignals
  /\ signals' = signals + 1
  /\ pollUntil' = WaitUntil(elapsed, timeout)
  /\ UNCHANGED <<socket, pc, args, elapsed, ret>>

pollFails(errno) ==
  /\ pc = "poll"
  /\ errno = IF platform = "win32" /\ ~valid THEN "ENOTSOCK" ELSE "ENOMEM"
  /\ Return(PollErr(lastOsError(platform, errno)))
  /\ UNCHANGED <<socket, args, elapsed, pollUntil, signals>>

\* What the code makes of the report when the socket has not failed; reading
\* comes first.
\* (mutant: the buffer is looked at instead of the report)
VerdictOfRoom == IF room THEN PollOk("Writable") ELSE PollOk("Readable")
Verdict ==
  IF "Read" \in Reported THEN PollOk("Readable") ELSE PollOk("Writable")

pollReady ==
  /\ pc = "poll" /\ Reported # {}
  /\ Reported \cap {"Hup", "Err"} = {}
  /\ platform = "win32" => valid
  /\ Return(Verdict)
  /\ UNCHANGED <<socket, args, elapsed, pollUntil, signals>>

\* POLLHUP and POLLERR come before what was asked for.
pollHungUp ==
  /\ pc = "poll" /\ Reported \cap {"Hup", "Err"} # {}
  /\ pc' = "error"
  /\ UNCHANGED <<socket, args, elapsed, pollUntil, signals, ret>>

\* getSocketError() takes whatever error is pending by then.
getSocketError ==
  /\ pc = "error"
  /\ soErr' = NoOs
  /\ Return(PollErr(IF soErr = NoOs THEN Error("Success") ELSE fromOs(soErr)))
  /\ UNCHANGED <<valid, data, room, rdEnd, wrEnd, args, elapsed, pollUntil, signals>>

callAgain ==
  /\ pc = "done"
  /\ pc' = "start" /\ want' = {"Read"} /\ timeout' = 0 /\ elapsed' = 0
  /\ pollUntil' = Never /\ signals' = 0 /\ ret' = PollOk("None")
  /\ UNCHANGED <<platform, socket>>

-----------------------------------------------------------------------------
Caller ==
  \/ \E w \in PollTypes, t \in Timeouts \cup {Indefinite} : pollOne(w, t)
  \/ pollTimesOut \/ pollReady \/ pollHungUp \/ getSocketError
  \/ \E errno \in {"ENOMEM", "ENOTSOCK"} : pollFails(errno)

Next == Caller \/ pollInterrupted \/ callAgain \/ Socket \/ Tick

Spec == Init /\ [][Next]_vars

\* The waiting thread is scheduled and time passes; a call that cannot even
\* start is refused at once.
FairSpec == /\ Spec
            /\ WF_vars(pollTimesOut \/ pollReady \/ pollHungUp \/ getSocketError
                         \/ pollFails("ENOTSOCK"))
            /\ WF_vars(Tick)

-----------------------------------------------------------------------------
Returning == pc # "done" /\ pc' = "done"
Says(result) == ret'.ok /\ ret'.result = result

\* What pollOne says is true when it says it, and was asked for: Readable only
\* if a read would not block, Writable only if a write would not.  A signal is
\* never what it says, and an Err without an error in it (because there was none,
\* or another call took it before getSocketError) is said only of a connection
\* that is over.
SaysTheTruth == [][Returning =>
  /\ Says("Readable") => "Read" \in want /\ CanRead
  /\ Says("Writable") => "Write" \in want /\ CanWrite
  /\ ~Says("None")
  /\ ret'.err # fromOs("EINTR")
  /\ ~ret'.ok /\ ret'.err = Error("Success") => HungUp]_vars

\* pollOne does not say Timeout while something it was asked for is there.  (The
\* win32 source can promise it for one direction only: asked for both, it looks
\* at reading alone.)
NothingMissed == [][
  (Returning /\ Says("Timeout") /\ valid /\ (platform = "unix" \/ want # {"Read", "Write"})) =>
    Ready = {}]_vars

\* Timeout is said after the whole timeout, never in an indefinite wait (which
\* the win32 source does not do: it makes it a wait of no time), and late by no
\* more than the whole timeout for every signal: the wait begins again, but
\* nothing else makes it longer.
TimeoutIsDue == [][(Returning /\ Says("Timeout")) =>
  /\ platform = "unix" => timeout >= 0
  /\ elapsed >= timeout
  /\ timeout >= 0 => elapsed <= timeout * (signals + 1)]_vars

\* With a timeout, pollOne of either source returns once the signals stop,
\* whatever the socket does, even on an object that was moved from.
PollReturns == (pc = "poll" /\ timeout >= 0) ~> (pc = "done")

=============================================================================
