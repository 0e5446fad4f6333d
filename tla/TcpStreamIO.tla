----------------------------- MODULE TcpStreamIO ----------------------------
(***************************************************************************)
(* The two TcpStreams of one established connection: send, sendAll,        *)
(* receive, receiveExact, peek, shutdown, setLinger, setNonBlocking, the   *)
(* timeouts and destruction, one thread at each end.  Between them are a   *)
(* send buffer and a receive buffer per direction, FIN and RST, signals    *)
(* that interrupt a waiting call and timeouts that end it.  A byte is the  *)
(* number of its place in what an application ever sends, so a byte that   *)
(* is skipped, repeated or reordered shows.                                *)
(***************************************************************************)
EXTENDS Errors, Integers, Sequences, SequencesExt

CONSTANTS
  Platform,     \* "unix" or "win32": which of the two sources is built
  Senders,      \* the ends that send
  Receivers,    \* the ends that receive
  Setters,      \* the ends that set socket options
  Closers,      \* the ends that shut down or destroy their stream
  Sizes,        \* size arguments
  Lingers,      \* timeoutMs arguments of setLinger(true, _)
  Timeouts,     \* arguments of setReadTimeout and setWriteTimeout
  Shutdowns,    \* the ShutdownMode values in use
  SndBuf,       \* capacity of a send buffer, in bytes
  RcvBuf,       \* capacity of a receive buffer
  MaxBytes,     \* bound: bytes an application sends
  MaxSignals    \* bound: signals delivered to waiting calls

Ends    == {"client", "server"}
Peer(e) == CHOOSE p \in Ends : p # e

ASSUME IOAssumption ==
  /\ Platform \in {"unix", "win32"}
  /\ Senders \subseteq Ends /\ Receivers \subseteq Ends
  /\ Setters \subseteq Ends /\ Closers \subseteq Ends
  /\ Sizes \subseteq Nat /\ Lingers \subseteq Nat /\ Timeouts \subseteq Nat
  /\ Shutdowns \subseteq {"Read", "Write", "Both"}
  /\ SndBuf \in Nat \ {0} /\ RcvBuf \in Nat \ {0}
  /\ MaxBytes \in Nat /\ MaxSignals \in Nat

VARIABLES
  wire,       \* history: the bytes the kernel accepted from this end
  delivered,  \* how many of them reached the other end's receive buffer
  consumed,   \* how many of the other end's bytes were read at this end
  wrShut,     \* SHUT_WR, by shutdown() or close(): a FIN follows the data
  rdShut,     \* SHUT_RD
  eof,        \* the other end's FIN has arrived
  rst,        \* this end has sent an RST
  broken,     \* this end has received one
  soErr,      \* its pending error
  closed,     \* the TcpStream is destroyed
  nonblock, rcvTimeo, sndTimeo,   \* FIONBIO; whether SO_RCVTIMEO, SO_SNDTIMEO are set
  linger,     \* setLinger's timeoutMs, or LingerOff
  pc,         \* "idle", or waiting in "send" or "recv"
  call,       \* the TcpStream member that is running, or ran last
  size,       \* its size argument
  done,       \* ptr - data: how far its loop is
  copied,     \* what the running ::send has taken
  base,       \* bytes of the application before its current data
  buf,        \* the caller's buffer (0: never written)
  start,      \* history: Len(wire) or consumed when the call began
  peeked,     \* history: what peek() showed since the last read
  asked,      \* history: the halves the application asked to shut down
  read,       \* history: what the reads before the current call handed over
  ret,
  signals     \* signals delivered so far

net  == <<wire, delivered, consumed>>
conn == <<wrShut, rdShut, eof, rst, broken, soErr, closed>>
opts == <<nonblock, rcvTimeo, sndTimeo, linger>>
args == <<call, size, base, start>>
hist == <<peeked, asked, read>>
vars == <<net, conn, opts, pc, args, done, copied, buf, hist, ret, signals>>

LingerOff == -1

Init ==
  /\ wire = [e \in Ends |-> <<>>]
  /\ delivered = [e \in Ends |-> 0] /\ consumed = [e \in Ends |-> 0]
  /\ wrShut = [e \in Ends |-> FALSE] /\ rdShut = [e \in Ends |-> FALSE]
  /\ eof = [e \in Ends |-> FALSE] /\ rst = [e \in Ends |-> FALSE]
  /\ broken = [e \in Ends |-> FALSE] /\ soErr = [e \in Ends |-> NoOs]
  /\ closed = [e \in Ends |-> FALSE]
  /\ nonblock = [e \in Ends |-> FALSE]
  /\ rcvTimeo = [e \in Ends |-> FALSE] /\ sndTimeo = [e \in Ends |-> FALSE]
  /\ linger = [e \in Ends |-> LingerOff]
  /\ pc = [e \in Ends |-> "idle"] /\ call = [e \in Ends |-> "none"]
  /\ size = [e \in Ends |-> 0] /\ done = [e \in Ends |-> 0]
  /\ copied = [e \in Ends |-> 0] /\ base = [e \in Ends |-> 0]
  /\ buf = [e \in Ends |-> <<>>] /\ start = [e \in Ends |-> 0]
  /\ peeked = [e \in Ends |-> <<>>] /\ asked = [e \in Ends |-> {}]
  /\ read = [e \in Ends |-> <<>>]
  /\ ret = [e \in Ends |-> Ok] /\ signals = 0

Idle(e) == pc[e] = "idle" /\ ~closed[e]

-----------------------------------------------------------------------------
(* What the code makes of a system call's result. *)

\* TcpStream::send and TcpStream::_receive; errno counts when res < 0.
\* (mutant: a failed call is taken for the end of the stream)
ioResultNoSign(res, errno) == IF res <= 0 THEN Err(Error("ConnectionClosed")) ELSE Ok

ioResult(res, errno) ==
  CASE res < 0 -> Err(lastOsError(Platform, errno))
    [] res = 0 -> Err(Error("ConnectionClosed"))
    [] res > 0 -> Ok

Loops(c) == c \in {"sendAll", "receiveExact"}

\* Whether the loop of sendAll or receiveExact goes on after an error.
\* (mutant: it spins when the call would block)
goesOnBlocked(err) == err.code \in {"Other", "WouldBlock"}
goesOn(err) == Platform = "unix" /\ err = fromOs("EINTR")

\* done after a system call that moved res bytes.
\* (mutant: the pointer is moved by the loop and by the call in it)
AdvanceTwice(e, res) == IF res > 0 THEN done[e] + 2 * res ELSE done[e]
Advance(e, res) == IF res > 0 THEN done[e] + res ELSE done[e]

\* The call of e that is waiting in a system call learns its result: the loops
\* go round again, every other call returns.
Finish(e, res, errno) ==
  LET r    == ioResult(res, errno)
      loop == Loops(call[e]) /\ (IF r.ok THEN Advance(e, res) < size[e] ELSE goesOn(r.err))
  IN /\ done' = [done EXCEPT ![e] = Advance(e, res)]
     /\ copied' = [copied EXCEPT ![e] = 0]
     /\ pc' = IF loop THEN pc ELSE [pc EXCEPT ![e] = "idle"]
     /\ ret' = IF loop THEN ret ELSE [ret EXCEPT ![e] = r]

-----------------------------------------------------------------------------
(* Sending *)

\* The bytes of the data argument; the application goes on where a send() got
\* to, and gives up the data of a sendAll() that fails.
Sent(e) == IF call[e] = "send" /\ pc[e] = "idle" THEN done[e]
           ELSE IF call[e] \in {"send", "sendAll"} THEN size[e] ELSE 0

\* What the call that runs, or ran last, has handed over of the stream.
HandedOver(e) ==
  IF call[e] \in {"receive", "receiveExact"}
    THEN SubSeq(buf[e], 1, Min({done[e], size[e]})) ELSE <<>>
NextCall(e) == read' = [read EXCEPT ![e] = @ \o HandedOver(e)]

begin(e, c, n) ==
  /\ NextCall(e)
  /\ call' = [call EXCEPT ![e] = c]
  /\ size' = [size EXCEPT ![e] = n]
  /\ base' = [base EXCEPT ![e] = base[e] + Sent(e)]
  /\ done' = [done EXCEPT ![e] = 0]

sendCall(e, c, n) ==
  /\ Idle(e) /\ e \in Senders /\ c \in {"send", "sendAll"}
  /\ base[e] + Sent(e) + n <= MaxBytes
  /\ begin(e, c, n)
  /\ start' = [start EXCEPT ![e] = Len(wire[e])]
  /\ IF c = "sendAll" /\ n = 0
       THEN ret' = [ret EXCEPT ![e] = Ok] /\ pc' = pc
       ELSE ret' = ret /\ pc' = [pc EXCEPT ![e] = "send"]
  /\ UNCHANGED <<net, conn, opts, copied, buf, peeked, asked, signals>>

CanWrite(e) == ~wrShut[e] /\ ~broken[e]
RoomLeft(e) == Len(wire[e]) - delivered[e] < SndBuf

\* Where the data pointer of the running ::send is.
\* (mutant: every round of sendAll starts from the beginning)
SendFromStart(e) == 0
SendFrom(e) == done[e]

copyByte(e) ==
  /\ pc[e] = "send"
  /\ CanWrite(e) /\ RoomLeft(e)
  /\ copied[e] < size[e] - done[e]
  /\ wire' = [wire EXCEPT ![e] = Append(@, base[e] + SendFrom(e) + copied[e] + 1)]
  /\ copied' = [copied EXCEPT ![e] = @ + 1]
  /\ UNCHANGED <<delivered, consumed, conn, opts, pc, args, done, buf, hist, ret, signals>>

\* ::send returns what it took: everything, or less when it would have to
\* wait and may not, or when the connection broke.
sendReturns(e) ==
  /\ pc[e] = "send"
  /\ \/ copied[e] = size[e] - done[e] /\ (CanWrite(e) \/ copied[e] > 0)
     \/ copied[e] > 0 /\ ~CanWrite(e)
     \/ copied[e] > 0 /\ ~RoomLeft(e) /\ (nonblock[e] \/ sndTimeo[e])
  /\ Finish(e, copied[e], NoOs)
  /\ UNCHANGED <<net, conn, opts, args, buf, hist, signals>>

sendFails(e, errno) ==
  /\ pc[e] = "send" /\ copied[e] = 0
  /\ \/ /\ errno = "EWOULDBLOCK"
        /\ CanWrite(e) /\ ~RoomLeft(e) /\ (nonblock[e] \/ sndTimeo[e])
        /\ size[e] > done[e]
     \/ /\ errno = IF soErr[e] # NoOs THEN soErr[e] ELSE "EPIPE"
        /\ ~CanWrite(e)
  /\ soErr' = IF CanWrite(e) THEN soErr ELSE [soErr EXCEPT ![e] = NoOs]
  /\ Finish(e, -1, errno)
  /\ UNCHANGED <<net, wrShut, rdShut, eof, rst, broken, closed, opts, args, buf, hist, signals>>

sendInterrupted(e) ==
  /\ pc[e] = "send" /\ Platform = "unix" /\ signals < MaxSignals
  /\ CanWrite(e) /\ ~RoomLeft(e) /\ ~nonblock[e] /\ copied[e] < size[e] - done[e]
  /\ signals' = signals + 1
  /\ IF copied[e] > 0 THEN Finish(e, copied[e], NoOs) ELSE Finish(e, -1, "EINTR")
  /\ UNCHANGED <<net, conn, opts, args, buf, hist>>

-----------------------------------------------------------------------------
(* Receiving *)

receiveCall(e, c, n) ==
  /\ Idle(e) /\ e \in Receivers /\ c \in {"receive", "receiveExact", "peek"}
  /\ begin(e, c, n)
  /\ start' = [start EXCEPT ![e] = consumed[e]]
  /\ buf' = [buf EXCEPT ![e] = [i \in 1..n |-> 0]]
  /\ IF c = "receiveExact" /\ n = 0
       THEN ret' = [ret EXCEPT ![e] = Ok] /\ pc' = pc
       ELSE ret' = ret /\ pc' = [pc EXCEPT ![e] = "recv"]
  /\ UNCHANGED <<net, conn, opts, copied, peeked, asked, signals>>

\* The bytes in the receive buffer of e.
Arrived(e) == SubSeq(wire[Peer(e)], consumed[e] + 1, delivered[Peer(e)])

\* Where the next bytes go in the caller's buffer.
\* (mutant: every round of receiveExact fills it from the beginning)
RecvIntoStart(e) == 0
RecvInto(e) == done[e]

\* Whether ::recv is called with MSG_PEEK.
\* (mutant: the flag is forgotten)
PeekFlagLost(e) == FALSE
PeekFlag(e) == call[e] = "peek"

Reading(e) == pc[e] = "recv" /\ (Platform = "win32" => ~rdShut[e])

recvReturns(e) ==
  /\ Reading(e) /\ Arrived(e) # <<>>
  /\ LET got == SubSeq(Arrived(e), 1, Min({size[e] - done[e], Len(Arrived(e))}))
         at  == RecvInto(e)
     IN /\ buf' = [buf EXCEPT ![e] = [i \in 1..size[e] |->
                     IF i \in at+1..at+Len(got) THEN got[i - at] ELSE buf[e][i]]]
        /\ consumed' = IF PeekFlag(e) THEN consumed ELSE [consumed EXCEPT ![e] = @ + Len(got)]
        /\ peeked' = [peeked EXCEPT ![e] =
             IF call[e] = "peek" THEN got ELSE IF got = <<>> THEN @ ELSE <<>>]
        /\ Finish(e, Len(got), NoOs)
  /\ UNCHANGED <<wire, delivered, conn, opts, args, asked, read, signals>>

\* The end of the stream: after the last byte, once.
recvEnds(e) ==
  /\ Reading(e) /\ Arrived(e) = <<>>
  /\ soErr[e] = NoOs
  /\ eof[e] \/ rdShut[e] \/ broken[e]
  /\ Finish(e, 0, NoOs)
  /\ UNCHANGED <<net, conn, opts, args, buf, hist, signals>>

recvFails(e, errno) ==
  /\ pc[e] = "recv"
  /\ \/ Reading(e) /\ Arrived(e) = <<>> /\ errno = soErr[e] /\ errno # NoOs
     \/ /\ Reading(e) /\ Arrived(e) = <<>> /\ errno = "EWOULDBLOCK"
        /\ soErr[e] = NoOs /\ ~eof[e] /\ ~rdShut[e] /\ ~broken[e]
        /\ nonblock[e] \/ rcvTimeo[e]
     \/ ~Reading(e) /\ errno = "ESHUTDOWN"
  /\ soErr' = IF errno = soErr[e] THEN [soErr EXCEPT ![e] = NoOs] ELSE soErr
  /\ Finish(e, -1, errno)
  /\ UNCHANGED <<net, wrShut, rdShut, eof, rst, broken, closed, opts, args, buf, hist, signals>>

recvInterrupted(e) ==
  /\ Reading(e) /\ Platform = "unix" /\ signals < MaxSignals
  /\ Arrived(e) = <<>> /\ soErr[e] = NoOs
  /\ ~nonblock[e] /\ ~eof[e] /\ ~rdShut[e] /\ ~broken[e]
  /\ signals' = signals + 1
  /\ Finish(e, -1, "EINTR")
  /\ UNCHANGED <<net, conn, opts, args, buf, hist>>

-----------------------------------------------------------------------------
(* Options, shutdown and destruction *)

\* A call that does not wait returns r.
Returned(e, r) ==
  /\ NextCall(e)
  /\ ret' = [ret EXCEPT ![e] = r]
  /\ call' = [call EXCEPT ![e] = "option"]
  /\ base' = [base EXCEPT ![e] = base[e] + Sent(e)]

setNonBlocking(e, nonBlocking) ==
  /\ Idle(e) /\ e \in Setters
  /\ nonblock' = [nonblock EXCEPT ![e] = nonBlocking]
  /\ UNCHANGED <<net, conn, rcvTimeo, sndTimeo, linger, pc, args, done, copied, buf, hist, ret, signals>>

\* BaseSocket::_setTimeout, which is what both setters call.
setTimeout(e, kind, timeoutMs) ==
  /\ Idle(e) /\ e \in Setters
  /\ Returned(e, IF timeoutMs = 0 THEN Err(Error("InvalidArgument")) ELSE Ok)
  /\ rcvTimeo' = [rcvTimeo EXCEPT ![e] = @ \/ (kind = "read" /\ timeoutMs > 0)]
  /\ sndTimeo' = [sndTimeo EXCEPT ![e] = @ \/ (kind = "write" /\ timeoutMs > 0)]
  /\ UNCHANGED <<net, conn, nonblock, linger, pc, size, start, done, copied, buf, peeked, asked, signals>>

\* What SO_LINGER gets: it counts in seconds.
LingerSeconds(timeoutMs) == timeoutMs \div 1000

setLinger(e, timeoutMs) ==
  /\ Idle(e) /\ e \in Setters
  /\ linger' = [linger EXCEPT ![e] = timeoutMs]
  /\ UNCHANGED <<net, conn, nonblock, rcvTimeo, sndTimeo, pc, args, done, copied, buf, hist, ret, signals>>

Halves(mode) == IF mode = "Both" THEN {"Read", "Write"} ELSE {mode}

\* The halves the system call shuts down: the win32 constants are crossed.
\* (mutant: the unix ones are)
HowCrossed(mode) == CASE mode = "Read"  -> {"Write"}
                      [] mode = "Write" -> {"Read"}
                      [] mode = "Both"  -> {"Read", "Write"}
How(mode) == IF Platform = "win32" THEN HowCrossed(mode) ELSE Halves(mode)

shutdown(e, mode) ==
  /\ Idle(e) /\ e \in Closers
  /\ IF broken[e]
       THEN /\ Returned(e, Err(Error("NotConnected")))
            /\ UNCHANGED <<wrShut, rdShut>>
       ELSE /\ Returned(e, Ok)
            /\ wrShut' = [wrShut EXCEPT ![e] = @ \/ "Write" \in How(mode)]
            /\ rdShut' = [rdShut EXCEPT ![e] = @ \/ "Read" \in How(mode)]
  /\ asked' = [asked EXCEPT ![e] = @ \cup Halves(mode)]
  /\ UNCHANGED <<net, eof, rst, broken, soErr, closed, opts, pc, size, start, done, copied,
                 buf, peeked, signals>>

\* ~TcpStream.  The kernel sends what is left and a FIN in the background,
\* unless the linger time is zero or received bytes were never read: then it
\* throws everything away and sends an RST.
Abortive(e) == (linger[e] # LingerOff /\ LingerSeconds(linger[e]) = 0) \/ Arrived(e) # <<>>

destroy(e) ==
  /\ Idle(e) /\ e \in Closers
  /\ closed' = [closed EXCEPT ![e] = TRUE]
  /\ wrShut' = [wrShut EXCEPT ![e] = TRUE]
  /\ rst' = [rst EXCEPT ![e] = Abortive(e)]
  /\ UNCHANGED <<net, rdShut, eof, broken, soErr, opts, pc, args, done, copied, buf, hist, ret, signals>>

\* The linger time of a stream that is gone is over: the kernel may throw away
\* what it could not send until then.
lingerExpires(e) ==
  /\ closed[e] /\ linger[e] # LingerOff /\ ~rst[e] /\ ~broken[e]
  /\ delivered[e] < Len(wire[e])
  /\ rst' = [rst EXCEPT ![e] = TRUE]
  /\ UNCHANGED <<net, wrShut, rdShut, eof, broken, soErr, closed, opts, pc, args, done,
                 copied, buf, hist, ret, signals>>

-----------------------------------------------------------------------------
(* The network (external) *)

Break(e) ==
  /\ broken' = [broken EXCEPT ![e] = TRUE]
  /\ soErr' = [soErr EXCEPT ![e] = IF eof[e] THEN "EPIPE" ELSE "ECONNRESET"]

\* A byte arrives, or is answered with an RST by an end that is gone.
deliver(e) ==
  /\ delivered[e] < Len(wire[e]) /\ ~rst[e] /\ ~broken[e]
  /\ IF closed[Peer(e)]
       THEN Break(e) /\ delivered' = delivered
       ELSE /\ delivered[e] - consumed[Peer(e)] < RcvBuf
            /\ delivered' = [delivered EXCEPT ![e] = @ + 1]
            /\ UNCHANGED <<broken, soErr>>
  /\ UNCHANGED <<wire, consumed, wrShut, rdShut, eof, rst, closed, opts, pc, args, done,
                 copied, buf, hist, ret, signals>>

deliverFin(e) ==
  /\ wrShut[e] /\ delivered[e] = Len(wire[e]) /\ ~rst[e] /\ ~broken[e]
  /\ ~eof[Peer(e)]
  /\ eof' = [eof EXCEPT ![Peer(e)] = TRUE]
  /\ UNCHANGED <<net, wrShut, rdShut, rst, broken, soErr, closed, opts, pc, args, done,
                 copied, buf, hist, ret, signals>>

deliverRst(e) ==
  /\ rst[e] /\ ~closed[Peer(e)] /\ ~broken[Peer(e)]
  /\ Break(Peer(e))
  /\ UNCHANGED <<net, wrShut, rdShut, eof, rst, closed, opts, pc, args, done, copied, buf,
                 hist, ret, signals>>

-----------------------------------------------------------------------------
\* The steps by which a running call gets on.
Progress(e) ==
  \/ copyByte(e) \/ sendReturns(e)
  \/ \E errno \in {"EWOULDBLOCK", "EPIPE", "ECONNRESET"} : sendFails(e, errno)
  \/ recvReturns(e) \/ recvEnds(e)
  \/ \E errno \in {"EWOULDBLOCK", "EPIPE", "ECONNRESET", "ESHUTDOWN"} : recvFails(e, errno)

Calls(e) ==
  \/ \E n \in Sizes : \/ \E c \in {"send", "sendAll"} : sendCall(e, c, n)
                      \/ \E c \in {"receive", "receiveExact", "peek"} : receiveCall(e, c, n)
  \/ \E nb \in BOOLEAN : setNonBlocking(e, nb)
  \/ \E k \in {"read", "write"}, t \in Timeouts : setTimeout(e, k, t)
  \/ \E t \in Lingers : setLinger(e, t)
  \/ \E m \in Shutdowns : shutdown(e, m)
  \/ destroy(e)

Signal(e)  == sendInterrupted(e) \/ recvInterrupted(e)
Network(e) == deliver(e) \/ deliverFin(e) \/ deliverRst(e) \/ lingerExpires(e)

Next == \E e \in Ends : Progress(e) \/ Calls(e) \/ Signal(e) \/ Network(e)

Spec == Init /\ [][Next]_vars

\* The kernel completes what it can and expires timeouts; applications and the
\* network owe nothing.
FairSpec == Spec /\ \A e \in Ends : WF_vars(Progress(e))

-----------------------------------------------------------------------------
Ended(e, c) == pc[e] = "idle" /\ call[e] = c

\* What a send() or sendAll() has put on the wire is always the beginning of
\* its data, each byte once, through short writes, signals and retries; a
\* sendAll() that says Ok has put all of it there, and send() as much as it says;
\* no signal makes sendAll() give up.
SendsItsData == \A e \in Ends : call[e] \in {"send", "sendAll"} =>
  LET put == SubSeq(wire[e], start[e] + 1, Len(wire[e])) IN
  /\ put = [i \in 1..Len(put) |-> base[e] + i]
  /\ Ended(e, "sendAll") /\ ret[e].ok => Len(put) = size[e]
  /\ Ended(e, "sendAll") => ret[e] # Err(fromOs("EINTR"))
  /\ Ended(e, "send") => Len(put) = done[e]

\* The caller's buffer holds, in order and without a hole, every byte the call
\* took from the stream, also when the call fails half way; receiveExact() says
\* Ok only when the buffer is full, and no signal makes it give up.
FillsTheBuffer == \A e \in Ends : call[e] \in {"receive", "receiveExact"} =>
  LET n == consumed[e] - start[e] IN
  /\ SubSeq(buf[e], 1, n) = SubSeq(wire[Peer(e)], start[e] + 1, consumed[e])
  /\ Ended(e, "receiveExact") /\ ret[e].ok => n = size[e]
  /\ Ended(e, "receiveExact") => ret[e] # Err(fromOs("EINTR"))

\* What peek() showed is what the next read will get.
PeekIsHonest == \A e \in Ends : IsPrefix(peeked[e], Arrived(e))

\* A read that asked for something was told that the stream is over.
ToldClosed(e) ==
  /\ call[e] \in {"receive", "receiveExact", "peek"} /\ pc[e] = "idle"
  /\ size[e] > 0 /\ ret[e] = Err(Error("ConnectionClosed"))

\* ConnectionClosed from a read that asked for something means that the stream
\* really is over: the other end is done writing and everything it wrote was
\* read, or this end gave up reading, or the connection was reset before.
ClosedIsTheEnd == \A e \in Ends : ToldClosed(e) =>
    \/ "Read" \in asked[e]
    \/ broken[e]
    \/ /\ "Write" \in asked[Peer(e)] \/ closed[Peer(e)]
       /\ consumed[e] = Len(wire[Peer(e)])

ToServer == INSTANCE BytePipe WITH
  Bytes <- 1..MaxBytes, sent <- wire["client"], got <- read["server"] \o HandedOver("server"),
  finished <- wrShut["client"], lost <- broken["server"], told <- ToldClosed("server")

\* From the sends of one stream to the reads of the other, over all their calls,
\* the two ends and the kernel between them are a pipe: what the reads of the
\* server hand over, one after the other, is what the client's sends put in.
ImplementsPipe == ToServer!Spec

\* With a timeout, or in non-blocking mode, every call returns, even when
\* the buffers are full and the other end neither reads nor writes.
CallsReturn == \A e \in Ends :
  /\ (pc[e] = "send" /\ (sndTimeo[e] \/ nonblock[e])) ~> (pc[e] = "idle")
  /\ (pc[e] = "recv" /\ (rcvTimeo[e] \/ nonblock[e])) ~> (pc[e] = "idle")

=============================================================================
