-------------------------- MODULE TcpStreamIOProofs --------------------------
(***************************************************************************)
(* TcpStreamIO proved for any sizes, buffers, options and signals: what    *)
(* the loops of sendAll and receiveExact move, what peek shows, when the   *)
(* end of the stream is reported, and that the two streams are a pipe.     *)
(***************************************************************************)
EXTENDS TcpStreamIO, SequenceTheorems, TLAPS

SendCalls == {"send", "sendAll"}
ReadCalls == {"receive", "receiveExact"}
RecvCalls == ReadCalls \cup {"peek"}
AnyCall   == SendCalls \cup RecvCalls \cup {"none", "option"}

(***************************************************************************)
(* The inductive invariant.                                                *)
(***************************************************************************)
Typed ==
  /\ wire \in [Ends -> Seq(Nat)] /\ buf \in [Ends -> Seq(Nat)]
  /\ read \in [Ends -> Seq(Nat)] /\ peeked \in [Ends -> Seq(Nat)]
  /\ delivered \in [Ends -> Nat] /\ consumed \in [Ends -> Nat]
  /\ done \in [Ends -> Nat] /\ copied \in [Ends -> Nat]
  /\ size \in [Ends -> Nat] /\ base \in [Ends -> Nat] /\ start \in [Ends -> Nat]
  /\ pc \in [Ends -> {"idle", "send", "recv"}] /\ call \in [Ends -> AnyCall]
  /\ soErr \in [Ends -> {NoOs, "EPIPE", "ECONNRESET"}]
  /\ wrShut \in [Ends -> BOOLEAN] /\ rdShut \in [Ends -> BOOLEAN]
  /\ eof \in [Ends -> BOOLEAN] /\ broken \in [Ends -> BOOLEAN]
  /\ closed \in [Ends -> BOOLEAN]
  /\ asked \in [Ends -> SUBSET {"Read", "Write"}]
  /\ DOMAIN ret = Ends

\* Where a call is in its loop: a loop goes round only with something left.
Placed(e) ==
  /\ pc[e] = "send" => call[e] \in SendCalls
  /\ pc[e] = "recv" => call[e] \in RecvCalls
  /\ pc[e] # "send" => copied[e] = 0
  /\ call[e] \in RecvCalls => Len(buf[e]) = size[e]
  /\ done[e] + copied[e] <= size[e]
  /\ pc[e] # "idle" => IF Loops(call[e]) THEN done[e] < size[e] ELSE done[e] = 0
  /\ pc[e] = "idle" /\ Loops(call[e]) =>
       /\ ret[e].ok => done[e] = size[e]
       /\ ret[e] # Err(fromOs("EINTR"))

\* No byte is read before it arrives, none arrives before it is sent.
Flow(e) ==
  /\ consumed[e] <= delivered[Peer(e)]
  /\ delivered[Peer(e)] <= Len(wire[Peer(e)])

\* A send has put on the wire what it has gone through of its data.
Put(e) == IF call[e] \in SendCalls THEN done[e] + copied[e] ELSE 0
Sending(e) ==
  /\ base[e] + Sent(e) <= MaxBytes
  /\ \A i \in 1..Len(wire[e]) : 1 <= wire[e][i] /\ wire[e][i] <= base[e] + Put(e)
  /\ call[e] \in SendCalls =>
       /\ Len(wire[e]) = start[e] + Put(e)
       /\ \A i \in 1..Put(e) : wire[e][start[e] + i] = base[e] + i

\* A receive has in its buffer what it has taken from the stream, and the
\* reads before it had all the rest.
Receiving(e) ==
  /\ call[e] \in ReadCalls =>
       /\ consumed[e] = start[e] + done[e]
       /\ \A i \in 1..done[e] : buf[e][i] = wire[Peer(e)][start[e] + i]
  /\ Len(read[e]) = IF call[e] \in ReadCalls THEN start[e] ELSE consumed[e]
  /\ \A i \in 1..Len(read[e]) : read[e][i] = wire[Peer(e)][i]

Peeked(e) ==
  /\ consumed[e] + Len(peeked[e]) <= delivered[Peer(e)]
  /\ \A i \in 1..Len(peeked[e]) : peeked[e][i] = wire[Peer(e)][consumed[e] + i]

\* What a closed, broken or finished connection is.
Closing(e) ==
  /\ soErr[e] # NoOs => broken[e]
  /\ eof[e] => wrShut[Peer(e)] /\ delivered[Peer(e)] = Len(wire[Peer(e)])
  /\ ToldClosed(e) => \/ rdShut[e] \/ broken[e]
                      \/ eof[e] /\ consumed[e] = Len(wire[Peer(e)])
  /\ Platform = "unix" =>
       /\ rdShut[e] => "Read" \in asked[e]
       /\ wrShut[e] => "Write" \in asked[e] \/ closed[e]
  /\ asked[e] \subseteq UNION {Halves(m) : m \in Shutdowns}

DataInv(e) == Placed(e) /\ Flow(e) /\ Sending(e) /\ Receiving(e) /\ Peeked(e)
EndInv(e) == DataInv(e) /\ Closing(e)
Inv == Typed /\ \A e \in Ends : EndInv(e)

-----------------------------------------------------------------------------
(* Facts about ends, errors and sequences. *)

LEMMA TwoEnds ==
  /\ Peer("client") = "server" /\ Peer("server") = "client"
  /\ \A e \in Ends : /\ Peer(e) \in Ends /\ Peer(e) # e /\ Peer(Peer(e)) = e
                     /\ \A x \in Ends : x = e \/ x = Peer(e)
<1>1. Peer("client") = "server" BY DEF Peer, Ends
<1>2. Peer("server") = "client" BY DEF Peer, Ends
<1> QED BY <1>1, <1>2 DEF Ends

LEMMA ErrorsAreNamed ==
  /\ lastOsError("unix", "EINTR") = fromOs("EINTR")
  /\ \A errno \in {"EWOULDBLOCK", "EPIPE", "ECONNRESET", "ESHUTDOWN"} :
       lastOsError(Platform, errno) # fromOs("EINTR")
  /\ \A errno \in {"EWOULDBLOCK", "EPIPE", "ECONNRESET", "ESHUTDOWN", "EINTR"} :
       lastOsError(Platform, errno) # Error("ConnectionClosed")
<1>1. /\ "EINTR" \notin DOMAIN UnixCode /\ "EPIPE" \notin DOMAIN UnixCode
      /\ "EWOULDBLOCK" \in DOMAIN UnixCode /\ UnixCode["EWOULDBLOCK"] = "WouldBlock"
      /\ "ECONNRESET" \in DOMAIN UnixCode /\ UnixCode["ECONNRESET"] = "ConnectionReset"
      /\ "ESHUTDOWN" \notin DOMAIN UnixCode
  BY DEF UnixCode
<1>2. /\ "EINTR" \notin DOMAIN Win32Code /\ "EPIPE" \notin DOMAIN Win32Code
      /\ "EWOULDBLOCK" \in DOMAIN Win32Code /\ Win32Code["EWOULDBLOCK"] = "WouldBlock"
      /\ "ECONNRESET" \in DOMAIN Win32Code /\ Win32Code["ECONNRESET"] = "ConnectionReset"
      /\ "ESHUTDOWN" \in DOMAIN Win32Code /\ Win32Code["ESHUTDOWN"] = "AlreadyShutdown"
  BY <1>1 DEF Win32Code
<1> QED BY <1>1, <1>2, IOAssumption DEF lastOsError, CodeOf, fromOs, Error, NoOs

LEMMA MinOfTwo == ASSUME NEW m \in Nat, NEW n \in Nat PROVE Min({m, n}) = IF m <= n THEN m ELSE n
BY DEF Min

\* Where an element of a piece is in the whole, and back.
LEMMA Within ==
  ASSUME NEW m \in Nat, NEW n \in Nat, NEW l \in Nat, m + n <= l, NEW i \in 1..n
  PROVE  m + i \in 1..l /\ m + i \in m + 1..m + n /\ (m + i) - m = i
OBVIOUS

LEMMA Behind ==
  ASSUME NEW m \in Nat, NEW n \in Nat, NEW i \in 1..m + n, m < i
  PROVE  i - m \in 1..n /\ m + (i - m) = i
OBVIOUS

\* The part of a sequence behind its first m elements and up to the n-th.
LEMMA Piece ==
  ASSUME NEW s \in Seq(Nat), NEW m \in Nat, NEW n \in Nat, m <= n, n <= Len(s)
  PROVE  /\ SubSeq(s, m + 1, n) \in Seq(Nat)
         /\ Len(SubSeq(s, m + 1, n)) = n - m
         /\ \A i \in 1..n - m : SubSeq(s, m + 1, n)[i] = s[m + i]
<1>1. \A i \in m + 1..n : s[i] \in Nat BY ElementOfSeq
<1>2. /\ SubSeq(s, m + 1, n) \in Seq(Nat)
      /\ Len(SubSeq(s, m + 1, n)) = IF m + 1 <= n THEN n - (m + 1) + 1 ELSE 0
      /\ \A i \in 1..n - (m + 1) + 1 : SubSeq(s, m + 1, n)[i] = s[(m + 1) + i - 1]
  <2> DEFINE j == m + 1
  <2>1. j \in Int /\ n \in Int /\ \A i \in j..n : s[i] \in Nat BY <1>1
  <2> HIDE DEF j
  <2>2. /\ SubSeq(s, j, n) \in Seq(Nat)
        /\ Len(SubSeq(s, j, n)) = IF j <= n THEN n - j + 1 ELSE 0
        /\ \A i \in 1..n - j + 1 : SubSeq(s, j, n)[i] = s[j + i - 1]
    BY ONLY <2>1, SubSeqProperties
  <2> QED BY <2>2 DEF j
<1>3. n - (m + 1) + 1 = n - m /\ (m + 1 <= n \/ n - m = 0) OBVIOUS
<1>4. Len(SubSeq(s, m + 1, n)) = n - m BY <1>2, <1>3
<1>5. \A i \in 1..n - m : SubSeq(s, m + 1, n)[i] = s[(m + 1) + i - 1] BY <1>2, <1>3
<1>6. \A i \in 1..n - m : (m + 1) + i - 1 = m + i OBVIOUS
<1>7. \A i \in 1..n - m : SubSeq(s, m + 1, n)[i] = s[m + i] BY ONLY <1>5, <1>6
<1> QED BY <1>2, <1>4, <1>7, Zenon

\* Its first n elements.
LEMMA Beginning ==
  ASSUME NEW s \in Seq(Nat), NEW n \in Nat, n <= Len(s)
  PROVE  /\ SubSeq(s, 1, n) \in Seq(Nat)
         /\ Len(SubSeq(s, 1, n)) = n
         /\ \A i \in 1..n : SubSeq(s, 1, n)[i] = s[i]
<1>1. /\ SubSeq(s, 0 + 1, n) \in Seq(Nat)
      /\ Len(SubSeq(s, 0 + 1, n)) = n - 0
      /\ \A i \in 1..n - 0 : SubSeq(s, 0 + 1, n)[i] = s[0 + i]
  BY Piece
<1>2. 0 + 1 = 1 /\ n - 0 = n /\ \A i \in 1..n : 0 + i = i OBVIOUS
<1> QED BY <1>1, <1>2

\* Two sequences that begin alike have the same beginnings.
LEMMA SameStart ==
  ASSUME NEW s \in Seq(Nat), NEW t \in Seq(Nat), NEW n \in Nat,
         n <= Len(s), n <= Len(t), \A i \in 1..n : s[i] = t[i]
  PROVE  SubSeq(s, 1, n) = SubSeq(t, 1, n)
<1>1. /\ SubSeq(s, 1, n) \in Seq(Nat) /\ Len(SubSeq(s, 1, n)) = n
      /\ \A i \in 1..n : SubSeq(s, 1, n)[i] = s[i]
  BY Beginning
<1>2. /\ SubSeq(t, 1, n) \in Seq(Nat) /\ Len(SubSeq(t, 1, n)) = n
      /\ \A i \in 1..n : SubSeq(t, 1, n)[i] = t[i]
  BY Beginning
<1> QED BY <1>1, <1>2, SeqEqual

\* What was read before and what is in the buffer is one beginning.
LEMMA Glue ==
  ASSUME NEW w \in Seq(Nat), NEW r \in Seq(Nat), NEW b \in Seq(Nat), NEW d \in Nat,
         Len(r) + d <= Len(w), d <= Len(b),
         \A i \in 1..Len(r) : r[i] = w[i],
         \A i \in 1..d : b[i] = w[Len(r) + i]
  PROVE  r \o SubSeq(b, 1, d) = SubSeq(w, 1, Len(r) + d)
<1> DEFINE t == SubSeq(b, 1, d)
           n == Len(r) + d
<1>1. t \in Seq(Nat) /\ Len(t) = d /\ \A i \in 1..d : t[i] = b[i] BY Beginning
<1>2. n \in Nat BY LenProperties
<1>3. /\ SubSeq(w, 1, n) \in Seq(Nat) /\ Len(SubSeq(w, 1, n)) = n
      /\ \A i \in 1..n : SubSeq(w, 1, n)[i] = w[i]
  BY <1>2, Beginning
<1> HIDE DEF t
<1>4. /\ r \o t \in Seq(Nat) /\ Len(r \o t) = n
      /\ \A i \in 1..n : (r \o t)[i] = IF i <= Len(r) THEN r[i] ELSE t[i - Len(r)]
  <2>1. /\ r \o t \in Seq(Nat) /\ Len(r \o t) = Len(r) + Len(t)
        /\ \A i \in 1..Len(r) + Len(t) :
             (r \o t)[i] = IF i <= Len(r) THEN r[i] ELSE t[i - Len(r)]
    BY <1>1, ConcatProperties, Zenon
  <2> QED BY <1>1, <2>1, Zenon
<1>5. ASSUME NEW i \in 1..n PROVE (r \o t)[i] = w[i]
  <2>1. CASE i <= Len(r)
    <3>1. i \in 1..Len(r) BY <2>1, LenProperties
    <3> QED BY <1>4, <2>1, <3>1
  <2>2. CASE ~(i <= Len(r))
    <3>1. i - Len(r) \in 1..d /\ Len(r) + (i - Len(r)) = i BY <2>2, LenProperties
    <3>2. t[i - Len(r)] = w[i] BY <1>1, <3>1
    <3> QED BY <1>4, <2>2, <3>2
  <2> QED BY <2>1, <2>2
<1>6. r \o t = SubSeq(w, 1, n) BY <1>3, <1>4, <1>5, SeqEqual
<1> QED BY <1>6 DEF t

\* What has arrived at e is on the wire behind what it has read.
LEMMA ArrivedBytes ==
  ASSUME Typed, NEW e \in Ends, Flow(e)
  PROVE  /\ Arrived(e) \in Seq(Nat)
         /\ Len(Arrived(e)) = delivered[Peer(e)] - consumed[e]
         /\ \A i \in 1..Len(Arrived(e)) : Arrived(e)[i] = wire[Peer(e)][consumed[e] + i]
<1> DEFINE w == wire[Peer(e)] m == consumed[e] n == delivered[Peer(e)]
<1>1. w \in Seq(Nat) /\ m \in Nat /\ n \in Nat /\ m <= n /\ n <= Len(w)
  BY TwoEnds DEF Typed, Flow
<1>2. Arrived(e) = SubSeq(w, m + 1, n) BY DEF Arrived
<1> HIDE DEF w, m, n
<1>3. /\ SubSeq(w, m + 1, n) \in Seq(Nat)
      /\ Len(SubSeq(w, m + 1, n)) = n - m
      /\ \A i \in 1..n - m : SubSeq(w, m + 1, n)[i] = w[m + i]
  BY ONLY <1>1, Piece
<1>4. /\ Arrived(e) \in Seq(Nat) /\ Len(Arrived(e)) = n - m
      /\ \A i \in 1..n - m : Arrived(e)[i] = w[m + i]
  BY <1>2, <1>3
<1> QED BY <1>4 DEF w, m, n

\* What the reads of e have handed over is the beginning of the other's wire.
LEMMA HandedOverIsRead ==
  ASSUME Typed, NEW e \in Ends, Placed(e), Flow(e), Receiving(e)
  PROVE  read[e] \o HandedOver(e) = SubSeq(wire[Peer(e)], 1, consumed[e])
<1> DEFINE w == wire[Peer(e)] r == read[e] b == buf[e] d == done[e]
<1>1. /\ w \in Seq(Nat) /\ r \in Seq(Nat) /\ b \in Seq(Nat)
      /\ d \in Nat /\ size[e] \in Nat /\ consumed[e] \in Nat /\ start[e] \in Nat
      /\ copied[e] \in Nat /\ delivered[Peer(e)] \in Nat /\ Len(w) \in Nat
  BY TwoEnds, LenProperties DEF Typed
<1>2. consumed[e] <= Len(w) BY <1>1 DEF Flow
<1>3. CASE call[e] \in ReadCalls
  <2>1. d <= size[e] BY <1>1 DEF Placed
  <2>2. Min({d, size[e]}) = d BY <1>1, <2>1, MinOfTwo
  <2>3. HandedOver(e) = SubSeq(b, 1, d)
    BY <1>3, <2>2 DEF HandedOver, ReadCalls
  <2>4. /\ consumed[e] = Len(r) + d /\ d <= Len(b)
        /\ \A i \in 1..Len(r) : r[i] = w[i]
        /\ \A i \in 1..d : b[i] = w[Len(r) + i]
    BY <1>3, <2>1 DEF Receiving, Placed, RecvCalls
  <2> HIDE DEF w, r, b, d
  <2>5. r \o SubSeq(b, 1, d) = SubSeq(w, 1, Len(r) + d)
    <3>1. Len(r) + d <= Len(w) BY <1>2, <2>4
    <3>2. w \in Seq(Nat) /\ r \in Seq(Nat) /\ b \in Seq(Nat) /\ d \in Nat BY <1>1
    <3>3. d <= Len(b) BY <2>4
    <3>4. \A i \in 1..Len(r) : r[i] = w[i] BY <2>4
    <3>5. \A i \in 1..d : b[i] = w[Len(r) + i] BY <2>4
    <3> QED BY ONLY <3>1, <3>2, <3>3, <3>4, <3>5, Glue, Zenon
  <2> QED BY <2>3, <2>4, <2>5 DEF w, r
<1>4. CASE call[e] \notin ReadCalls
  <2>1. HandedOver(e) = <<>> BY <1>4 DEF HandedOver, ReadCalls
  <2>2. Len(r) = consumed[e] /\ \A i \in 1..consumed[e] : r[i] = w[i]
    BY <1>4 DEF Receiving
  <2>3. r \o HandedOver(e) = r BY <1>1, <2>1, ConcatEmptySeq
  <2> HIDE DEF w, r
  <2>4. SubSeq(r, 1, consumed[e]) = SubSeq(w, 1, consumed[e])
    BY <1>1, <1>2, <2>2, SameStart
  <2>5. SubSeq(r, 1, consumed[e]) = r BY <1>1, <2>2, SubSeqFull
  <2> QED BY <2>3, <2>4, <2>5 DEF w, r
<1> QED BY <1>3, <1>4

-----------------------------------------------------------------------------
(* What a step at one end leaves of the invariant at the other. *)

\* Nothing of the data of end x changes but what is on the way to it.
DataSame(x) ==
  /\ wire'[x] = wire[x] /\ consumed'[x] = consumed[x]
  /\ pc'[x] = pc[x] /\ call'[x] = call[x] /\ ret'[x] = ret[x]
  /\ done'[x] = done[x] /\ copied'[x] = copied[x] /\ size'[x] = size[x]
  /\ base'[x] = base[x] /\ start'[x] = start[x]
  /\ buf'[x] = buf[x] /\ read'[x] = read[x] /\ peeked'[x] = peeked[x]

\* More is sent and delivered by end x.
Grows(x) ==
  /\ Len(wire[x]) <= Len(wire'[x])
  /\ \A i \in 1..Len(wire[x]) : wire'[x][i] = wire[x][i]
  /\ delivered[x] <= delivered'[x] /\ delivered'[x] <= Len(wire'[x])

LEMMA DataKept ==
  ASSUME Typed, Typed', NEW x \in Ends, DataInv(x), DataSame(x), Grows(Peer(x))
  PROVE  DataInv(x)'
<1> DEFINE p == Peer(x)
<1>1. p \in Ends BY TwoEnds
<1>2. /\ done[x] \in Nat /\ copied[x] \in Nat /\ size[x] \in Nat /\ start[x] \in Nat
      /\ consumed[x] \in Nat /\ delivered[p] \in Nat /\ delivered'[p] \in Nat
      /\ Len(wire[p]) \in Nat /\ Len(wire'[p]) \in Nat
      /\ Len(read[x]) \in Nat /\ Len(peeked[x]) \in Nat
  BY <1>1, LenProperties DEF Typed
<1>3. Placed(x)' BY DEF DataInv, DataSame, Placed
<1>4. Flow(x)' BY <1>2 DEF DataInv, DataSame, Grows, Flow
<1>5. Sending(x)' BY DEF DataInv, DataSame, Sending, Sent, Put
<1>6. \A j \in 1..Len(wire[p]) : wire'[p][j] = wire[p][j] BY DEF Grows
<1>7. Receiving(x)'
  <2>1. ASSUME call[x] \in ReadCalls, NEW i \in 1..done[x]
        PROVE  wire'[p][start[x] + i] = wire[p][start[x] + i]
    <3>1. consumed[x] = start[x] + done[x] BY <2>1 DEF DataInv, Receiving
    <3>2. consumed[x] <= Len(wire[p]) BY <1>2 DEF DataInv, Flow
    <3>3. start[x] + done[x] <= Len(wire[p]) BY <3>1, <3>2
    <3>4. start[x] + i \in 1..Len(wire[p]) BY <1>2, <3>3, Within
    <3> QED BY <1>6, <3>4
  <2>2. ASSUME NEW i \in 1..Len(read[x]) PROVE wire'[p][i] = wire[p][i]
    <3>1. Len(read[x]) <= consumed[x] BY <1>2 DEF DataInv, Receiving
    <3>2. i \in 1..Len(wire[p]) BY <1>2, <3>1 DEF DataInv, Flow
    <3> QED BY <1>6, <3>2
  <2> QED BY <2>1, <2>2 DEF DataInv, DataSame, Receiving
<1>8. Peeked(x)'
  <2>1. ASSUME NEW i \in 1..Len(peeked[x])
        PROVE  wire'[p][consumed[x] + i] = wire[p][consumed[x] + i]
    <3>1. consumed[x] + Len(peeked[x]) <= Len(wire[p]) BY <1>2 DEF DataInv, Peeked, Flow
    <3>2. consumed[x] + i \in 1..Len(wire[p]) BY <1>2, <3>1, Within
    <3> QED BY <1>6, <3>2
  <2>2. consumed[x] + Len(peeked[x]) <= delivered'[p] BY <1>2 DEF DataInv, Peeked, Grows
  <2>3. \A i \in 1..Len(peeked[x]) : peeked[x][i] = wire'[p][consumed[x] + i]
    BY <2>1 DEF DataInv, Peeked
  <2> QED BY <2>2, <2>3 DEF DataSame, Peeked
<1> QED BY <1>3, <1>4, <1>5, <1>7, <1>8 DEF DataInv

\* A network that does not move grows, too.
LEMMA StillGrows ==
  ASSUME Inv, NEW x \in Ends, wire'[x] = wire[x], delivered'[x] = delivered[x]
  PROVE  Grows(x)
<1>1. /\ Peer(x) \in Ends /\ Peer(Peer(x)) = x /\ Flow(Peer(x))
  BY TwoEnds DEF Inv, EndInv, DataInv
<1>2. Len(wire[x]) \in Nat /\ delivered[x] \in Nat BY LenProperties DEF Inv, Typed
<1> QED BY <1>1, <1>2 DEF Grows, Flow

\* What decides that a stream has ended stays as it is.
ConnSame(x) ==
  /\ soErr'[x] = soErr[x] /\ broken'[x] = broken[x] /\ eof'[x] = eof[x]
  /\ rdShut'[x] = rdShut[x] /\ wrShut'[x] = wrShut[x]
  /\ closed'[x] = closed[x] /\ asked'[x] = asked[x]

-----------------------------------------------------------------------------
(* Steps that touch no data: options, destruction and the network. *)

DataVars == <<wire, consumed, pc, call, ret, done, copied, size, base, start, buf, read, peeked>>

LEMMA NoDataStep ==
  ASSUME Inv, Typed', UNCHANGED DataVars, \A x \in Ends : Grows(x) /\ Closing(x)'
  PROVE  Inv'
<1>1. ASSUME NEW x \in Ends PROVE EndInv(x)'
  <2>1. DataSame(x) BY DEF DataSame, DataVars
  <2>2. DataInv(x)' BY <2>1, DataKept, TwoEnds DEF Inv, EndInv
  <2> QED BY <2>2 DEF EndInv
<1> QED BY <1>1 DEF Inv

LEMMA OptionSteps ==
  ASSUME Inv, NEW e \in Ends,
         \/ \E nb \in BOOLEAN : setNonBlocking(e, nb)
         \/ \E t \in Lingers : setLinger(e, t)
  PROVE  Inv'
<1>1. UNCHANGED <<net, conn, pc, args, done, copied, buf, hist, ret>>
  BY DEF setNonBlocking, setLinger
<1>2. Typed' BY <1>1 DEF Inv, Typed, net, conn, args, hist
<1>3. UNCHANGED DataVars BY <1>1 DEF DataVars, net, args, hist
<1>4. \A x \in Ends : Grows(x) BY <1>1, StillGrows DEF net
<1>5. \A x \in Ends : Closing(x)'
  BY <1>1 DEF Inv, EndInv, Closing, ToldClosed, net, conn, args, hist
<1> QED BY <1>2, <1>3, <1>4, <1>5, NoDataStep

LEMMA DestroyStep == ASSUME Inv, NEW e \in Ends, destroy(e) PROVE Inv'
<1>1. Typed' BY DEF Inv, Typed, destroy, net, args, hist
<1>2. UNCHANGED DataVars BY DEF destroy, DataVars, net, args, hist
<1>3. \A x \in Ends : Grows(x) BY StillGrows DEF destroy, net
<1>4. ASSUME NEW x \in Ends PROVE Closing(x)'
  <2>1. Closing(x) /\ Peer(x) \in Ends BY TwoEnds DEF Inv, EndInv
  <2>2. wrShut[Peer(x)] => wrShut'[Peer(x)] BY <2>1 DEF destroy, Inv, Typed
  <2>3. wrShut'[x] => wrShut[x] \/ closed'[x] BY DEF destroy, Inv, Typed
  <2>4. closed[x] => closed'[x] BY DEF destroy, Inv, Typed
  <2> QED BY <2>1, <2>2, <2>3, <2>4 DEF Closing, ToldClosed, destroy, net, args, hist
<1> QED BY <1>1, <1>2, <1>3, <1>4, NoDataStep

LEMMA DeliverStep == ASSUME Inv, NEW e \in Ends, deliver(e) PROVE Inv'
<1>1. Typed'
  <2>1. delivered' \in [Ends -> Nat]
    <3>1. CASE closed[Peer(e)] BY <3>1 DEF Inv, Typed, deliver
    <3>2. CASE ~closed[Peer(e)]
      <4>1. delivered' = [delivered EXCEPT ![e] = @ + 1] BY <3>2 DEF deliver
      <4> QED BY <4>1 DEF Inv, Typed
    <3> QED BY <3>1, <3>2
  <2>2. soErr' \in [Ends -> {NoOs, "EPIPE", "ECONNRESET"}]
    <3>1. soErr \in [Ends -> {NoOs, "EPIPE", "ECONNRESET"}] BY DEF Inv, Typed
    <3>2. CASE closed[Peer(e)] BY <3>1, <3>2 DEF deliver, Break
    <3>3. CASE ~closed[Peer(e)] BY <3>1, <3>3 DEF deliver
    <3> QED BY <3>2, <3>3
  <2>3. broken' \in [Ends -> BOOLEAN] BY DEF Inv, Typed, deliver, Break
  <2> QED BY <2>1, <2>2, <2>3 DEF Inv, Typed, deliver, args, hist
<1>2. UNCHANGED DataVars BY DEF deliver, DataVars, args, hist
<1>3. ASSUME NEW x \in Ends PROVE Grows(x)
  <2>1. CASE delivered'[x] = delivered[x] BY <2>1, StillGrows DEF deliver
  <2>2. CASE delivered'[x] # delivered[x]
    <3>1. x = e /\ delivered' = [delivered EXCEPT ![e] = @ + 1] BY <2>2 DEF deliver, Inv, Typed
    <3>2. delivered[e] \in Nat /\ Len(wire[e]) \in Nat /\ delivered[e] < Len(wire[e])
      BY LenProperties DEF deliver, Inv, Typed
    <3>3. delivered'[e] = delivered[e] + 1 BY <3>1 DEF Inv, Typed
    <3> QED BY <3>1, <3>2, <3>3 DEF Grows, deliver
  <2> QED BY <2>1, <2>2
<1>4. ASSUME NEW x \in Ends PROVE Closing(x)'
  <2>1. Closing(x) /\ Peer(x) \in Ends /\ Peer(x) # x /\ Peer(Peer(x)) = x
    BY TwoEnds DEF Inv, EndInv
  <2>2. broken[x] => broken'[x] BY DEF deliver, Break, Inv, Typed
  <2>3. soErr'[x] # NoOs => broken'[x]
    <3>1. CASE closed[Peer(e)]
      <4>1. /\ broken' = [broken EXCEPT ![e] = TRUE]
            /\ \E os : soErr' = [soErr EXCEPT ![e] = os]
        BY <3>1 DEF deliver, Break
      <4>2. x = e => broken'[x] BY <4>1 DEF Inv, Typed
      <4>3. x # e => soErr'[x] = soErr[x] /\ broken'[x] = broken[x] BY <4>1 DEF Inv, Typed
      <4> QED BY <2>1, <4>2, <4>3 DEF Closing
    <3>2. CASE ~closed[Peer(e)] BY <2>1, <3>2 DEF deliver, Closing
    <3> QED BY <3>1, <3>2
  <2>4. eof[x] => delivered'[Peer(x)] = delivered[Peer(x)]
    <3>1. eof[x] => Peer(x) # e
      <4>1. delivered[e] < Len(wire[e]) BY DEF deliver
      <4>2. delivered[e] \in Nat /\ Len(wire[e]) \in Nat BY LenProperties DEF Inv, Typed
      <4> QED BY <2>1, <4>1, <4>2 DEF Closing
    <3> QED BY <2>1, <3>1 DEF deliver, Inv, Typed
  <2> QED BY <2>1, <2>2, <2>3, <2>4 DEF Closing, ToldClosed, deliver, args, hist
<1> QED BY <1>1, <1>2, <1>3, <1>4, NoDataStep

LEMMA DeliverFinStep == ASSUME Inv, NEW e \in Ends, deliverFin(e) PROVE Inv'
<1>1. Typed' BY TwoEnds DEF Inv, Typed, deliverFin, net, args, hist
<1>2. UNCHANGED DataVars BY DEF deliverFin, DataVars, net, args, hist
<1>3. \A x \in Ends : Grows(x) BY StillGrows DEF deliverFin, net
<1>4. ASSUME NEW x \in Ends PROVE Closing(x)'
  <2>1. Closing(x) /\ Peer(x) \in Ends /\ Peer(Peer(x)) = x BY TwoEnds DEF Inv, EndInv
  <2>2. eof[x] => eof'[x] BY TwoEnds DEF deliverFin, Inv, Typed
  <2>3. eof'[x] => eof[x] \/ Peer(x) = e BY TwoEnds DEF deliverFin, Inv, Typed
  <2> QED BY <2>1, <2>2, <2>3 DEF Closing, ToldClosed, deliverFin, net, args, hist
<1> QED BY <1>1, <1>2, <1>3, <1>4, NoDataStep

LEMMA LingerExpiresStep == ASSUME Inv, NEW e \in Ends, lingerExpires(e) PROVE Inv'
<1>1. /\ UNCHANGED <<net, wrShut, rdShut, eof, broken, soErr, closed, opts, pc, args, done,
                     copied, buf, hist, ret, signals>>
      /\ rst' = [rst EXCEPT ![e] = TRUE]
  BY DEF lingerExpires
<1>2. Typed' BY <1>1 DEF Inv, Typed, net, args, hist
<1>3. UNCHANGED DataVars BY <1>1 DEF DataVars, net, args, hist
<1>4. \A x \in Ends : Grows(x) BY <1>1, StillGrows DEF net
<1>5. \A x \in Ends : Closing(x)'
  BY <1>1 DEF Inv, EndInv, Closing, ToldClosed, net, args, hist
<1> QED BY <1>2, <1>3, <1>4, <1>5, NoDataStep

LEMMA DeliverRstStep == ASSUME Inv, NEW e \in Ends, deliverRst(e) PROVE Inv'
<1>1. Typed' BY TwoEnds DEF Inv, Typed, deliverRst, Break, net, args, hist
<1>2. UNCHANGED DataVars BY DEF deliverRst, DataVars, net, args, hist
<1>3. \A x \in Ends : Grows(x) BY StillGrows DEF deliverRst, net
<1>4. ASSUME NEW x \in Ends PROVE Closing(x)'
  <2>1. Closing(x) BY DEF Inv, EndInv
  <2>2. broken[x] => broken'[x] BY TwoEnds DEF deliverRst, Break, Inv, Typed
  <2>3. soErr'[x] # NoOs => broken'[x]
    BY <2>1, TwoEnds DEF deliverRst, Break, Inv, Typed, Closing
  <2> QED BY <2>1, <2>2, <2>3 DEF Closing, ToldClosed, deliverRst, net, args, hist
<1> QED BY <1>1, <1>2, <1>3, <1>4, NoDataStep

-----------------------------------------------------------------------------
(* Steps of one end on its own data. *)

\* The other end sees nothing of a step that leaves its variables alone.
LEMMA OtherEnd ==
  ASSUME Inv, Typed', NEW e \in Ends, DataInv(e)', Closing(e)', Grows(e),
         DataSame(Peer(e)), ConnSame(Peer(e)), Grows(Peer(e)),
         delivered'[e] = delivered[e], wrShut[e] => wrShut'[e], eof[Peer(e)] => wire'[e] = wire[e]
  PROVE  Inv'
<1> DEFINE p == Peer(e)
<1>1. p \in Ends /\ Peer(p) = e /\ \A x \in Ends : x = e \/ x = p BY TwoEnds
<1>2. EndInv(p) BY <1>1 DEF Inv
<1>3. DataInv(p)' BY <1>1, <1>2, DataKept DEF EndInv, Inv
<1>4. Closing(p)'
  <2>1. /\ ToldClosed(p)' => ToldClosed(p) /\ consumed'[p] = consumed[p]
        /\ eof'[p] = eof[p]
    BY DEF DataSame, ConnSame, ToldClosed
  <2> QED BY <1>1, <1>2, <2>1 DEF EndInv, Closing, ConnSame
<1> QED BY <1>1, <1>3, <1>4 DEF Inv, EndInv

Errnos == {"EWOULDBLOCK", "EPIPE", "ECONNRESET", "ESHUTDOWN"}

\* What comes of a result: the number moved is added, and the call ends or goes
\* round its loop with something left.
LEMMA Finished ==
  ASSUME Inv, NEW e \in Ends, NEW res \in Int, NEW errno, Finish(e, res, errno),
         res >= 0 => done[e] + res <= size[e],
         res < 0 => errno \in Errnos \/ (errno = "EINTR" /\ Platform = "unix"),
         Loops(call[e]) => done[e] < size[e],
         pc[e] # "idle"
  PROVE  /\ done' = [done EXCEPT ![e] = IF res > 0 THEN @ + res ELSE @]
         /\ copied' = [copied EXCEPT ![e] = 0]
         /\ \A x \in Ends \ {e} : pc'[x] = pc[x] /\ ret'[x] = ret[x]
         /\ pc' \in [Ends -> {"idle", "send", "recv"}] /\ DOMAIN ret' = Ends
         /\ pc'[e] \in {pc[e], "idle"}
         /\ pc'[e] # "idle" => Loops(call[e]) /\ done'[e] < size[e] /\ ret' = ret
         /\ pc'[e] = "idle" => ret'[e] = ioResult(res, errno)
         /\ pc'[e] = "idle" /\ Loops(call[e]) =>
              /\ ret'[e].ok => done'[e] = size[e]
              /\ ret'[e] # Err(fromOs("EINTR"))
<1> DEFINE r == ioResult(res, errno)
           loop == Loops(call[e]) /\ (IF r.ok THEN Advance(e, res) < size[e] ELSE goesOn(r.err))
<1>1. /\ done' = [done EXCEPT ![e] = Advance(e, res)]
      /\ copied' = [copied EXCEPT ![e] = 0]
      /\ pc' = IF loop THEN pc ELSE [pc EXCEPT ![e] = "idle"]
      /\ ret' = IF loop THEN ret ELSE [ret EXCEPT ![e] = r]
  BY DEF Finish
<1>2. /\ done \in [Ends -> Nat] /\ size[e] \in Nat /\ done[e] \in Nat
      /\ pc \in [Ends -> {"idle", "send", "recv"}] /\ DOMAIN ret = Ends
  BY DEF Inv, Typed
<1>3. /\ res > 0 => r = Ok
      /\ res = 0 => r = Err(Error("ConnectionClosed"))
      /\ res < 0 => r = Err(lastOsError(Platform, errno))
  BY DEF ioResult
<1>4. r.ok <=> res > 0 BY <1>3 DEF Ok, Err
<1>5. done'[e] = Advance(e, res) BY <1>1, <1>2
<1>6. res <= 0 => done'[e] = done[e] BY <1>5 DEF Advance
<1>7. loop => done'[e] < size[e]
  <2>1. CASE res > 0 BY <1>4, <1>5, <2>1
  <2>2. CASE res <= 0 BY <1>6, <2>2
  <2> QED BY <2>1, <2>2
<1>8. ~loop /\ Loops(call[e]) => /\ r.ok => done'[e] = size[e]
                                 /\ r # Err(fromOs("EINTR"))
  <2>1. CASE res > 0
    <3>1. Advance(e, res) <= size[e] /\ Advance(e, res) \in Int BY <1>2, <2>1 DEF Advance
    <3>2. ~(Ok = Err(fromOs("EINTR"))) BY DEF Ok, Err
    <3> QED BY <1>2, <1>3, <1>4, <1>5, <2>1, <3>1, <3>2
  <2>2. CASE res = 0
    <3>1. Error("ConnectionClosed") # fromOs("EINTR") BY DEF Error, fromOs, NoOs
    <3> QED BY <1>3, <1>4, <2>2, <3>1 DEF Err
  <2>3. CASE res < 0
    <3>1. CASE errno \in Errnos
      BY <1>3, <1>4, <2>3, <3>1, ErrorsAreNamed DEF Errnos, Err
    <3>2. CASE errno = "EINTR" /\ Platform = "unix"
      <4>1. r.err = fromOs("EINTR") BY <1>3, <2>3, <3>2, ErrorsAreNamed DEF Err
      <4> QED BY <1>4, <2>3, <3>2, <4>1 DEF goesOn
    <3> QED BY <2>3, <3>1, <3>2
  <2> QED BY <2>1, <2>2, <2>3
<1>9. done' = [done EXCEPT ![e] = IF res > 0 THEN @ + res ELSE @] BY <1>1, <1>2 DEF Advance
<1> HIDE DEF r, loop
<1>10. CASE loop
  BY <1>1, <1>2, <1>7, <1>9, <1>10 DEF loop
<1>11. CASE ~loop
  <2>1. pc'[e] = "idle" /\ ret'[e] = r BY <1>1, <1>2, <1>11
  <2> QED BY <1>1, <1>2, <1>8, <1>9, <1>11, <2>1 DEF r
<1> QED BY <1>10, <1>11

\* Both ends keep what they have while a result is taken in at end e.
LEMMA SendFinishes ==
  ASSUME Inv, NEW e \in Ends, pc[e] = "send", NEW res \in Int, NEW errno,
         Finish(e, res, errno),
         res = copied[e] \/ (res = -1 /\ copied[e] = 0),
         res < 0 => errno \in Errnos \/ (errno = "EINTR" /\ Platform = "unix"),
         UNCHANGED <<net, wrShut, rdShut, eof, broken, closed, args, buf, hist>>,
         soErr' \in [Ends -> {NoOs, "EPIPE", "ECONNRESET"}],
         \A x \in Ends : soErr'[x] = soErr[x] \/ (x = e /\ soErr'[x] = NoOs)
  PROVE  Inv'
<1>1. /\ Placed(e) /\ Flow(e) /\ Sending(e) /\ Receiving(e) /\ Peeked(e) /\ Closing(e)
      /\ Peer(e) \in Ends /\ Peer(e) # e
  BY TwoEnds DEF Inv, EndInv, DataInv
<1>2. /\ done[e] \in Nat /\ copied[e] \in Nat /\ size[e] \in Nat /\ base[e] \in Nat
      /\ done \in [Ends -> Nat] /\ copied \in [Ends -> Nat] /\ call[e] \in SendCalls
  BY <1>1 DEF Inv, Typed, Placed
<1>3. done[e] + copied[e] <= size[e] BY <1>1 DEF Placed
<1>4. /\ done' = [done EXCEPT ![e] = IF res > 0 THEN @ + res ELSE @]
      /\ copied' = [copied EXCEPT ![e] = 0]
      /\ \A x \in Ends \ {e} : pc'[x] = pc[x] /\ ret'[x] = ret[x]
      /\ pc' \in [Ends -> {"idle", "send", "recv"}] /\ DOMAIN ret' = Ends
      /\ pc'[e] \in {"send", "idle"}
      /\ pc'[e] # "idle" => Loops(call[e]) /\ done'[e] < size[e] /\ ret' = ret
      /\ pc'[e] = "idle" /\ Loops(call[e]) =>
           /\ ret'[e].ok => done'[e] = size[e]
           /\ ret'[e] # Err(fromOs("EINTR"))
  <2>1. Loops(call[e]) => done[e] < size[e] BY <1>1 DEF Placed
  <2>2. res >= 0 => done[e] + res <= size[e] BY <1>2, <1>3
  <2> QED BY <1>2, <2>1, <2>2, Finished
<1>5. done'[e] = done[e] + copied[e] /\ copied'[e] = 0 BY <1>2, <1>4
<1>6. Typed'
  <2>1. done' \in [Ends -> Nat] /\ copied' \in [Ends -> Nat] BY <1>2, <1>4, <1>5
  <2> QED BY <1>4, <2>1 DEF Inv, Typed, net, args, hist
<1>7. call' = call /\ size' = size /\ base' = base /\ start' = start /\ wire' = wire
  BY DEF args, net
<1>8. Placed(e)'
  BY <1>2, <1>3, <1>4, <1>5, <1>7 DEF Placed, SendCalls, RecvCalls, ReadCalls
<1>9. Flow(e)' BY <1>1 DEF Flow, net
<1>10. Sending(e)'
  <2>1. Put(e)' = Put(e) BY <1>2, <1>5, <1>7 DEF Put
  <2>2. Sent(e) = size[e] BY <1>2 DEF Sent, SendCalls
  <2>3. Sent(e)' <= size[e] /\ Sent(e)' \in Nat BY <1>2, <1>3, <1>5, <1>7 DEF Sent
  <2>4. base[e] + Sent(e)' <= MaxBytes BY <1>1, <1>2, <2>2, <2>3, IOAssumption DEF Sending
  <2> QED BY <1>1, <1>7, <2>1, <2>4 DEF Sending
<1>11. Receiving(e)' BY <1>1, <1>2, <1>7 DEF Receiving, net, hist, SendCalls, ReadCalls
<1>12. Peeked(e)' BY <1>1 DEF Peeked, net, hist
<1>13. Closing(e)'
  <2>1. ~ToldClosed(e)' BY <1>2, <1>7 DEF ToldClosed, SendCalls
  <2> QED BY <1>1, <2>1 DEF Closing, net, hist
<1>14. \A x \in Ends : Grows(x) BY StillGrows DEF net
<1>15. DataSame(Peer(e)) /\ ConnSame(Peer(e))
  BY <1>1, <1>2, <1>4 DEF DataSame, ConnSame, net, args, hist
<1> QED BY <1>1, <1>6, <1>7, <1>8, <1>9, <1>10, <1>11, <1>12, <1>13, <1>14, <1>15, OtherEnd
        DEF DataInv, net

LEMMA SendSteps ==
  ASSUME Inv, NEW e \in Ends,
         \/ sendReturns(e) \/ sendInterrupted(e)
         \/ \E errno \in {"EWOULDBLOCK", "EPIPE", "ECONNRESET"} : sendFails(e, errno)
  PROVE  Inv'
<1> DEFINE Same == UNCHANGED <<net, wrShut, rdShut, eof, broken, closed, args, buf, hist>>
           Error0 == /\ soErr' \in [Ends -> {NoOs, "EPIPE", "ECONNRESET"}]
                     /\ \A x \in Ends : soErr'[x] = soErr[x] \/ (x = e /\ soErr'[x] = NoOs)
<1>a. copied[e] \in Int /\ copied[e] >= 0 /\ -1 \in Int BY DEF Inv, Typed
<1>b. ASSUME UNCHANGED <<net, conn, args, buf, hist>> PROVE Same /\ Error0
  BY <1>b DEF conn, Inv, Typed
<1>1. CASE sendReturns(e)
  <2>1. pc[e] = "send" /\ Finish(e, copied[e], NoOs) BY <1>1 DEF sendReturns
  <2>2. Same /\ Error0 BY <1>1, <1>b DEF sendReturns
  <2> QED BY <1>a, <2>1, <2>2, SendFinishes
<1>2. CASE sendInterrupted(e)
  <2>1. pc[e] = "send" /\ Platform = "unix" BY <1>2 DEF sendInterrupted
  <2>2. Same /\ Error0 BY <1>2, <1>b DEF sendInterrupted
  <2>3. CASE copied[e] > 0
    <3>1. Finish(e, copied[e], NoOs) BY <1>2, <2>3 DEF sendInterrupted
    <3> QED BY <1>a, <2>1, <2>2, <3>1, SendFinishes
  <2>4. CASE copied[e] = 0
    <3>1. Finish(e, -1, "EINTR") BY <1>2, <2>4 DEF sendInterrupted
    <3> QED BY <1>a, <2>1, <2>2, <2>4, <3>1, SendFinishes
  <2> QED BY <1>a, <2>3, <2>4
<1>3. ASSUME NEW errno \in {"EWOULDBLOCK", "EPIPE", "ECONNRESET"}, sendFails(e, errno)
      PROVE  Inv'
  <2>1. /\ soErr' \in [Ends -> {NoOs, "EPIPE", "ECONNRESET"}]
        /\ \A x \in Ends : soErr'[x] = soErr[x] \/ (x = e /\ soErr'[x] = NoOs)
    BY <1>3 DEF sendFails, Inv, Typed
  <2>2. errno \in Errnos BY <1>3 DEF Errnos
  <2> QED BY <1>3, <2>1, <2>2, SendFinishes DEF sendFails
<1> QED BY <1>1, <1>2, <1>3

\* One byte more is on the wire, and it is the next one.
LEMMA CopyStep == ASSUME Inv, NEW e \in Ends, copyByte(e) PROVE Inv'
<1> DEFINE b == base[e] + SendFrom(e) + copied[e] + 1
<1>1. /\ Placed(e) /\ Flow(e) /\ Sending(e) /\ Receiving(e) /\ Peeked(e) /\ Closing(e)
      /\ Peer(e) \in Ends /\ Peer(e) # e /\ Peer(Peer(e)) = e
      /\ Flow(Peer(e)) /\ Closing(Peer(e))
  BY TwoEnds DEF Inv, EndInv, DataInv
<1>s. wire[e] \in Seq(Nat) /\ wire \in [Ends -> Seq(Nat)] BY DEF Inv, Typed
<1>2. /\ done[e] \in Nat /\ copied[e] \in Nat /\ size[e] \in Nat /\ base[e] \in Nat
      /\ start[e] \in Nat /\ copied \in [Ends -> Nat] /\ delivered[e] \in Nat
      /\ call[e] \in SendCalls /\ Len(wire[e]) \in Nat
  BY <1>1, LenProperties DEF Inv, Typed, Placed, copyByte
<1>3. b \in Nat /\ b = base[e] + Put(e) + 1 BY <1>2 DEF SendFrom, Put
<1>4. wire' = [wire EXCEPT ![e] = Append(wire[e], b)] /\ copied'[e] = copied[e] + 1
  BY <1>2, <1>s DEF copyByte
<1> HIDE DEF b
<1>5. /\ wire'[e] \in Seq(Nat) /\ Len(wire'[e]) = Len(wire[e]) + 1
      /\ \A i \in 1..Len(wire[e]) : wire'[e][i] = wire[e][i]
      /\ wire'[e][Len(wire[e]) + 1] = b
  <2>1. wire'[e] = Append(wire[e], b) BY <1>s, <1>4
  <2> QED BY <1>s, <1>3, <2>1, AppendProperties
<1>5a. /\ Len(wire'[e]) = Len(wire[e]) + 1 /\ wire'[e][Len(wire[e]) + 1] = b
       /\ \A i \in 1..Len(wire[e]) : wire'[e][i] = wire[e][i]
  BY <1>5
<1>6. Typed'
  <2>1. wire' \in [Ends -> Seq(Nat)] BY <1>s, <1>4, <1>5
  <2>2. copied' \in [Ends -> Nat] BY <1>2 DEF copyByte
  <2> QED BY <2>1, <2>2 DEF Inv, Typed, copyByte, conn, args, hist
<1>6a. call' = call /\ done' = done /\ base' = base /\ start' = start /\ size' = size
  BY DEF copyByte, args
<1>7. PICK n \in Nat : Put(e) = n /\ Put(e)' = n + 1
  <2>1. Put(e) = done[e] + copied[e] /\ Put(e)' = done[e] + (copied[e] + 1)
    BY <1>2, <1>4, <1>6a DEF Put
  <2>2. done[e] + copied[e] \in Nat /\ done[e] + (copied[e] + 1) = (done[e] + copied[e]) + 1
    BY <1>2
  <2> QED BY <2>1, <2>2
<1>8. Placed(e)'
  <2>1. done[e] + (copied[e] + 1) <= size[e] BY <1>2 DEF copyByte
  <2> QED BY <1>1, <1>4, <1>6a, <2>1 DEF Placed, copyByte
<1>9. Flow(e)' BY <1>1, <1>2, <1>4 DEF Flow, copyByte, Inv, Typed
<1>10. Sending(e)'
  <2>1. Sent(e)' = Sent(e) BY <1>6a DEF Sent, copyByte
  <2>2. Len(wire[e]) = start[e] + n BY <1>1, <1>2, <1>7 DEF Sending
  <2>3. ASSUME NEW i \in 1..Len(wire'[e])
        PROVE  1 <= wire'[e][i] /\ wire'[e][i] <= base[e] + (n + 1)
    <3>1. CASE i = Len(wire[e]) + 1
      <4>1. wire'[e][i] = base[e] + n + 1 BY <1>3, <1>5a, <1>7, <3>1
      <4> QED BY <1>2, <4>1
    <3>2. CASE i # Len(wire[e]) + 1
      <4>1. i \in 1..Len(wire[e]) BY <1>2, <1>5a, <3>2
      <4>2. wire[e][i] \in Nat BY <1>s, <4>1, ElementOfSeq
      <4>3. 1 <= wire[e][i] /\ wire[e][i] <= base[e] + n BY <1>1, <1>7, <4>1 DEF Sending
      <4>4. wire'[e][i] = wire[e][i] BY <1>5a, <4>1
      <4> QED BY <1>2, <4>2, <4>3, <4>4
    <3> QED BY <3>1, <3>2
  <2>4. ASSUME NEW i \in 1..n + 1 PROVE wire'[e][start[e] + i] = base[e] + i
    <3>1. CASE i = n + 1
      <4>1. start[e] + i = Len(wire[e]) + 1 BY <1>2, <2>2, <3>1
      <4>2. wire'[e][start[e] + i] = base[e] + n + 1
        <5>1. b = base[e] + n + 1 BY <1>3, <1>7
        <5> QED BY <1>5a, <4>1, <5>1
      <4>3. base[e] + n + 1 = base[e] + i BY <1>2, <3>1
      <4> QED BY <4>2, <4>3
    <3>2. CASE i # n + 1
      <4>1. i \in 1..n BY <3>2
      <4>2. start[e] + i \in 1..Len(wire[e]) BY <1>2, <2>2, <4>1
      <4>3. wire[e][start[e] + i] = base[e] + i BY <1>1, <1>2, <1>7, <4>1 DEF Sending
      <4> QED BY <1>5a, <4>2, <4>3
    <3> QED BY <3>1, <3>2
  <2>5. Len(wire'[e]) = start[e] + (n + 1) BY <1>2, <1>5a, <2>2
  <2> QED BY <1>1, <1>6a, <1>7, <2>1, <2>3, <2>4, <2>5 DEF Sending
<1>11. wire'[Peer(e)] = wire[Peer(e)] /\ copied'[Peer(e)] = copied[Peer(e)]
  BY <1>1, <1>2, <1>s, <1>4 DEF copyByte
<1>12. Receiving(e)' BY <1>1, <1>11 DEF Receiving, copyByte, args, hist
<1>13. Peeked(e)' BY <1>1, <1>11 DEF Peeked, copyByte, args, hist
<1>14. Closing(e)' BY <1>1, <1>11 DEF Closing, ToldClosed, copyByte, conn, args, hist
<1>15. Grows(e)
  <2>1. delivered'[e] = delivered[e] /\ delivered[e] <= Len(wire[e]) BY <1>1 DEF Flow, copyByte
  <2>2. delivered[e] <= Len(wire[e]) + 1 BY <1>2, <2>1
  <2> QED BY <1>2, <1>5a, <2>1, <2>2 DEF Grows
<1>16. Grows(Peer(e)) BY <1>1, <1>11, StillGrows DEF copyByte
<1>17. DataSame(Peer(e)) /\ ConnSame(Peer(e))
  BY <1>11 DEF DataSame, ConnSame, copyByte, conn, args, hist
<1>18. ~eof[Peer(e)] BY <1>1 DEF Closing, copyByte, CanWrite
<1> QED BY <1>6, <1>8, <1>9, <1>10, <1>12, <1>13, <1>14, <1>15, <1>16, <1>17, <1>18, OtherEnd
        DEF DataInv, copyByte, conn

\* A receive that brings nothing: the end of the stream, an error or a signal.
LEMMA RecvFinishes ==
  ASSUME Inv, NEW e \in Ends, pc[e] = "recv", NEW res \in {0, -1}, NEW errno,
         Finish(e, res, errno),
         res < 0 => errno \in Errnos \/ (errno = "EINTR" /\ Platform = "unix"),
         res = 0 => \/ rdShut[e] \/ broken[e]
                    \/ eof[e] /\ consumed[e] = Len(wire[Peer(e)]),
         UNCHANGED <<net, wrShut, rdShut, eof, broken, closed, args, buf, hist>>,
         soErr' \in [Ends -> {NoOs, "EPIPE", "ECONNRESET"}],
         \A x \in Ends : soErr'[x] = soErr[x] \/ (x = e /\ soErr'[x] = NoOs)
  PROVE  Inv'
<1>1. /\ Placed(e) /\ Flow(e) /\ Sending(e) /\ Receiving(e) /\ Peeked(e) /\ Closing(e)
      /\ Peer(e) \in Ends /\ Peer(e) # e
  BY TwoEnds DEF Inv, EndInv, DataInv
<1>2. /\ done[e] \in Nat /\ copied[e] = 0 /\ size[e] \in Nat
      /\ done \in [Ends -> Nat] /\ copied \in [Ends -> Nat] /\ call[e] \in RecvCalls
  BY <1>1 DEF Inv, Typed, Placed
<1>3. done[e] <= size[e] BY <1>1, <1>2 DEF Placed
<1>4. /\ done' = [done EXCEPT ![e] = IF res > 0 THEN @ + res ELSE @]
      /\ copied' = [copied EXCEPT ![e] = 0]
      /\ \A x \in Ends \ {e} : pc'[x] = pc[x] /\ ret'[x] = ret[x]
      /\ pc' \in [Ends -> {"idle", "send", "recv"}] /\ DOMAIN ret' = Ends
      /\ pc'[e] \in {"recv", "idle"}
      /\ pc'[e] # "idle" => Loops(call[e]) /\ done'[e] < size[e] /\ ret' = ret
      /\ pc'[e] = "idle" => ret'[e] = ioResult(res, errno)
      /\ pc'[e] = "idle" /\ Loops(call[e]) =>
           /\ ret'[e].ok => done'[e] = size[e]
           /\ ret'[e] # Err(fromOs("EINTR"))
  <2>1. Loops(call[e]) => done[e] < size[e] BY <1>1 DEF Placed
  <2>2. res >= 0 => done[e] + res <= size[e] BY <1>2, <1>3
  <2> QED BY <1>2, <2>1, <2>2, Finished
<1>5. done' = done /\ copied' = copied BY <1>2, <1>4
<1>6. Typed' BY <1>4, <1>5 DEF Inv, Typed, net, args, hist
<1>7. /\ call' = call /\ size' = size /\ base' = base /\ start' = start
      /\ wire' = wire /\ consumed' = consumed /\ buf' = buf
  BY DEF args, net
<1>8. Placed(e)'
  BY <1>1, <1>2, <1>3, <1>4, <1>5, <1>7 DEF Placed, SendCalls, RecvCalls, ReadCalls
<1>9. Flow(e)' BY <1>1 DEF Flow, net
<1>10. Sending(e)'
  BY <1>1, <1>2, <1>5, <1>7 DEF Sending, Sent, Put, SendCalls, RecvCalls, ReadCalls
<1>11. Receiving(e)' BY <1>1, <1>5, <1>7 DEF Receiving, hist
<1>12. Peeked(e)' BY <1>1 DEF Peeked, net, hist
<1>13. Closing(e)'
  <2>1. ToldClosed(e)' => res = 0
    <3>1. ToldClosed(e)' => pc'[e] = "idle" /\ ret'[e] = Err(Error("ConnectionClosed"))
      BY DEF ToldClosed
    <3>2. res < 0 => ioResult(res, errno) = Err(lastOsError(Platform, errno)) BY DEF ioResult
    <3>3. res < 0 => lastOsError(Platform, errno) # Error("ConnectionClosed")
      BY ErrorsAreNamed DEF Errnos
    <3> QED BY <1>4, <3>1, <3>2, <3>3 DEF Err
  <2>2. soErr'[e] # NoOs => broken'[e] BY <1>1 DEF Closing
  <2> QED BY <1>1, <1>7, <2>1, <2>2 DEF Closing, net, hist
<1>14. \A x \in Ends : Grows(x) BY StillGrows DEF net
<1>15. DataSame(Peer(e)) /\ ConnSame(Peer(e))
  BY <1>1, <1>4, <1>5 DEF DataSame, ConnSame, net, args, hist
<1> QED BY <1>1, <1>6, <1>7, <1>8, <1>9, <1>10, <1>11, <1>12, <1>13, <1>14, <1>15, OtherEnd
        DEF DataInv, net

LEMMA RecvSteps ==
  ASSUME Inv, NEW e \in Ends,
         \/ recvEnds(e) \/ recvInterrupted(e)
         \/ \E errno \in Errnos : recvFails(e, errno)
  PROVE  Inv'
<1> DEFINE Same == UNCHANGED <<net, wrShut, rdShut, eof, broken, closed, args, buf, hist>>
           Error0 == /\ soErr' \in [Ends -> {NoOs, "EPIPE", "ECONNRESET"}]
                     /\ \A x \in Ends : soErr'[x] = soErr[x] \/ (x = e /\ soErr'[x] = NoOs)
<1>a. Flow(e) /\ Closing(e) BY DEF Inv, EndInv, DataInv
<1>b. ASSUME UNCHANGED <<net, conn, args, buf, hist>> PROVE Same /\ Error0
  BY <1>b DEF conn, Inv, Typed
<1>1. CASE recvEnds(e)
  <2>1. pc[e] = "recv" /\ Finish(e, 0, NoOs) BY <1>1 DEF recvEnds, Reading
  <2>2. Same /\ Error0 BY <1>1, <1>b DEF recvEnds
  <2>3. rdShut[e] \/ broken[e] \/ (eof[e] /\ consumed[e] = Len(wire[Peer(e)]))
    <3>1. Len(Arrived(e)) = 0 BY <1>1 DEF recvEnds
    <3>2. delivered[Peer(e)] - consumed[e] = 0 BY <1>a, <3>1, ArrivedBytes DEF Inv
    <3>3. delivered[Peer(e)] \in Nat /\ consumed[e] \in Nat BY TwoEnds DEF Inv, Typed
    <3>4. delivered[Peer(e)] = consumed[e] BY <3>2, <3>3
    <3> QED BY <1>1, <1>a, <3>4 DEF recvEnds, Closing
  <2> QED BY <2>1, <2>2, <2>3, RecvFinishes
<1>2. CASE recvInterrupted(e)
  <2>1. pc[e] = "recv" /\ Platform = "unix" /\ Finish(e, -1, "EINTR")
    BY <1>2 DEF recvInterrupted, Reading
  <2>2. Same /\ Error0 BY <1>2, <1>b DEF recvInterrupted
  <2> QED BY <2>1, <2>2, RecvFinishes
<1>3. ASSUME NEW errno \in Errnos, recvFails(e, errno) PROVE Inv'
  <2>1. pc[e] = "recv" /\ Finish(e, -1, errno) /\ Same BY <1>3 DEF recvFails
  <2>2. Error0 BY <1>3 DEF recvFails, Inv, Typed
  <2> QED BY <2>1, <2>2, RecvFinishes
<1> QED BY <1>1, <1>2, <1>3

LEMMA FunctionIsSeq ==
  ASSUME NEW n \in Nat, NEW f \in [1..n -> Nat]
  PROVE  f \in Seq(Nat) /\ Len(f) = n
<1>1. f \in UNION {[1..m -> Nat] : m \in Nat} OBVIOUS
<1>2. f \in Seq(Nat) BY <1>1, SeqDef
<1>3. DOMAIN f = 1..n OBVIOUS
<1>4. DOMAIN f = 1..Len(f) /\ Len(f) \in Nat BY <1>2, LenProperties
<1> QED BY <1>2, <1>3, <1>4

\* Bytes go from the stream to where the loop is in the buffer.
LEMMA RecvReturnsStep == ASSUME Inv, NEW e \in Ends, recvReturns(e) PROVE Inv'
<1> DEFINE p   == Peer(e)
           got == SubSeq(Arrived(e), 1, Min({size[e] - done[e], Len(Arrived(e))}))
           k   == Len(got)
           d   == done[e]
<1>1. /\ Placed(e) /\ Flow(e) /\ Sending(e) /\ Receiving(e) /\ Peeked(e) /\ Closing(e)
      /\ p \in Ends /\ p # e
  BY TwoEnds DEF Inv, EndInv, DataInv
<1>n. done \in [Ends -> Nat] /\ consumed \in [Ends -> Nat] /\ copied \in [Ends -> Nat]
  BY DEF Inv, Typed
<1>2. /\ d \in Nat /\ size[e] \in Nat /\ consumed[e] \in Nat /\ start[e] \in Nat
      /\ delivered[p] \in Nat /\ copied[e] = 0 /\ call[e] \in RecvCalls /\ d <= size[e]
      /\ Len(wire[p]) \in Nat /\ Len(buf[e]) = size[e] /\ pc[e] = "recv"
      /\ size[e] > 0 => d < size[e]
  <2>1. /\ d \in Nat /\ size[e] \in Nat /\ consumed[e] \in Nat /\ start[e] \in Nat
        /\ delivered[p] \in Nat /\ Len(wire[p]) \in Nat
    BY <1>1, LenProperties DEF Inv, Typed
  <2>2. pc[e] = "recv" BY DEF recvReturns, Reading
  <2>3. copied[e] = 0 /\ call[e] \in RecvCalls BY <1>1, <2>2 DEF Placed
  <2> QED BY <1>1, <2>1, <2>2, <2>3 DEF Placed
<1>3. /\ Arrived(e) \in Seq(Nat) /\ Len(Arrived(e)) = delivered[p] - consumed[e]
      /\ \A i \in 1..Len(Arrived(e)) : Arrived(e)[i] = wire[p][consumed[e] + i]
      /\ Len(Arrived(e)) \in Nat \ {0}
  <2>1. Arrived(e) # <<>> BY DEF recvReturns
  <2> QED BY <1>1, <2>1, ArrivedBytes, EmptySeq DEF Inv
<1>4. /\ got \in Seq(Nat) /\ k \in Nat /\ k <= size[e] - d
      /\ consumed[e] + k <= delivered[p]
      /\ size[e] > 0 => k > 0
      /\ \A i \in 1..k : got[i] = wire[p][consumed[e] + i] /\ got[i] \in Nat
  <2> DEFINE m == Min({size[e] - done[e], Len(Arrived(e))})
  <2>1. size[e] - d \in Nat BY <1>2
  <2>2. m = IF size[e] - d <= Len(Arrived(e)) THEN size[e] - d ELSE Len(Arrived(e))
    BY <1>3, <2>1, MinOfTwo
  <2>3. m \in Nat /\ m <= Len(Arrived(e)) /\ m <= size[e] - d /\ (size[e] > 0 => m > 0)
    BY <1>2, <1>3, <2>1, <2>2
  <2> HIDE DEF m
  <2>4. /\ SubSeq(Arrived(e), 1, m) \in Seq(Nat) /\ Len(SubSeq(Arrived(e), 1, m)) = m
        /\ \A i \in 1..m : SubSeq(Arrived(e), 1, m)[i] = Arrived(e)[i]
    BY <1>3, <2>3, Beginning
  <2>5. got = SubSeq(Arrived(e), 1, m) BY DEF m
  <2>6. got \in Seq(Nat) /\ k = m /\ \A i \in 1..m : got[i] = Arrived(e)[i] BY <2>4, <2>5
  <2>7. \A i \in 1..m : i \in 1..Len(Arrived(e)) BY <1>3, <2>3
  <2>8. \A i \in 1..m : got[i] = wire[p][consumed[e] + i]
    <3>1. \A i \in 1..m : Arrived(e)[i] = wire[p][consumed[e] + i] BY <1>3, <2>7
    <3>2. \A i \in 1..m : got[i] = Arrived(e)[i] BY <2>6
    <3> QED BY ONLY <3>1, <3>2
  <2>9. \A i \in 1..m : got[i] \in Nat BY <2>6, ElementOfSeq
  <2>10. consumed[e] + m <= delivered[p]
    <3>1. m <= delivered[p] - consumed[e] BY <1>3, <2>3
    <3> QED BY <1>2, <2>3, <3>1
  <2> HIDE DEF got
  <2> QED BY <2>3, <2>6, <2>8, <2>9, <2>10
<1>k. /\ k \in Nat /\ k <= size[e] - d /\ consumed[e] + k <= delivered[p]
      /\ size[e] > 0 => k > 0
  BY <1>4
<1>g. /\ got \in Seq(Nat) /\ Len(got) = k
      /\ \A i \in 1..k : got[i] = wire[p][consumed[e] + i]
  BY <1>4
<1>5. /\ buf' = [buf EXCEPT ![e] = [i \in 1..size[e] |->
                   IF i \in d+1..d+k THEN got[i - d] ELSE buf[e][i]]]
      /\ consumed' = IF call[e] = "peek" THEN consumed ELSE [consumed EXCEPT ![e] = @ + k]
      /\ peeked' = [peeked EXCEPT ![e] =
           IF call[e] = "peek" THEN got ELSE IF got = <<>> THEN @ ELSE <<>>]
      /\ Finish(e, k, NoOs)
      /\ UNCHANGED <<wire, delivered, conn, opts, args, asked, read, signals>>
  BY DEF recvReturns, RecvInto, PeekFlag
<1>6. got = <<>> <=> k = 0
  <2>1. k = 0 => got = <<>> BY <1>4, EmptySeq
  <2>2. got = <<>> => k = 0 BY EmptySeq
  <2> QED BY <2>1, <2>2
<1> HIDE DEF got, k
<1>7. /\ done' = [done EXCEPT ![e] = IF k > 0 THEN @ + k ELSE @]
      /\ copied' = [copied EXCEPT ![e] = 0]
      /\ \A x \in Ends \ {e} : pc'[x] = pc[x] /\ ret'[x] = ret[x]
      /\ pc' \in [Ends -> {"idle", "send", "recv"}] /\ DOMAIN ret' = Ends
      /\ pc'[e] \in {"recv", "idle"}
      /\ pc'[e] # "idle" => Loops(call[e]) /\ done'[e] < size[e] /\ ret' = ret
      /\ pc'[e] = "idle" => ret'[e] = ioResult(k, NoOs)
      /\ pc'[e] = "idle" /\ Loops(call[e]) =>
           /\ ret'[e].ok => done'[e] = size[e]
           /\ ret'[e] # Err(fromOs("EINTR"))
  <2>1. Loops(call[e]) => done[e] < size[e] BY <1>1, <1>2 DEF Placed
  <2>2. k \in Int /\ done[e] + k <= size[e] /\ ~(k < 0) BY <1>2, <1>k
  <2>3. pc[e] # "idle" BY <1>2
  <2> QED BY <1>2, <1>5, <2>1, <2>2, <2>3, Finished
<1>8. /\ done'[e] = d + k /\ done' \in [Ends -> Nat] /\ copied' = copied
      /\ \A x \in Ends \ {e} : done'[x] = done[x]
  BY <1>2, <1>n, <1>k, <1>7
<1>9. /\ buf'[e] \in Seq(Nat) /\ Len(buf'[e]) = size[e]
      /\ \A i \in 1..d : buf'[e][i] = buf[e][i]
      /\ \A i \in 1..k : buf'[e][d + i] = got[i]
  <2> DEFINE f == [i \in 1..size[e] |-> IF i \in d+1..d+k THEN got[i - d] ELSE buf[e][i]]
  <2>1. buf'[e] = f BY <1>5 DEF Inv, Typed
  <2>2. f \in [1..size[e] -> Nat]
    <3>1. ASSUME NEW i \in 1..size[e] PROVE f[i] \in Nat
      <4>1. CASE i \in d+1..d+k
        <5>0. i \in 1..d + k /\ d < i BY <1>2, <1>k, <4>1
        <5>1. i - d \in 1..k BY <1>2, <1>k, <5>0, Behind
        <5>2. got[i - d] \in Nat BY <1>4, <5>1
        <5> QED BY <4>1, <5>2
      <4>2. CASE i \notin d+1..d+k
        <5>1. buf[e] \in Seq(Nat) /\ i \in 1..Len(buf[e]) BY <1>2 DEF Inv, Typed
        <5>2. buf[e][i] \in Nat BY <5>1, ElementOfSeq
        <5> QED BY <4>2, <5>2
      <4> QED BY <4>1, <4>2
    <3> QED BY <3>1
  <2>3. \A i \in 1..d : f[i] = buf[e][i] BY <1>2
  <2>4. ASSUME NEW i \in 1..k PROVE f[d + i] = got[i]
    <3>1. d \in Nat /\ k \in Nat /\ size[e] \in Nat /\ d + k <= size[e] BY <1>2, <1>k
    <3>2. d + i \in 1..size[e] /\ d + i \in d+1..d+k /\ (d + i) - d = i
      BY ONLY <3>1, i \in 1..k, Within
    <3> QED BY <3>2
  <2> HIDE DEF f
  <2>5. f \in Seq(Nat) /\ Len(f) = size[e] BY <1>2, <2>2, FunctionIsSeq
  <2> QED BY <2>1, <2>3, <2>4, <2>5
<1>10. /\ consumed' \in [Ends -> Nat]
       /\ consumed'[e] = IF call[e] = "peek" THEN consumed[e] ELSE consumed[e] + k
       /\ \A x \in Ends \ {e} : consumed'[x] = consumed[x]
  BY <1>2, <1>n, <1>k, <1>5
<1>11. /\ peeked' \in [Ends -> Seq(Nat)]
       /\ peeked'[e] = IF call[e] = "peek" THEN got ELSE IF k = 0 THEN peeked[e] ELSE <<>>
  BY <1>4, <1>5, <1>6, EmptySeq DEF Inv, Typed
<1>12. Typed'
  <2>1. buf' \in [Ends -> Seq(Nat)] BY <1>5, <1>9 DEF Inv, Typed
  <2> QED BY <1>5, <1>7, <1>8, <1>10, <1>11, <2>1 DEF Inv, Typed, conn, args
<1>13. /\ call' = call /\ size' = size /\ base' = base /\ start' = start
       /\ wire' = wire /\ delivered' = delivered /\ read' = read
  BY <1>5 DEF args
<1>14. Placed(e)'
  <2>1. pc'[e] # "send" /\ call[e] \notin SendCalls BY <1>2, <1>7 DEF SendCalls, RecvCalls, ReadCalls
  <2>2. done'[e] + copied'[e] <= size[e] BY <1>2, <1>k, <1>8
  <2>3. Len(buf'[e]) = size[e] BY <1>9
  <2> QED BY <1>2, <1>7, <1>8, <1>13, <2>1, <2>2, <2>3 DEF Placed
<1>15. Flow(e)' BY <1>1, <1>2, <1>k, <1>10, <1>13 DEF Flow
<1>16. Sending(e)'
  BY <1>1, <1>2, <1>13 DEF Sending, Sent, Put, SendCalls, RecvCalls, ReadCalls
<1>17. Receiving(e)'
  <2>1. ASSUME call[e] \in ReadCalls
        PROVE  /\ consumed'[e] = start[e] + done'[e]
               /\ \A i \in 1..done'[e] : buf'[e][i] = wire[p][start[e] + i]
    <3>1. consumed[e] = start[e] + d /\ call[e] # "peek"
      BY <1>1, <2>1 DEF Receiving, ReadCalls
    <3>2. consumed'[e] = start[e] + done'[e]
      <4>1. consumed'[e] = (start[e] + d) + k /\ done'[e] = d + k BY <1>8, <1>10, <3>1
      <4> QED BY <1>2, <1>k, <4>1
    <3>3. ASSUME NEW i \in 1..done'[e] PROVE buf'[e][i] = wire[p][start[e] + i]
      <4>1. CASE i <= d
        <5>1. i \in 1..d BY <1>2, <4>1
        <5> QED BY <1>1, <1>9, <2>1, <5>1 DEF Receiving
      <4>2. CASE ~(i <= d)
        <5>0. i \in 1..d + k /\ d < i BY <1>2, <1>k, <1>8, <4>2
        <5>1. i - d \in 1..k /\ d + (i - d) = i BY <1>2, <1>k, <5>0, Behind
        <5>2. buf'[e][i] = wire[p][consumed[e] + (i - d)] BY <1>g, <1>9, <5>1
        <5>3. consumed[e] + (i - d) = start[e] + i BY <1>2, <3>1
        <5> QED BY <5>2, <5>3
      <4> QED BY <4>1, <4>2
    <3> QED BY <3>2, <3>3
  <2>2. call[e] \notin ReadCalls => consumed'[e] = consumed[e]
    BY <1>2, <1>10 DEF RecvCalls
  <2> QED BY <1>1, <1>13, <2>1, <2>2 DEF Receiving
<1>18. Peeked(e)'
  <2>1. CASE call[e] = "peek"
    <3>1. consumed'[e] = consumed[e] /\ peeked'[e] = got BY <1>10, <1>11, <2>1
    <3>2. consumed[e] + Len(got) <= delivered[p] BY <1>g, <1>k
    <3>3. \A i \in 1..Len(got) : got[i] = wire[p][consumed[e] + i] BY <1>g
    <3> QED BY <1>13, <3>1, <3>2, <3>3 DEF Peeked
  <2>2. CASE call[e] # "peek" /\ k = 0
    <3>1. consumed'[e] = consumed[e] /\ peeked'[e] = peeked[e]
      BY <1>2, <1>10, <1>11, <2>2
    <3> QED BY <1>1, <1>13, <3>1 DEF Peeked
  <2>3. CASE call[e] # "peek" /\ k # 0
    <3>1. Len(peeked'[e]) = 0 BY <1>11, <2>3, EmptySeq
    <3> QED BY <1>2, <1>k, <1>10, <1>13, <2>3, <3>1 DEF Peeked
  <2> QED BY <2>1, <2>2, <2>3
<1>19. Closing(e)'
  <2>1. ~ToldClosed(e)'
    <3>1. ToldClosed(e)' => size[e] > 0 /\ pc'[e] = "idle" /\ ~ret'[e].ok
      BY <1>13 DEF ToldClosed, Err
    <3>2. k > 0 => ioResult(k, NoOs).ok BY <1>k DEF ioResult, Ok
    <3> QED BY <1>k, <1>7, <3>1, <3>2
  <2> QED BY <1>1, <1>5, <2>1 DEF Closing, conn
<1>20. \A x \in Ends : Grows(x) BY <1>13, StillGrows
<1>21. DataSame(p) /\ ConnSame(p)
  <2>1. buf'[p] = buf[p] /\ peeked'[p] = peeked[p] BY <1>1, <1>5 DEF Inv, Typed
  <2> QED BY <1>1, <1>5, <1>7, <1>8, <1>10, <1>13, <2>1 DEF DataSame, ConnSame, conn
<1>22. wrShut' = wrShut BY <1>5 DEF conn
<1> QED BY <1>1, <1>12, <1>13, <1>14, <1>15, <1>16, <1>17, <1>18, <1>19, <1>20, <1>21, <1>22,
        OtherEnd DEF DataInv

-----------------------------------------------------------------------------
(* Steps that begin a call. *)

\* The next call finds what the reads so far have handed over.
LEMMA ReadsOn ==
  ASSUME Inv, NEW e \in Ends, NextCall(e)
  PROVE  /\ read' \in [Ends -> Seq(Nat)] /\ read'[Peer(e)] = read[Peer(e)]
         /\ Len(read'[e]) = consumed[e]
         /\ \A i \in 1..consumed[e] : read'[e][i] = wire[Peer(e)][i]
<1> DEFINE w == wire[Peer(e)] c == consumed[e]
<1>1. /\ Typed /\ Placed(e) /\ Flow(e) /\ Receiving(e) /\ Peer(e) \in Ends /\ Peer(e) # e
      /\ read \in [Ends -> Seq(Nat)]
  BY TwoEnds DEF Inv, EndInv, DataInv, Typed
<1>2. read[e] \o HandedOver(e) = SubSeq(w, 1, c) BY <1>1, HandedOverIsRead
<1>3. w \in Seq(Nat) /\ c \in Nat /\ c <= Len(w)
  <2>1. w \in Seq(Nat) /\ c \in Nat /\ delivered[Peer(e)] \in Nat /\ Len(w) \in Nat
    BY <1>1, LenProperties DEF Typed
  <2> QED BY <1>1, <2>1 DEF Flow
<1>4. read' = [read EXCEPT ![e] = SubSeq(w, 1, c)] BY <1>2 DEF NextCall
<1> HIDE DEF w, c
<1>5. /\ SubSeq(w, 1, c) \in Seq(Nat) /\ Len(SubSeq(w, 1, c)) = c
      /\ \A i \in 1..c : SubSeq(w, 1, c)[i] = w[i]
  BY <1>3, Beginning
<1>6. read'[e] = SubSeq(w, 1, c) BY <1>1, <1>4
<1>7. read' \in [Ends -> Seq(Nat)] /\ read'[Peer(e)] = read[Peer(e)] BY <1>1, <1>4, <1>5
<1> QED BY <1>5, <1>6, <1>7 DEF w, c

\* An end whose last call has returned begins another one.
LEMMA CallBegins ==
  ASSUME Inv, NEW e \in Ends, pc[e] = "idle", NextCall(e),
         base' = [base EXCEPT ![e] = base[e] + Sent(e)],
         UNCHANGED <<net, copied, peeked>>,
         call'[e] \in SendCalls => start'[e] = Len(wire[e]) /\ done'[e] = 0,
         call'[e] \in ReadCalls => start'[e] = consumed[e] /\ done'[e] = 0,
         base[e] + Sent(e) + Sent(e)' <= MaxBytes
  PROVE  /\ read' \in [Ends -> Seq(Nat)] /\ read'[Peer(e)] = read[Peer(e)]
         /\ base' \in [Ends -> Nat] /\ base'[Peer(e)] = base[Peer(e)]
         /\ Flow(e)' /\ Sending(e)' /\ Receiving(e)' /\ Peeked(e)'
         /\ \A x \in Ends : Grows(x)
<1>1. /\ Placed(e) /\ Flow(e) /\ Sending(e) /\ Peeked(e) /\ Peer(e) \in Ends /\ Peer(e) # e
  BY TwoEnds DEF Inv, EndInv, DataInv
<1>2. /\ done[e] \in Nat /\ size[e] \in Nat /\ base[e] \in Nat /\ copied[e] \in Nat
      /\ base \in [Ends -> Nat] /\ copied[e] = 0
      /\ wire' = wire /\ delivered' = delivered /\ consumed' = consumed
      /\ copied' = copied /\ peeked' = peeked
  BY <1>1 DEF Inv, Typed, Placed, net
<1>3. done[e] <= size[e] BY <1>1, <1>2 DEF Placed
<1>4. Sent(e) \in Nat /\ Put(e) <= Sent(e) /\ Put(e) \in Nat
  BY <1>2, <1>3 DEF Sent, Put, SendCalls
<1>5. base'[e] = base[e] + Sent(e) /\ base' \in [Ends -> Nat] /\ base'[Peer(e)] = base[Peer(e)]
  BY <1>1, <1>2, <1>4
<1>6. Put(e)' = 0 BY <1>2 DEF Put
<1>7. Sending(e)'
  <2>1. ASSUME NEW i \in 1..Len(wire[e])
        PROVE  1 <= wire[e][i] /\ wire[e][i] <= base'[e] + 0
    <3>1. wire[e] \in Seq(Nat) BY DEF Inv, Typed
    <3>2. wire[e][i] \in Nat BY <3>1, ElementOfSeq
    <3>3. 1 <= wire[e][i] /\ wire[e][i] <= base[e] + Put(e) BY <1>1 DEF Sending
    <3> QED BY <1>2, <1>4, <1>5, <3>2, <3>3
  <2>2. Len(wire[e]) \in Nat BY LenProperties DEF Inv, Typed
  <2> QED BY <1>2, <1>5, <1>6, <2>1, <2>2 DEF Sending
<1>8. Receiving(e)'
  <2>1. consumed[e] \in Nat BY DEF Inv, Typed
  <2> QED BY <1>2, <2>1, ReadsOn DEF Receiving
<1>9. Flow(e)' /\ Peeked(e)' BY <1>1, <1>2 DEF Flow, Peeked
<1>10. \A x \in Ends : Grows(x) BY <1>2, StillGrows
<1> QED BY <1>5, <1>7, <1>8, <1>9, <1>10, ReadsOn

LEMMA SendCallStep ==
  ASSUME Inv, NEW e \in Ends, NEW c, NEW n \in Sizes, sendCall(e, c, n)
  PROVE  Inv'
<1>1. /\ Placed(e) /\ Closing(e) /\ Sending(e) /\ Peer(e) \in Ends /\ Peer(e) # e
      /\ n \in Nat /\ c \in SendCalls /\ pc[e] = "idle" /\ copied[e] = 0
  BY TwoEnds, IOAssumption DEF Inv, EndInv, DataInv, sendCall, Idle, SendCalls, Placed
<1>2. /\ call' = [call EXCEPT ![e] = c] /\ size' = [size EXCEPT ![e] = n]
      /\ done' = [done EXCEPT ![e] = 0] /\ start' = [start EXCEPT ![e] = Len(wire[e])]
      /\ base' = [base EXCEPT ![e] = base[e] + Sent(e)] /\ NextCall(e)
      /\ IF c = "sendAll" /\ n = 0
           THEN ret' = [ret EXCEPT ![e] = Ok] /\ pc' = pc
           ELSE ret' = ret /\ pc' = [pc EXCEPT ![e] = "send"]
      /\ UNCHANGED <<net, conn, copied, buf, peeked, asked>>
      /\ base[e] + Sent(e) + n <= MaxBytes
  BY DEF sendCall, begin
<1>3. /\ call'[e] = c /\ size'[e] = n /\ done'[e] = 0 /\ start'[e] = Len(wire[e])
      /\ call' \in [Ends -> AnyCall] /\ size' \in [Ends -> Nat] /\ done' \in [Ends -> Nat]
      /\ pc' \in [Ends -> {"idle", "send", "recv"}] /\ DOMAIN ret' = Ends
      /\ IF c = "sendAll" /\ n = 0 THEN ret'[e] = Ok /\ pc'[e] = "idle" ELSE pc'[e] = "send"
  <2>1. call' \in [Ends -> AnyCall] /\ call'[e] = c
    <3>1. call \in [Ends -> AnyCall] BY DEF Inv, Typed
    <3> QED BY <1>1, <1>2, <3>1 DEF AnyCall
  <2>2. /\ size' \in [Ends -> Nat] /\ size'[e] = n /\ done' \in [Ends -> Nat] /\ done'[e] = 0
        /\ start'[e] = Len(wire[e])
    <3>1. /\ size \in [Ends -> Nat] /\ done \in [Ends -> Nat] /\ start \in [Ends -> Nat]
          /\ consumed[e] \in Nat
      BY DEF Inv, Typed
    <3> QED BY <1>1, <1>2, <3>1
  <2>3. /\ pc' \in [Ends -> {"idle", "send", "recv"}] /\ DOMAIN ret' = Ends
        /\ IF c = "sendAll" /\ n = 0 THEN ret'[e] = Ok /\ pc'[e] = "idle" ELSE pc'[e] = "send"
    <3>1. pc \in [Ends -> {"idle", "send", "recv"}] /\ DOMAIN ret = Ends BY DEF Inv, Typed
    <3> QED BY <1>1, <1>2, <3>1
  <2> QED BY <2>1, <2>2, <2>3
<1>4. Sent(e)' = n BY <1>1, <1>3 DEF Sent, SendCalls
<1>5. /\ read' \in [Ends -> Seq(Nat)] /\ read'[Peer(e)] = read[Peer(e)]
      /\ base' \in [Ends -> Nat] /\ base'[Peer(e)] = base[Peer(e)]
      /\ Flow(e)' /\ Sending(e)' /\ Receiving(e)' /\ Peeked(e)'
      /\ \A x \in Ends : Grows(x)
  <2>1. call'[e] \notin ReadCalls BY <1>1, <1>3 DEF SendCalls, ReadCalls
  <2> QED BY <1>1, <1>2, <1>3, <1>4, <2>1, CallBegins
<1>6. Typed'
  <2>1. start' \in [Ends -> Nat]
    <3>1. Len(wire[e]) \in Nat BY LenProperties DEF Inv, Typed
    <3> QED BY <1>2, <3>1 DEF Inv, Typed
  <2> QED BY <1>2, <1>3, <1>5, <2>1 DEF Inv, Typed, net, conn
<1>7. Placed(e)'
  <2>1. copied'[e] = 0 BY <1>1, <1>2
  <2>2. ~(Ok = Err(fromOs("EINTR"))) BY DEF Ok, Err
  <2>3. n > 0 \/ n = 0 BY <1>1
  <2> QED BY <1>1, <1>3, <2>1, <2>2, <2>3 DEF Placed, SendCalls, RecvCalls, ReadCalls, Loops
<1>8. Closing(e)'
  <2>1. ~ToldClosed(e)' BY <1>1, <1>3 DEF ToldClosed, SendCalls
  <2> QED BY <1>1, <1>2, <2>1 DEF Closing, net, conn
<1>9. DataSame(Peer(e)) /\ ConnSame(Peer(e))
  <2>1. /\ call \in [Ends -> AnyCall] /\ size \in [Ends -> Nat] /\ done \in [Ends -> Nat]
        /\ start \in [Ends -> Nat] /\ pc \in [Ends -> {"idle", "send", "recv"}]
        /\ DOMAIN ret = Ends
    BY DEF Inv, Typed
  <2>2. \A x \in Ends \ {e} : /\ call'[x] = call[x] /\ size'[x] = size[x] /\ done'[x] = done[x]
                             /\ start'[x] = start[x]
    BY <1>2, <2>1
  <2>3. \A x \in Ends \ {e} : pc'[x] = pc[x] /\ ret'[x] = ret[x] BY <1>2, <2>1
  <2> QED BY <1>1, <1>2, <1>5, <2>2, <2>3 DEF DataSame, ConnSame, net, conn
<1>10. wire' = wire /\ delivered' = delivered /\ wrShut' = wrShut BY <1>2 DEF net, conn
<1> QED BY <1>1, <1>5, <1>6, <1>7, <1>8, <1>9, <1>10, OtherEnd DEF DataInv

LEMMA ReceiveCallStep ==
  ASSUME Inv, NEW e \in Ends, NEW c, NEW n \in Sizes, receiveCall(e, c, n)
  PROVE  Inv'
<1>1. /\ Placed(e) /\ Closing(e) /\ Sending(e) /\ Peer(e) \in Ends /\ Peer(e) # e
      /\ n \in Nat /\ c \in RecvCalls /\ pc[e] = "idle" /\ copied[e] = 0
  BY TwoEnds, IOAssumption
  DEF Inv, EndInv, DataInv, receiveCall, Idle, RecvCalls, ReadCalls, Placed
<1>2. /\ call' = [call EXCEPT ![e] = c] /\ size' = [size EXCEPT ![e] = n]
      /\ done' = [done EXCEPT ![e] = 0] /\ start' = [start EXCEPT ![e] = consumed[e]]
      /\ base' = [base EXCEPT ![e] = base[e] + Sent(e)] /\ NextCall(e)
      /\ buf' = [buf EXCEPT ![e] = [i \in 1..n |-> 0]]
      /\ IF c = "receiveExact" /\ n = 0
           THEN ret' = [ret EXCEPT ![e] = Ok] /\ pc' = pc
           ELSE ret' = ret /\ pc' = [pc EXCEPT ![e] = "recv"]
      /\ UNCHANGED <<net, conn, copied, peeked, asked>>
  BY DEF receiveCall, begin
<1>3. /\ call'[e] = c /\ size'[e] = n /\ done'[e] = 0 /\ start'[e] = consumed[e]
      /\ call' \in [Ends -> AnyCall] /\ size' \in [Ends -> Nat] /\ done' \in [Ends -> Nat]
      /\ start' \in [Ends -> Nat]
      /\ pc' \in [Ends -> {"idle", "send", "recv"}] /\ DOMAIN ret' = Ends
      /\ IF c = "receiveExact" /\ n = 0 THEN ret'[e] = Ok /\ pc'[e] = "idle" ELSE pc'[e] = "recv"
  <2>1. call' \in [Ends -> AnyCall] /\ call'[e] = c
    <3>1. call \in [Ends -> AnyCall] BY DEF Inv, Typed
    <3> QED BY <1>1, <1>2, <3>1 DEF AnyCall
  <2>2. /\ size' \in [Ends -> Nat] /\ size'[e] = n /\ done' \in [Ends -> Nat] /\ done'[e] = 0
        /\ start' \in [Ends -> Nat] /\ start'[e] = consumed[e]
    <3>1. /\ size \in [Ends -> Nat] /\ done \in [Ends -> Nat] /\ start \in [Ends -> Nat]
          /\ consumed[e] \in Nat
      BY DEF Inv, Typed
    <3> QED BY <1>1, <1>2, <3>1
  <2>3. /\ pc' \in [Ends -> {"idle", "send", "recv"}] /\ DOMAIN ret' = Ends
        /\ IF c = "receiveExact" /\ n = 0 THEN ret'[e] = Ok /\ pc'[e] = "idle" ELSE pc'[e] = "recv"
    <3>1. pc \in [Ends -> {"idle", "send", "recv"}] /\ DOMAIN ret = Ends BY DEF Inv, Typed
    <3> QED BY <1>1, <1>2, <3>1
  <2> QED BY <2>1, <2>2, <2>3
<1>4. Sent(e)' = 0 BY <1>1, <1>3 DEF Sent, RecvCalls, ReadCalls
<1>5. /\ read' \in [Ends -> Seq(Nat)] /\ read'[Peer(e)] = read[Peer(e)]
      /\ base' \in [Ends -> Nat] /\ base'[Peer(e)] = base[Peer(e)]
      /\ Flow(e)' /\ Sending(e)' /\ Receiving(e)' /\ Peeked(e)'
      /\ \A x \in Ends : Grows(x)
  <2>1. call'[e] \notin SendCalls BY <1>1, <1>3 DEF SendCalls, RecvCalls, ReadCalls
  <2>2. base[e] + Sent(e) + Sent(e)' <= MaxBytes
    <3>1. Sent(e) \in Nat /\ base[e] \in Nat BY DEF Sent, Inv, Typed
    <3> QED BY <1>1, <1>4, <3>1 DEF Sending
  <2> QED BY <1>1, <1>2, <1>3, <2>1, <2>2, CallBegins
<1>6. buf' \in [Ends -> Seq(Nat)] /\ Len(buf'[e]) = n /\ buf'[Peer(e)] = buf[Peer(e)]
  <2> DEFINE f == [i \in 1..n |-> 0]
  <2>1. f \in [1..n -> Nat] OBVIOUS
  <2>2. buf' = [buf EXCEPT ![e] = f] BY <1>2
  <2> HIDE DEF f
  <2>3. f \in Seq(Nat) /\ Len(f) = n BY <1>1, <2>1, FunctionIsSeq
  <2> QED BY <1>1, <2>2, <2>3 DEF Inv, Typed
<1>6l. Len(buf'[e]) = n BY <1>6
<1>7. Typed' BY <1>2, <1>3, <1>5, <1>6 DEF Inv, Typed, net, conn
<1>8. Placed(e)'
  <2>1. copied'[e] = 0 BY <1>1, <1>2
  <2>2. ~(Ok = Err(fromOs("EINTR"))) BY DEF Ok, Err
  <2>3. n > 0 \/ n = 0 BY <1>1
  <2> QED BY <1>1, <1>3, <1>6l, <2>1, <2>2, <2>3 DEF Placed, SendCalls, RecvCalls, ReadCalls, Loops
<1>9. Closing(e)'
  <2>1. ~ToldClosed(e)' BY <1>1, <1>3 DEF ToldClosed
  <2> QED BY <1>1, <1>2, <2>1 DEF Closing, net, conn
<1>10. DataSame(Peer(e)) /\ ConnSame(Peer(e))
  <2>1. /\ call \in [Ends -> AnyCall] /\ size \in [Ends -> Nat] /\ done \in [Ends -> Nat]
        /\ start \in [Ends -> Nat] /\ pc \in [Ends -> {"idle", "send", "recv"}]
        /\ DOMAIN ret = Ends
    BY DEF Inv, Typed
  <2>2. \A x \in Ends \ {e} : /\ call'[x] = call[x] /\ size'[x] = size[x] /\ done'[x] = done[x]
                             /\ start'[x] = start[x]
    BY <1>2, <2>1
  <2>3. \A x \in Ends \ {e} : pc'[x] = pc[x] /\ ret'[x] = ret[x] BY <1>2, <2>1
  <2> QED BY <1>1, <1>2, <1>5, <1>6, <2>2, <2>3 DEF DataSame, ConnSame, net, conn
<1>11. wire' = wire /\ delivered' = delivered /\ wrShut' = wrShut BY <1>2 DEF net, conn
<1> QED BY <1>1, <1>5, <1>7, <1>8, <1>9, <1>10, <1>11, OtherEnd DEF DataInv

\* A call that does not wait.
LEMMA ReturnedData ==
  ASSUME Inv, NEW e \in Ends, Idle(e), NEW r, Returned(e, r),
         UNCHANGED <<net, pc, size, start, done, copied, buf, peeked>>
  PROVE  /\ read' \in [Ends -> Seq(Nat)] /\ base' \in [Ends -> Nat]
         /\ call' \in [Ends -> AnyCall] /\ DOMAIN ret' = Ends
         /\ DataInv(e)' /\ ~ToldClosed(e)' /\ DataSame(Peer(e))
         /\ \A x \in Ends : Grows(x)
<1>1. /\ Placed(e) /\ Sending(e) /\ Peer(e) \in Ends /\ Peer(e) # e
      /\ pc[e] = "idle" /\ copied[e] = 0
  BY TwoEnds DEF Inv, EndInv, DataInv, Idle, Placed
<1>2. /\ call' = [call EXCEPT ![e] = "option"] /\ ret' = [ret EXCEPT ![e] = r]
      /\ base' = [base EXCEPT ![e] = base[e] + Sent(e)] /\ NextCall(e)
  BY DEF Returned
<1>3. /\ call'[e] = "option" /\ call' \in [Ends -> AnyCall] /\ DOMAIN ret' = Ends
      /\ \A x \in Ends \ {e} : call'[x] = call[x] /\ ret'[x] = ret[x]
  BY <1>2 DEF Inv, Typed, AnyCall
<1>4. Sent(e)' = 0 BY <1>3 DEF Sent
<1>5. /\ read' \in [Ends -> Seq(Nat)] /\ read'[Peer(e)] = read[Peer(e)]
      /\ base' \in [Ends -> Nat] /\ base'[Peer(e)] = base[Peer(e)]
      /\ Flow(e)' /\ Sending(e)' /\ Receiving(e)' /\ Peeked(e)'
      /\ \A x \in Ends : Grows(x)
  <2>1. call'[e] \notin SendCalls /\ call'[e] \notin ReadCalls
    BY <1>3 DEF SendCalls, ReadCalls
  <2>2. base[e] + Sent(e) + Sent(e)' <= MaxBytes
    <3>1. Sent(e) \in Nat /\ base[e] \in Nat BY DEF Sent, Inv, Typed
    <3> QED BY <1>1, <1>4, <3>1 DEF Sending
  <2> QED BY <1>1, <1>2, <2>1, <2>2, CallBegins
<1>6. Placed(e)'
  BY <1>1, <1>3 DEF Placed, SendCalls, RecvCalls, ReadCalls, Loops
<1>7. ~ToldClosed(e)' BY <1>3 DEF ToldClosed
<1>8. DataSame(Peer(e)) BY <1>1, <1>3, <1>5 DEF DataSame, net
<1> QED BY <1>3, <1>5, <1>6, <1>7, <1>8 DEF DataInv

LEMMA SetTimeoutStep ==
  ASSUME Inv, NEW e \in Ends, NEW kind, NEW t, setTimeout(e, kind, t)
  PROVE  Inv'
<1>1. Peer(e) \in Ends /\ Closing(e) BY TwoEnds DEF Inv, EndInv
<1>2. /\ read' \in [Ends -> Seq(Nat)] /\ base' \in [Ends -> Nat]
      /\ call' \in [Ends -> AnyCall] /\ DOMAIN ret' = Ends
      /\ DataInv(e)' /\ ~ToldClosed(e)' /\ DataSame(Peer(e))
      /\ \A x \in Ends : Grows(x)
  BY ReturnedData DEF setTimeout
<1>3. UNCHANGED <<net, conn, pc, size, start, done, copied, buf, peeked, asked>>
  BY DEF setTimeout
<1>4. Typed' BY <1>2, <1>3 DEF Inv, Typed, net, conn
<1>5. Closing(e)' BY <1>1, <1>2, <1>3 DEF Closing, net, conn
<1>6. ConnSame(Peer(e)) BY <1>3 DEF ConnSame, conn
<1>7. wire' = wire /\ delivered' = delivered /\ wrShut' = wrShut BY <1>3 DEF net, conn
<1> QED BY <1>1, <1>2, <1>4, <1>5, <1>6, <1>7, OtherEnd

LEMMA ShutdownStep ==
  ASSUME Inv, NEW e \in Ends, NEW mode \in Shutdowns, shutdown(e, mode)
  PROVE  Inv'
<1>1. Peer(e) \in Ends /\ Peer(e) # e /\ Closing(e) BY TwoEnds DEF Inv, EndInv
<1>2. PICK r : Returned(e, r) BY DEF shutdown
<1>3. UNCHANGED <<net, eof, rst, broken, soErr, closed, pc, size, start, done, copied, buf, peeked>>
  BY DEF shutdown
<1>4. /\ read' \in [Ends -> Seq(Nat)] /\ base' \in [Ends -> Nat]
      /\ call' \in [Ends -> AnyCall] /\ DOMAIN ret' = Ends
      /\ DataInv(e)' /\ ~ToldClosed(e)' /\ DataSame(Peer(e))
      /\ \A x \in Ends : Grows(x)
  BY <1>2, <1>3, ReturnedData DEF shutdown
<1>5. /\ wrShut' \in [Ends -> BOOLEAN] /\ rdShut' \in [Ends -> BOOLEAN]
      /\ wrShut'[e] \in {wrShut[e], wrShut[e] \/ "Write" \in How(mode)}
      /\ rdShut'[e] \in {rdShut[e], rdShut[e] \/ "Read" \in How(mode)}
      /\ wrShut'[Peer(e)] = wrShut[Peer(e)] /\ rdShut'[Peer(e)] = rdShut[Peer(e)]
  <2>1. CASE broken[e] BY <2>1, <1>1 DEF shutdown, Inv, Typed
  <2>2. CASE ~broken[e]
    <3>1. /\ wrShut' = [wrShut EXCEPT ![e] = wrShut[e] \/ "Write" \in How(mode)]
          /\ rdShut' = [rdShut EXCEPT ![e] = rdShut[e] \/ "Read" \in How(mode)]
      BY <2>2 DEF shutdown
    <3>2. wrShut \in [Ends -> BOOLEAN] /\ rdShut \in [Ends -> BOOLEAN] BY DEF Inv, Typed
    <3> QED BY <1>1, <3>1, <3>2, Zenon
  <2> QED BY <2>1, <2>2
<1>6. /\ asked' = [asked EXCEPT ![e] = asked[e] \cup Halves(mode)]
      /\ Halves(mode) \subseteq {"Read", "Write"}
      /\ Platform = "unix" => How(mode) = Halves(mode)
  <2>1. mode \in {"Read", "Write", "Both"} BY IOAssumption
  <2>2. Halves(mode) \subseteq {"Read", "Write"} BY <2>1 DEF Halves
  <2> QED BY <2>2 DEF shutdown, How
<1>7. /\ asked' \in [Ends -> SUBSET {"Read", "Write"}]
      /\ asked'[e] = asked[e] \cup Halves(mode) /\ asked'[Peer(e)] = asked[Peer(e)]
  BY <1>1, <1>6 DEF Inv, Typed
<1>8. Typed' BY <1>3, <1>4, <1>5, <1>7 DEF Inv, Typed, net
<1>9. wrShut[e] => wrShut'[e] BY <1>5
<1>10. Closing(e)'
  <2>1. Platform = "unix" => /\ rdShut'[e] => "Read" \in asked'[e]
                             /\ wrShut'[e] => "Write" \in asked'[e] \/ closed'[e]
    <3>1. Platform = "unix" => /\ rdShut'[e] => rdShut[e] \/ "Read" \in Halves(mode)
                               /\ wrShut'[e] => wrShut[e] \/ "Write" \in Halves(mode)
      BY <1>5, <1>6
    <3> QED BY <1>1, <1>3, <1>7, <3>1 DEF Closing
  <2>2. asked'[e] \subseteq UNION {Halves(m) : m \in Shutdowns} BY <1>1, <1>7 DEF Closing
  <2> QED BY <1>1, <1>3, <1>4, <1>5, <2>1, <2>2 DEF Closing, net
<1>11. ConnSame(Peer(e)) BY <1>3, <1>5, <1>7 DEF ConnSame
<1>12. wire' = wire /\ delivered' = delivered BY <1>3 DEF net
<1> QED BY <1>1, <1>4, <1>8, <1>9, <1>10, <1>11, <1>12, OtherEnd

-----------------------------------------------------------------------------
(* The invariant. *)

\* The invariant holds initially and every step keeps it: this is what all the
\* loops of send, sendAll, receive, receiveExact and peek keep to.
THEOREM IOInvariance == Spec => []Inv
<1>1. ASSUME Init PROVE Inv
  <2>1. <<>> \in Seq(Nat) /\ Len(<<>>) = 0 BY EmptySeq
  <2>2. Typed BY <1>1, <2>1 DEF Init, Typed, AnyCall
  <2>3. ASSUME NEW e \in Ends PROVE EndInv(e)
    <3>1. Peer(e) \in Ends BY TwoEnds
    <3>2. Placed(e)
      BY <1>1 DEF Init, Placed, SendCalls, RecvCalls, ReadCalls, Loops
    <3>3. Flow(e) /\ Receiving(e) /\ Peeked(e)
      BY <1>1, <2>1, <3>1 DEF Init, Flow, Receiving, Peeked, ReadCalls
    <3>4. Sending(e)
      <4>1. Sent(e) = 0 /\ Put(e) = 0 BY <1>1 DEF Init, Sent, Put, SendCalls
      <4> QED BY <1>1, <2>1, <4>1, IOAssumption DEF Init, Sending, SendCalls
    <3>5. Closing(e) BY <1>1, <3>1 DEF Init, Closing, ToldClosed
    <3> QED BY <3>2, <3>3, <3>4, <3>5 DEF EndInv, DataInv
  <2> QED BY <2>2, <2>3 DEF Inv
<1>2. ASSUME Inv, [Next]_vars PROVE Inv'
  <2> USE <1>2
  <2>1. CASE UNCHANGED vars
    <3> USE <2>1 DEF vars, net, conn, opts, args, hist
    <3>1. Typed' BY DEF Inv, Typed
    <3>2. UNCHANGED DataVars BY DEF DataVars
    <3>3. \A x \in Ends : Grows(x) BY StillGrows
    <3>4. \A x \in Ends : Closing(x)' BY DEF Inv, EndInv, Closing, ToldClosed
    <3> QED BY <3>1, <3>2, <3>3, <3>4, NoDataStep
  <2>2. ASSUME NEW e \in Ends, Progress(e) PROVE Inv'
    BY <2>2, CopyStep, SendSteps, RecvReturnsStep, RecvSteps DEF Progress, Errnos
  <2>3. ASSUME NEW e \in Ends, Calls(e) PROVE Inv'
    BY <2>3, SendCallStep, ReceiveCallStep, OptionSteps, SetTimeoutStep, ShutdownStep, DestroyStep
    DEF Calls
  <2>4. ASSUME NEW e \in Ends, Signal(e) PROVE Inv' BY <2>4, SendSteps, RecvSteps DEF Signal
  <2>5. ASSUME NEW e \in Ends, Network(e) PROVE Inv'
    BY <2>5, DeliverStep, DeliverFinStep, DeliverRstStep, LingerExpiresStep DEF Network
  <2> QED BY <2>1, <2>2, <2>3, <2>4, <2>5 DEF Next
<1> QED BY <1>1, <1>2, PTL DEF Spec

-----------------------------------------------------------------------------
(* The properties of the runs. *)

\* A piece of a sequence is equal to the beginning of one that has the same there.
LEMMA PieceIsBeginning ==
  ASSUME NEW s \in Seq(Nat), NEW m \in Nat, NEW t \in Seq(Nat), NEW n \in Nat,
         m + n <= Len(s), n <= Len(t), \A i \in 1..n : s[m + i] = t[i]
  PROVE  SubSeq(s, m + 1, m + n) = SubSeq(t, 1, n)
<1>1. m + n \in Nat /\ m <= m + n /\ (m + n) - m = n OBVIOUS
<1>2. /\ SubSeq(s, m + 1, m + n) \in Seq(Nat)
      /\ Len(SubSeq(s, m + 1, m + n)) = n
      /\ \A i \in 1..n : SubSeq(s, m + 1, m + n)[i] = s[m + i]
  <2>1. /\ SubSeq(s, m + 1, m + n) \in Seq(Nat)
        /\ Len(SubSeq(s, m + 1, m + n)) = (m + n) - m
        /\ \A i \in 1..(m + n) - m : SubSeq(s, m + 1, m + n)[i] = s[m + i]
    BY <1>1, Piece
  <2> QED BY <1>1, <2>1
<1>3. /\ SubSeq(t, 1, n) \in Seq(Nat) /\ Len(SubSeq(t, 1, n)) = n
      /\ \A i \in 1..n : SubSeq(t, 1, n)[i] = t[i]
  BY Beginning
<1> QED BY <1>2, <1>3, SeqEqual

\* send() and sendAll() put on the wire the beginning of their data, byte by
\* byte; a sendAll() that says Ok put all of it there; no signal ends it.
THEOREM DataIsSent == Spec => []SendsItsData
<1>1. ASSUME Inv PROVE SendsItsData
  <2>1. SUFFICES ASSUME NEW e \in Ends, call[e] \in SendCalls
                 PROVE  LET put == SubSeq(wire[e], start[e] + 1, Len(wire[e])) IN
                        /\ put = [i \in 1..Len(put) |-> base[e] + i]
                        /\ Ended(e, "sendAll") /\ ret[e].ok => Len(put) = size[e]
                        /\ Ended(e, "sendAll") => ret[e] # Err(fromOs("EINTR"))
                        /\ Ended(e, "send") => Len(put) = done[e]
    BY DEF SendsItsData, SendCalls
  <2> DEFINE put == SubSeq(wire[e], start[e] + 1, Len(wire[e]))
             f   == [i \in 1..Put(e) |-> base[e] + i]
  <2>2. Placed(e) /\ Sending(e) BY <1>1 DEF Inv, EndInv, DataInv
  <2>3. /\ start[e] \in Nat /\ base[e] \in Nat /\ done[e] \in Nat /\ copied[e] \in Nat
        /\ wire[e] \in Seq(Nat)
    BY <1>1 DEF Inv, Typed
  <2>4. Put(e) \in Nat /\ Put(e) = done[e] + copied[e] BY <2>1, <2>3 DEF Put
  <2>5. Len(wire[e]) = start[e] + Put(e) /\ \A i \in 1..Put(e) : wire[e][start[e] + i] = base[e] + i
    BY <2>1, <2>2 DEF Sending
  <2>6. f \in [1..Put(e) -> Nat] /\ \A i \in 1..Put(e) : f[i] = base[e] + i BY <2>3, <2>4
  <2> HIDE DEF f
  <2>7. f \in Seq(Nat) /\ Len(f) = Put(e) BY <2>4, <2>6, FunctionIsSeq
  <2>8. SubSeq(wire[e], start[e] + 1, start[e] + Put(e)) = SubSeq(f, 1, Put(e))
    <3>1. start[e] + Put(e) <= Len(wire[e]) /\ Put(e) <= Len(f) BY <2>3, <2>4, <2>5, <2>7
    <3>2. \A i \in 1..Put(e) : wire[e][start[e] + i] = f[i] BY <2>5, <2>6
    <3> DEFINE w == wire[e] st == start[e] n == Put(e)
    <3>3. w \in Seq(Nat) /\ f \in Seq(Nat) /\ st \in Nat /\ n \in Nat BY <2>3, <2>4, <2>7
    <3>4. st + n <= Len(w) /\ n <= Len(f) /\ \A i \in 1..n : w[st + i] = f[i] BY <3>1, <3>2
    <3> HIDE DEF w, st, n
    <3>5. SubSeq(w, st + 1, st + n) = SubSeq(f, 1, n) BY ONLY <3>3, <3>4, PieceIsBeginning
    <3> QED BY <3>5 DEF w, st, n
  <2>9. SubSeq(f, 1, Put(e)) = f BY <2>7, SubSeqFull
  <2>10. put = f BY <2>5, <2>8, <2>9
  <2>11. Len(put) = Put(e) BY <2>7, <2>10
  <2> HIDE DEF put
  <2>12. put = [i \in 1..Len(put) |-> base[e] + i] BY <2>10, <2>11 DEF f
  <2>13. pc[e] = "idle" => Len(put) = done[e] BY <2>2, <2>3, <2>4, <2>11 DEF Placed
  <2>14. Ended(e, "sendAll") => /\ ret[e].ok => Len(put) = size[e]
                                /\ ret[e] # Err(fromOs("EINTR"))
    BY <2>2, <2>13 DEF Placed, Ended, Loops
  <2>15. Ended(e, "send") => Len(put) = done[e] BY <2>13 DEF Ended
  <2> QED BY <2>12, <2>14, <2>15 DEF put
<1> QED BY <1>1, IOInvariance, PTL

\* receive() and receiveExact() put in the caller's buffer what they take from
\* the stream, in order; receiveExact() says Ok only when it is full.
THEOREM BufferIsFilled == Spec => []FillsTheBuffer
<1>1. ASSUME Inv PROVE FillsTheBuffer
  <2>1. SUFFICES ASSUME NEW e \in Ends, call[e] \in ReadCalls
                 PROVE  LET n == consumed[e] - start[e] IN
                        /\ SubSeq(buf[e], 1, n) = SubSeq(wire[Peer(e)], start[e] + 1, consumed[e])
                        /\ Ended(e, "receiveExact") /\ ret[e].ok => n = size[e]
                        /\ Ended(e, "receiveExact") => ret[e] # Err(fromOs("EINTR"))
    BY DEF FillsTheBuffer, ReadCalls
  <2> DEFINE w == wire[Peer(e)] b == buf[e] st == start[e] d == done[e]
  <2>2. Placed(e) /\ Receiving(e) /\ Flow(e) BY <1>1 DEF Inv, EndInv, DataInv
  <2>3. /\ st \in Nat /\ d \in Nat /\ consumed[e] \in Nat /\ copied[e] \in Nat /\ size[e] \in Nat
        /\ delivered[Peer(e)] \in Nat
    BY <1>1, TwoEnds DEF Inv, Typed
  <2>4. w \in Seq(Nat) /\ b \in Seq(Nat) BY <1>1, TwoEnds DEF Inv, Typed
  <2>5. Len(w) \in Nat /\ Len(b) \in Nat BY <2>4, LenProperties
  <2>6. consumed[e] = st + d /\ \A i \in 1..d : b[i] = w[st + i]
    BY <2>1, <2>2 DEF Receiving
  <2>7. st + d <= Len(w) /\ d <= Len(b) /\ consumed[e] - st = d
    <3>1. Len(b) = size[e] BY <2>1, <2>2 DEF Placed, RecvCalls
    <3> QED BY <2>2, <2>3, <2>5, <2>6, <3>1 DEF Placed, Flow
  <2>8. SubSeq(b, 1, consumed[e] - st) = SubSeq(w, st + 1, consumed[e])
    <3> HIDE DEF w, b, st, d
    <3>1. \A i \in 1..d : w[st + i] = b[i] BY <2>6
    <3>2. SubSeq(w, st + 1, st + d) = SubSeq(b, 1, d)
      BY ONLY <2>3, <2>4, <2>7, <3>1, PieceIsBeginning
    <3>3. SubSeq(b, 1, consumed[e] - st) = SubSeq(b, 1, d) BY <2>7
    <3>4. SubSeq(w, st + 1, consumed[e]) = SubSeq(w, st + 1, st + d) BY <2>6
    <3> QED BY ONLY <3>2, <3>3, <3>4
  <2>9. Ended(e, "receiveExact") => /\ ret[e].ok => consumed[e] - st = size[e]
                                    /\ ret[e] # Err(fromOs("EINTR"))
    BY <2>2, <2>7 DEF Placed, Ended, Loops
  <2> QED BY <2>8, <2>9
<1> QED BY <1>1, IOInvariance, PTL

\* What peek() showed is still the beginning of what the next read gets.
THEOREM PeekedComesNext == Spec => []PeekIsHonest
<1>1. ASSUME Inv PROVE PeekIsHonest
  <2>1. SUFFICES ASSUME NEW e \in Ends PROVE IsPrefix(peeked[e], Arrived(e))
    BY DEF PeekIsHonest
  <2> DEFINE pk == peeked[e] ar == Arrived(e) n == Len(peeked[e])
  <2>2. Flow(e) /\ Peeked(e) BY <1>1 DEF Inv, EndInv, DataInv
  <2>3. /\ ar \in Seq(Nat) /\ Len(ar) = delivered[Peer(e)] - consumed[e]
        /\ \A i \in 1..Len(ar) : ar[i] = wire[Peer(e)][consumed[e] + i]
    BY <1>1, <2>2, ArrivedBytes DEF Inv
  <2>4. pk \in Seq(Nat) BY <1>1 DEF Inv, Typed
  <2>5. n \in Nat /\ consumed[e] \in Nat /\ delivered[Peer(e)] \in Nat
    BY <1>1, <2>4, LenProperties, TwoEnds DEF Inv, Typed
  <2>6. n <= Len(ar) /\ Len(ar) \in Nat BY <2>2, <2>3, <2>5 DEF Peeked
  <2>7. \A i \in 1..n : pk[i] = ar[i]
    <3>1. \A i \in 1..n : pk[i] = wire[Peer(e)][consumed[e] + i] BY <2>2 DEF Peeked
    <3>2. \A i \in 1..n : i \in 1..Len(ar) BY <2>5, <2>6
    <3> QED BY <2>3, <3>1, <3>2
  <2>8. n <= Len(pk) BY <2>5
  <2> HIDE DEF pk, ar, n
  <2>9. SubSeq(pk, 1, n) = SubSeq(ar, 1, n)
    BY ONLY <2>3, <2>4, <2>5, <2>6, <2>7, <2>8, SameStart
  <2> QED BY <2>6, <2>9 DEF IsPrefix, pk, ar, n
<1> QED BY <1>1, IOInvariance, PTL

\* Where shutdown() closes the half it is asked to close, ConnectionClosed from
\* a read means the end of the stream.
THEOREM EndIsTheEnd == ASSUME Platform = "unix" PROVE Spec => []ClosedIsTheEnd
<1>1. ASSUME Inv PROVE ClosedIsTheEnd
  <2>1. ASSUME NEW e \in Ends, ToldClosed(e)
        PROVE  \/ "Read" \in asked[e]
               \/ broken[e]
               \/ /\ "Write" \in asked[Peer(e)] \/ closed[Peer(e)]
                  /\ consumed[e] = Len(wire[Peer(e)])
    <3>1. Closing(e) /\ Closing(Peer(e)) BY <1>1, TwoEnds DEF Inv, EndInv
    <3> QED BY <2>1, <3>1 DEF Closing
  <2> QED BY <2>1 DEF ClosedIsTheEnd
<1> QED BY <1>1, IOInvariance, PTL

-----------------------------------------------------------------------------
(* What the applications get of each other. *)

Increasing(s) == \A i, j \in 1..Len(s) : i < j => s[i] < s[j]
WireOrdered == \A e \in Ends : Increasing(wire[e])

\* What the reads of an end have handed over, over all its calls, is the
\* beginning of what the other end's sends put in, and no byte is in it twice or
\* before an earlier one.
GotInOrder == \A e \in Ends :
  LET got == read[e] \o HandedOver(e) IN
  /\ got = SubSeq(wire[Peer(e)], 1, consumed[e])
  /\ Increasing(got)

\* The byte that the kernel takes comes after all it has taken before.
LEMMA ByteIsNext ==
  ASSUME Inv, WireOrdered, NEW e \in Ends, copyByte(e)
  PROVE  WireOrdered'
<1>. DEFINE w == wire[e]
            b == base[e] + SendFrom(e) + copied[e] + 1
            v == Append(w, b)
<1>1. Placed(e) /\ Sending(e)
  BY DEF Inv, EndInv, DataInv
<1>2. /\ base[e] \in Nat /\ done[e] \in Nat /\ copied[e] \in Nat
      /\ call[e] \in SendCalls /\ wire \in [Ends -> Seq(Nat)]
  BY <1>1 DEF Inv, Typed, Placed, copyByte
<1>3. b \in Nat /\ \A i \in 1..Len(w) : w[i] < b
  <2>1. b = base[e] + Put(e) + 1 /\ Put(e) \in Nat
    BY <1>2 DEF SendFrom, Put
  <2>. HIDE DEF b
  <2>2. ASSUME NEW i \in 1..Len(w) PROVE w[i] < b
    <3>1. w[i] \in Nat
      BY <1>2, ElementOfSeq
    <3>2. w[i] <= base[e] + Put(e)
      BY <1>1 DEF Sending
    <3>. QED BY <1>2, <2>1, <3>1, <3>2
  <2>. QED BY <1>2, <2>1, <2>2
<1>4. wire' = [wire EXCEPT ![e] = v]
  BY DEF copyByte
<1>5. w \in Seq(Nat) /\ Increasing(w) /\ Len(w) \in Nat
  BY <1>2, LenProperties DEF WireOrdered
<1>. HIDE DEF b, w
<1>6. Len(v) = Len(w) + 1 /\ v[Len(w) + 1] = b /\ \A i \in 1..Len(w) : v[i] = w[i]
  BY <1>3, <1>5, AppendProperties
<1>. HIDE DEF v
<1>7. Increasing(v)
  <2>. SUFFICES ASSUME NEW i \in 1..Len(v), NEW j \in 1..Len(v), i < j PROVE v[i] < v[j]
    BY DEF Increasing
  <2>1. i \in 1..Len(w) /\ (j \in 1..Len(w) \/ j = Len(w) + 1)
    BY <1>5, <1>6
  <2>. QED BY <1>3, <1>5, <1>6, <2>1 DEF Increasing
<1>. QED BY <1>2, <1>4, <1>7 DEF WireOrdered

LEMMA WireStaysOrdered == Spec => []WireOrdered
<1>1. Init => WireOrdered
  BY DEF Init, WireOrdered, Increasing
<1>2. ASSUME Inv, WireOrdered, [Next]_vars PROVE WireOrdered'
  <2>1. CASE wire' = wire
    BY <1>2, <2>1 DEF WireOrdered
  <2>2. CASE UNCHANGED vars
    BY <2>1, <2>2 DEF vars, net
  <2>3. ASSUME NEW e \in Ends, Progress(e) PROVE WireOrdered'
    BY <1>2, <2>1, <2>3, ByteIsNext
       DEF Progress, sendReturns, sendFails, recvReturns, recvEnds, recvFails, net
  <2>4. ASSUME NEW e \in Ends, Calls(e) PROVE wire' = wire
    BY <2>4 DEF Calls, sendCall, receiveCall, setNonBlocking, setTimeout, setLinger, shutdown,
                destroy, net
  <2>5. ASSUME NEW e \in Ends, Signal(e) \/ Network(e) PROVE wire' = wire
    BY <2>5 DEF Signal, sendInterrupted, recvInterrupted, Network, deliver, deliverFin,
                deliverRst, lingerExpires, net
  <2>. QED BY <1>2, <2>1, <2>2, <2>3, <2>4, <2>5 DEF Next
<1>. QED BY <1>1, <1>2, IOInvariance, PTL DEF Spec

\* From the sends of one end to the reads of the other, in both directions, on
\* both platforms, whatever is shut down, reset or interrupted: nothing is left
\* out, made up, repeated or reordered.
THEOREM BytesComeInOrder == Spec => []GotInOrder
<1>1. ASSUME Inv, WireOrdered PROVE GotInOrder
  <2>. SUFFICES ASSUME NEW e \in Ends
                PROVE  LET got == read[e] \o HandedOver(e) IN
                       got = SubSeq(wire[Peer(e)], 1, consumed[e]) /\ Increasing(got)
    BY DEF GotInOrder
  <2>. DEFINE got == read[e] \o HandedOver(e)
              w == wire[Peer(e)]
              n == consumed[e]
  <2>1. Typed /\ Placed(e) /\ Flow(e) /\ Receiving(e)
    BY <1>1 DEF Inv, EndInv, DataInv
  <2>2. got = SubSeq(w, 1, n)
    BY <2>1, HandedOverIsRead
  <2>3. w \in Seq(Nat) /\ n \in Nat /\ delivered[Peer(e)] \in Nat /\ Len(w) \in Nat
    BY <2>1, TwoEnds, LenProperties DEF Typed
  <2>4. n <= Len(w)
    BY <2>1, <2>3 DEF Flow
  <2>5. Increasing(w)
    BY <1>1, TwoEnds DEF WireOrdered
  <2>. HIDE DEF got, w, n
  <2>6. Len(got) = n /\ \A i \in 1..n : got[i] = w[i]
    BY <2>2, <2>3, <2>4, Beginning
  <2>7. \A i \in 1..n : i \in 1..Len(w)
    BY <2>3, <2>4
  <2>8. Increasing(got)
    BY <2>5, <2>6, <2>7 DEF Increasing
  <2>. QED BY <2>2, <2>8 DEF got, w, n
<1>. QED BY <1>1, IOInvariance, WireStaysOrdered, PTL

-----------------------------------------------------------------------------
(* The pipe from the client's sends to the server's reads. *)

HandedOut == read["server"] \o HandedOver("server")

\* What the pipe has let through is the beginning of what was put in.
Through ==
  /\ HandedOut = SubSeq(wire["client"], 1, consumed["server"])
  /\ wire["client"] \in Seq(Nat) /\ consumed["server"] \in Nat
  /\ consumed["server"] <= Len(wire["client"]) /\ Len(wire["client"]) \in Nat

LEMMA InvThrough == Inv => Through
<1> SUFFICES ASSUME Inv PROVE Through OBVIOUS
<1>1. "server" \in Ends /\ "client" \in Ends /\ Peer("server") = "client"
  BY TwoEnds DEF Ends
<1>2. Typed /\ Placed("server") /\ Flow("server") /\ Receiving("server")
  BY <1>1 DEF Inv, EndInv, DataInv
<1>3. HandedOut = SubSeq(wire["client"], 1, consumed["server"])
  BY <1>1, <1>2, HandedOverIsRead DEF HandedOut
<1>4. /\ wire["client"] \in Seq(Nat) /\ consumed["server"] \in Nat
      /\ delivered["client"] \in Nat /\ Len(wire["client"]) \in Nat
  BY <1>1, <1>2, LenProperties DEF Typed
<1>5. consumed["server"] <= Len(wire["client"]) BY <1>1, <1>2, <1>4 DEF Flow
<1> QED BY <1>3, <1>4, <1>5 DEF Through

LEMMA InvThroughNext == Inv' => Through'
BY InvThrough, PTL

PipeSame ==
  /\ wire'["client"] = wire["client"] /\ consumed'["server"] = consumed["server"]
  /\ wrShut'["client"] = wrShut["client"] /\ broken'["server"] = broken["server"]
ToldSame == ToldClosed("server")' <=> ToldClosed("server")

PipeStep == [ToServer!Next]_ToServer!vars

\* When nothing moves, the reader may still ask, and be told of the end.
LEMMA QuietStep ==
  ASSUME Platform = "unix", Shutdowns \subseteq {"Write"}, Inv, Inv', PipeSame
  PROVE  PipeStep
<1>1. Through /\ Through' BY InvThrough, InvThroughNext
<1>2. HandedOut' = HandedOut BY <1>1 DEF Through, PipeSame
<1>3. CASE ~ToldClosed("server")'
  <2>1. ToldClosed("server")' = FALSE BY <1>3
  <2>2. ToServer!Ask BY <1>2, <2>1 DEF ToServer!Ask, PipeSame, HandedOut
  <2> QED BY <2>2 DEF PipeStep, ToServer!Next
<1>4. CASE ToldClosed("server")'
  <2>1. "server" \in Ends /\ "client" \in Ends /\ Peer("server") = "client"
    BY TwoEnds DEF Ends
  <2>2. Closing("server")' BY <2>1 DEF Inv, EndInv
  <2>3. ~rdShut'["server"]
    <3>1. asked'["server"] \subseteq UNION {Halves(m) : m \in Shutdowns}
          /\ (rdShut'["server"] => "Read" \in asked'["server"])
      BY <2>2 DEF Closing
    <3>2. \A m \in Shutdowns : Halves(m) = {"Write"} BY DEF Halves
    <3> QED BY <3>1, <3>2
  <2>4. broken["server"] \/ (wrShut["client"] /\ consumed["server"] = Len(wire["client"]))
    BY <1>4, <2>1, <2>2, <2>3 DEF Closing, PipeSame
  <2>5. consumed["server"] = Len(wire["client"]) => HandedOut = wire["client"]
    BY <1>1, SubSeqFull DEF Through
  <2>6. ToldClosed("server")' = TRUE BY <1>4 DEF ToldClosed
  <2>7. ToServer!Tell
    BY <1>2, <2>4, <2>5, <2>6 DEF ToServer!Tell, PipeSame, HandedOut
  <2> QED BY <2>7 DEF PipeStep, ToServer!Next
<1> QED BY <1>3, <1>4

\* The client shuts its writing half down, or the server's connection breaks.
LEMMA ClosingStep ==
  ASSUME Inv, Inv', ToldSame, wire'["client"] = wire["client"],
         consumed'["server"] = consumed["server"],
         \/ wrShut'["client"] = TRUE /\ broken'["server"] = broken["server"]
         \/ wrShut'["client"] = wrShut["client"] /\ broken'["server"] = TRUE
  PROVE  PipeStep
<1>1. HandedOut' = HandedOut BY InvThrough, InvThroughNext DEF Through
<1>2. ToldClosed("server")' = ToldClosed("server") BY DEF ToldSame, ToldClosed
<1>3. ToServer!Finish \/ ToServer!Lose
  BY <1>1, <1>2 DEF ToServer!Finish, ToServer!Lose, HandedOut
<1> QED BY <1>3 DEF PipeStep, ToServer!Next

\* The client's kernel takes a byte.
LEMMA PutStep ==
  ASSUME Inv, Inv', copyByte("client")
  PROVE  PipeStep
<1> DEFINE w == wire["client"]
           b == base["client"] + SendFrom("client") + copied["client"] + 1
           c == consumed["server"]
<1>1. "server" \in Ends /\ "client" \in Ends /\ "server" # "client" BY DEF Ends
<1>2. Placed("client") /\ Sending("client") BY <1>1 DEF Inv, EndInv, DataInv
<1>3. /\ base["client"] \in Nat /\ done["client"] \in Nat /\ copied["client"] \in Nat
      /\ size["client"] \in Nat /\ call["client"] \in SendCalls /\ pc["client"] = "send"
  BY <1>1, <1>2 DEF Inv, Typed, Placed, copyByte
<1>4. b = base["client"] + Put("client") + 1 /\ b \in Nat
  BY <1>3 DEF SendFrom, Put
<1>5. b <= MaxBytes
  <2>1. Sent("client") = size["client"] BY <1>3 DEF Sent, SendCalls
  <2>2. copied["client"] < size["client"] - done["client"] BY DEF copyByte
  <2>3. base["client"] + size["client"] <= MaxBytes BY <1>2, <2>1 DEF Sending
  <2> QED BY <1>3, <1>4, <2>2, <2>3, IOAssumption DEF Put
<1>6. b \in 1..MaxBytes BY <1>3, <1>4, <1>5, IOAssumption DEF Put
<1>7. w \in Seq(Nat) /\ wire' = [wire EXCEPT !["client"] = Append(w, b)] /\ wire \in [Ends -> Seq(Nat)]
  BY <1>1 DEF Inv, Typed, copyByte
<1>8. wire'["client"] = Append(w, b) BY <1>1, <1>7
<1>9. \A i \in 1..Len(w) : w[i] < b
  <2>1. ASSUME NEW i \in 1..Len(w) PROVE w[i] < b
    <3>1. w[i] \in Nat BY <1>7, ElementOfSeq
    <3>2. w[i] <= base["client"] + Put("client") BY <1>2 DEF Sending
    <3>3. Put("client") \in Nat BY <1>3 DEF Put
    <3> QED BY <1>3, <1>4, <3>1, <3>2, <3>3
  <2> QED BY <2>1
<1>10. HandedOut' = HandedOut
  <2>1. Through /\ Through' BY InvThrough, InvThroughNext
  <2>2. c \in Nat /\ c <= Len(w) /\ consumed' = consumed BY <2>1 DEF Through, copyByte
  <2> HIDE DEF w, b, c
  <2>3. /\ Append(w, b) \in Seq(Nat) /\ Len(Append(w, b)) = Len(w) + 1
        /\ \A i \in 1..Len(w) : Append(w, b)[i] = w[i]
    BY <1>4, <1>7, AppendProperties
  <2>4. c <= Len(Append(w, b)) /\ \A i \in 1..c : w[i] = Append(w, b)[i]
    <3>1. Len(w) \in Nat BY <1>7, LenProperties
    <3> QED BY <2>2, <2>3, <3>1
  <2>5. SubSeq(w, 1, c) = SubSeq(Append(w, b), 1, c)
    BY <1>7, <2>2, <2>3, <2>4, SameStart
  <2> QED BY <1>8, <2>1, <2>2, <2>5 DEF Through, w, c
<1>11. ToldClosed("server")' = ToldClosed("server")
  BY DEF ToldClosed, copyByte, args
<1>12. wrShut' = wrShut /\ broken' = broken /\ ~wrShut["client"]
  BY DEF copyByte, conn, CanWrite
<1> HIDE DEF b
<1>13. ToServer!Put(b)
  BY <1>8, <1>9, <1>10, <1>11, <1>12 DEF ToServer!Put, HandedOut
<1> QED BY <1>6, <1>13 DEF PipeStep, ToServer!Next

\* The server's kernel hands bytes over.
LEMMA TakeStep ==
  ASSUME Platform = "unix", Shutdowns \subseteq {"Write"}, Inv, Inv', recvReturns("server")
  PROVE  PipeStep
<1> DEFINE c == consumed["server"]
           got == SubSeq(Arrived("server"), 1,
                         Min({size["server"] - done["server"], Len(Arrived("server"))}))
           k == Len(got)
<1>1. "server" \in Ends /\ "client" \in Ends /\ "server" # "client" BY DEF Ends
<1>2. Through /\ Through' BY InvThrough, InvThroughNext
<1>3. /\ wire' = wire /\ wrShut' = wrShut /\ broken' = broken /\ pc["server"] = "recv"
      /\ call' = call /\ size' = size
  BY DEF recvReturns, Reading, conn, args
<1>4. CASE consumed'["server"] = c
  BY <1>3, <1>4, QuietStep DEF PipeSame
<1>5. CASE consumed'["server"] # c
  <2>1. consumed' = [consumed EXCEPT !["server"] = c + k] /\ Finish("server", k, NoOs)
    BY <1>5 DEF recvReturns
  <2>2. consumed'["server"] = c + k BY <1>1, <2>1 DEF Inv, Typed
  <2>3. k \in Nat
    <3>1. Flow("server") /\ Placed("server") /\ Typed BY <1>1 DEF Inv, EndInv, DataInv
    <3>2. Arrived("server") \in Seq(Nat) BY <1>1, <3>1, ArrivedBytes
    <3>3. size["server"] - done["server"] \in Nat
      <4>1. size["server"] \in Nat /\ done["server"] \in Nat /\ copied["server"] \in Nat
        BY <1>1, <3>1 DEF Typed
      <4> QED BY <3>1, <4>1 DEF Placed
    <3>4. Len(Arrived("server")) \in Nat BY <3>2, LenProperties
    <3> DEFINE m == Min({size["server"] - done["server"], Len(Arrived("server"))})
    <3>5. m \in Nat /\ m <= Len(Arrived("server")) BY <3>3, <3>4, MinOfTwo
    <3>6. k = Len(SubSeq(Arrived("server"), 1, m)) OBVIOUS
    <3> HIDE DEF m, k
    <3>7. Len(SubSeq(Arrived("server"), 1, m)) = m BY <3>2, <3>5, Beginning
    <3> QED BY <3>5, <3>6, <3>7
  <2> HIDE DEF k
  <2>4. k > 0 BY <1>2, <1>5, <2>2, <2>3 DEF Through
  <2>5. ToldClosed("server")' = ToldClosed("server")
    <3>1. pc'["server"] = "idle" => ret'["server"].ok
      <4>1. ioResult(k, NoOs) = Ok BY <2>3, <2>4 DEF ioResult
      <4>2. Ok.ok BY DEF Ok
      <4>3. DOMAIN ret = Ends /\ pc \in [Ends -> {"idle", "send", "recv"}] BY DEF Inv, Typed
      <4> QED BY <1>1, <1>3, <2>1, <4>1, <4>2, <4>3 DEF Finish
    <3>2. ~ToldClosed("server")' BY <3>1 DEF ToldClosed, Err
    <3>3. ~ToldClosed("server") BY <1>3 DEF ToldClosed
    <3> QED BY <3>2, <3>3 DEF ToldClosed
  <2>6. Len(HandedOut) = c BY <1>2, Beginning DEF Through
  <2>7. c \in Nat /\ c + k <= Len(wire["client"]) /\ Len(wire["client"]) \in Nat
    BY <1>2, <1>3, <2>2 DEF Through
  <2>8. HandedOut' = SubSeq(wire["client"], 1, Len(HandedOut) + k)
    BY <1>2, <1>3, <2>2, <2>6 DEF Through
  <2>9. k \in 1..Len(wire["client"]) BY <2>3, <2>4, <2>7
  <2>10. ToServer!Take(k)
    BY <1>3, <2>5, <2>6, <2>7, <2>8 DEF ToServer!Take, HandedOut
  <2> QED BY <2>9, <2>10 DEF PipeStep, ToServer!Next
<1> QED BY <1>4, <1>5

\* Every other step.
LEMMA OtherStep ==
  ASSUME Platform = "unix", Shutdowns \subseteq {"Write"}, Inv, Inv', NEW e \in Ends,
         \/ UNCHANGED <<net, wrShut, broken>>
         \/ copyByte("server") \/ recvReturns("client")
         \/ \E m \in Shutdowns : shutdown(e, m)
         \/ destroy(e) \/ deliver(e) \/ deliverRst(e)
  PROVE  PipeStep
<1>1. "server" \in Ends /\ "client" \in Ends /\ "server" # "client" BY DEF Ends
<1>2. /\ wire \in [Ends -> Seq(Nat)] /\ consumed \in [Ends -> Nat]
      /\ wrShut \in [Ends -> BOOLEAN] /\ broken \in [Ends -> BOOLEAN]
      /\ call \in [Ends -> AnyCall] /\ DOMAIN ret = Ends
  BY DEF Inv, Typed
<1>3. CASE UNCHANGED <<net, wrShut, broken>> BY <1>3, QuietStep DEF PipeSame, net
<1>4. CASE copyByte("server")
  <2>1. wire'["client"] = wire["client"] BY <1>1, <1>2, <1>4 DEF copyByte
  <2> QED BY <1>4, <2>1, QuietStep DEF PipeSame, copyByte, conn
<1>5. CASE recvReturns("client")
  <2>1. consumed'["server"] = consumed["server"] BY <1>1, <1>2, <1>5 DEF recvReturns
  <2> QED BY <1>5, <2>1, QuietStep DEF PipeSame, recvReturns, conn
<1>6. ASSUME NEW m \in Shutdowns, shutdown(e, m) PROVE PipeStep
  <2>1. wire' = wire /\ consumed' = consumed /\ broken' = broken /\ pc' = pc /\ size' = size
    BY <1>6 DEF shutdown, net
  <2>2. CASE wrShut'["client"] = wrShut["client"] BY <2>1, <2>2, QuietStep DEF PipeSame
  <2>3. CASE wrShut'["client"] # wrShut["client"]
    <3>1. e = "client" /\ wrShut'["client"] = TRUE
      <4>1. wrShut' = wrShut \/ wrShut' = [wrShut EXCEPT ![e] = wrShut[e] \/ "Write" \in How(m)]
        BY <1>6 DEF shutdown
      <4> QED BY <1>1, <1>2, <2>3, <4>1
    <3>2. /\ call' = [call EXCEPT !["client"] = "option"]
          /\ \E r : ret' = [ret EXCEPT !["client"] = r]
      BY <1>6, <3>1 DEF shutdown, Returned
    <3>3. call'["server"] = call["server"] /\ ret'["server"] = ret["server"] BY <1>1, <1>2, <3>2
    <3>4. ToldSame BY <2>1, <3>3 DEF ToldSame, ToldClosed
    <3> QED BY <2>1, <3>1, <3>4, ClosingStep
  <2> QED BY <2>2, <2>3
<1>7. CASE destroy(e) \/ deliver(e) \/ deliverRst(e)
  <2>1. /\ wire' = wire /\ consumed' = consumed /\ pc' = pc /\ size' = size
        /\ call' = call /\ ret' = ret
    BY <1>7 DEF destroy, deliver, deliverRst, net, args
  <2>2. ToldSame BY <2>1 DEF ToldSame, ToldClosed
  <2>3. \/ PipeSame
        \/ wrShut'["client"] = TRUE /\ broken'["server"] = broken["server"]
        \/ wrShut'["client"] = wrShut["client"] /\ broken'["server"] = TRUE
    <3>1. CASE destroy(e)
      <4>1. wrShut' = [wrShut EXCEPT ![e] = TRUE] /\ broken' = broken BY <3>1 DEF destroy
      <4> QED BY <1>1, <1>2, <2>1, <4>1 DEF PipeSame
    <3>2. CASE deliver(e) \/ deliverRst(e)
      <4>1. wrShut' = wrShut /\ \E x \in Ends : broken' = [broken EXCEPT ![x] = TRUE] \/ broken' = broken
        BY <3>2, TwoEnds DEF deliver, deliverRst, Break
      <4> QED BY <1>1, <1>2, <2>1, <4>1 DEF PipeSame
    <3> QED BY <1>7, <3>1, <3>2
  <2> QED BY <2>1, <2>2, <2>3, QuietStep, ClosingStep
<1> QED BY <1>3, <1>4, <1>5, <1>6, <1>7

\* The two streams implement the pipe, where shutdown() closes the half it is
\* asked to close and no reader gives up: what the server's reads hand over is
\* what the client's sends put in, and the end is told when it is the end.
THEOREM StreamsAreAPipe ==
  ASSUME Platform = "unix", Shutdowns \subseteq {"Write"}
  PROVE  Spec => ImplementsPipe
<1>1. Init => ToServer!Init
  <2>1. ASSUME Init PROVE ToServer!Init
    <3>1. "server" \in Ends /\ "client" \in Ends BY DEF Ends
    <3>2. HandedOver("server") = <<>> /\ ~ToldClosed("server")
      BY <2>1, <3>1 DEF Init, HandedOver, ToldClosed
    <3>3. <<>> \o <<>> = <<>> BY EmptySeq, ConcatEmptySeq
    <3>4. ToldClosed("server") = FALSE BY <3>2
    <3> QED BY <2>1, <3>1, <3>2, <3>3, <3>4 DEF Init, ToServer!Init
  <2> QED BY <2>1
<1>2. Inv /\ Inv' /\ [Next]_vars => PipeStep
  <2> SUFFICES ASSUME Inv, Inv', [Next]_vars PROVE PipeStep OBVIOUS
  <2>1. "server" \in Ends BY DEF Ends
  <2>2. CASE UNCHANGED vars BY <2>1, <2>2, OtherStep DEF vars, conn
  <2>3. ASSUME NEW e \in Ends, Progress(e) PROVE PipeStep
    <3>1. CASE copyByte(e) \/ recvReturns(e)
      <4>1. e = "client" \/ e = "server" BY DEF Ends
      <4> QED BY <2>1, <3>1, <4>1, PutStep, TakeStep, OtherStep
    <3>2. CASE ~(copyByte(e) \/ recvReturns(e))
      <4>1. UNCHANGED <<net, wrShut, broken>>
        BY <2>3, <3>2 DEF Progress, sendReturns, sendFails, recvEnds, recvFails, conn
      <4> QED BY <4>1, OtherStep
    <3> QED BY <3>1, <3>2
  <2>4. ASSUME NEW e \in Ends, Calls(e) PROVE PipeStep
    <3>1. \/ UNCHANGED <<net, wrShut, broken>>
          \/ \E m \in Shutdowns : shutdown(e, m)
          \/ destroy(e)
      BY <2>4 DEF Calls, sendCall, receiveCall, setNonBlocking, setTimeout, setLinger, conn
    <3> QED BY <3>1, OtherStep
  <2>5. ASSUME NEW e \in Ends, Signal(e) PROVE PipeStep
    <3>1. UNCHANGED <<net, wrShut, broken>>
      BY <2>5 DEF Signal, sendInterrupted, recvInterrupted, conn
    <3> QED BY <3>1, OtherStep
  <2>6. ASSUME NEW e \in Ends, Network(e) PROVE PipeStep
    <3>1. \/ UNCHANGED <<net, wrShut, broken>>
          \/ deliver(e) \/ deliverRst(e)
      BY <2>6 DEF Network, deliverFin, lingerExpires
    <3> QED BY <3>1, OtherStep
  <2> QED BY <2>2, <2>3, <2>4, <2>5, <2>6 DEF Next
<1> QED BY <1>1, <1>2, IOInvariance, PTL DEF Spec, ImplementsPipe, ToServer!Spec, PipeStep

=============================================================================
