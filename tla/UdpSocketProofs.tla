--------------------------- MODULE UdpSocketProofs ---------------------------
(***************************************************************************)
(* UdpSocket proved for any peers, platforms, sizes and queue: datagrams   *)
(* go where they are sent, senders can be answered, a peek shows what the  *)
(* next read gets, and no failing call loses a datagram but those that are *)
(* named.                                                                  *)
(***************************************************************************)
EXTENDS UdpSocket, SequenceTheorems, TLAPS

Datagrams == [id : Nat, from : Peers, len : Nat]

\* A peer whose datagrams this socket can get at all.
Hears(p) == p \in Peers /\ (p \in V4Peers \/ ipv6)

(***************************************************************************)
(* The inductive invariant.                                                *)
(***************************************************************************)
Typed ==
  /\ platform \in Platforms /\ ipv6 \in BOOLEAN
  /\ queue \in Seq(Datagrams)
  /\ soErr \in {NoOs, "ECONNREFUSED"}
  /\ arrivals \in Nat /\ showed \in Nat

Heard == \A i \in 1..Len(queue) : Hears(queue[i].from)

\* The sender that was reported is the source's address as this socket sees it.
SenderIsSource == source # NoPeer => Hears(source) /\ sender = fromSockAddr(SockAddr(source))

Inv == Typed /\ Heard /\ SenderIsSource /\ SentWhereItSays /\ BothFamilies /\ PeekIsHonest

-----------------------------------------------------------------------------
\* No error but the one for an address of the wrong family reads like that one.
LEMMA OtherErrors ==
  ASSUME NEW errno \in {NoOs, "ECONNREFUSED", "EWOULDBLOCK", "EMSGSIZE", "EDESTADDRREQ",
                     "EINVAL", "EHOSTUNREACH"}
  PROVE  OsError(errno) # fromOs("EAFNOSUPPORT")
BY DEF OsError, lastOsError, fromOs, Error, NoOs

LEMMA CodesAreNotOs ==
  ASSUME NEW code PROVE Error(code) # fromOs("EAFNOSUPPORT")
BY DEF fromOs, Error, NoOs

\* A dual-stack socket reaches every address, and the conversion keeps the peer.
LEMMA ConversionReaches ==
  ASSUME NEW a
  PROVE  /\ ipv6 => Reaches(constructDestAddr(a))
         /\ constructDestAddr(a).peer = a.peer
BY DEF Reaches, constructDestAddr, toSockAddr, fromIpv4Mapped, MappedAddress, isV4, isV6

\* A dual-stack socket is refused no sockaddr for its form.
LEMMA RefusedForTheScope ==
  ASSUME NEW s, ipv6 => Reaches(s), NEW errno \in Refusals(s)
  PROVE  ipv6 => Fails(OsError(errno)).err # fromOs("EAFNOSUPPORT")
BY OtherErrors DEF Refusals, Fails

LEMMA OldestDatagram ==
  ASSUME Typed, Heard, queue # <<>>
  PROVE  /\ Head(queue) \in Datagrams /\ Hears(Head(queue).from)
         /\ Tail(queue) \in Seq(Datagrams)
         /\ Len(Tail(queue)) = Len(queue) - 1
         /\ \A i \in 1..Len(Tail(queue)) : Tail(queue)[i] = queue[i + 1]
BY HeadTailProperties DEF Typed, Heard

\* What a receive leaves of the queue and what it says of peeking and errors.
LEMMA QueueAfterReceive ==
  ASSUME Typed, Heard, PeekIsHonest, queue # <<>>, NEW peeking \in BOOLEAN,
         queue' = AfterReceive(peeking),
         showed' = (IF peeking THEN Head(queue).id ELSE NoId),
         UNCHANGED <<build, arrivals>>, soErr' \in {NoOs, "ECONNREFUSED"}
  PROVE  Typed' /\ Heard' /\ PeekIsHonest'
<1>1. CASE peeking
  BY <1>1, OldestDatagram DEF Typed, Heard, Hears, PeekIsHonest, AfterReceive, build, Datagrams
<1>2. CASE ~peeking
  <2>1. queue' = Tail(queue) /\ showed' = NoId BY <1>2 DEF AfterReceive
  <2>2. Heard' BY <2>1, OldestDatagram DEF Heard, Hears, Typed, build
  <2> QED BY <2>1, <2>2, OldestDatagram DEF Typed, PeekIsHonest, build, NoId
<1> QED BY <1>1, <1>2

LEMMA ReceiveKeeps ==
  ASSUME Inv, NEW size, NEW peeking \in BOOLEAN, Receive(size, peeking),
         UNCHANGED <<build, arrivals>>
  PROVE  /\ Typed' /\ Heard' /\ PeekIsHonest'
         /\ ret'.err # fromOs("EAFNOSUPPORT")
         /\ ret'.ok => queue # <<>>
         /\ Len(queue') < Len(queue) =>
              \/ ret'.ok /\ ret'.id = Head(queue).id
              \/ platform = "win32" /\ ret' = Fails(OsError("EMSGSIZE"))
<1>1. CASE ReportPending /\ UNCHANGED <<queue, showed>>
  <2>1. ret' = Fails(OsError(soErr)) /\ soErr' = NoOs BY <1>1 DEF ReportPending
  <2>2. ret'.err # fromOs("EAFNOSUPPORT") BY <2>1, OtherErrors DEF Fails, Inv, Typed
  <2> QED BY <1>1, <2>1, <2>2 DEF Inv, Typed, Heard, Hears, PeekIsHonest, build, Fails
<1>2. CASE soErr' = soErr /\ ret' = Fails(OsError("EWOULDBLOCK")) /\ UNCHANGED <<queue, showed>>
  <2>1. ret'.err # fromOs("EAFNOSUPPORT") BY <1>2, OtherErrors DEF Fails
  <2> QED BY <1>2, <2>1 DEF Inv, Typed, Heard, Hears, PeekIsHonest, build, Fails
<1>3. CASE /\ queue # <<>> /\ soErr' = soErr /\ ret' = Shortened(Head(queue), size)
           /\ queue' = AfterReceive(peeking)
           /\ showed' = IF peeking THEN Head(queue).id ELSE NoId
  <2>1. Typed' /\ Heard' /\ PeekIsHonest' BY <1>3, QueueAfterReceive DEF Inv, Typed
  <2>2. /\ ret'.err # fromOs("EAFNOSUPPORT")
        /\ \/ ret'.ok /\ ret'.id = Head(queue).id
           \/ /\ platform = "win32" /\ ret' = Fails(OsError("EMSGSIZE"))
              /\ ~ret'.ok
    BY <1>3, OtherErrors, CodesAreNotOs DEF Shortened, Got, Fails
  <2> QED BY <1>3, <2>1, <2>2
<1> QED BY <1>1, <1>2, <1>3 DEF Receive

-----------------------------------------------------------------------------
(* Every action keeps the invariant *)

LEMMA ArriveStep ==
  ASSUME Inv, NEW p \in Peers, NEW len \in Lens, Arrive(p, len) PROVE Inv'
<1> DEFINE d == [id |-> arrivals + 1, from |-> p, len |-> len]
<1>1. d \in Datagrams /\ Hears(p) BY UdpAssumption DEF Datagrams, Arrive, Hears, Inv, Typed
<1>2. CASE queue' = queue
  BY <1>2 DEF Inv, Typed, Heard, Hears, SenderIsSource, SentWhereItSays, BothFamilies,
              PeekIsHonest, SockAddr, Arrive, build, hist
<1>3. CASE queue' = Append(queue, d)
  <2>1. queue' \in Seq(Datagrams) /\ Len(queue') = Len(queue) + 1
    BY <1>1, <1>3 DEF Inv, Typed
  <2>2. \A i \in 1..Len(queue) : queue'[i] = queue[i] BY <1>1, <1>3 DEF Inv, Typed
  <2>3. queue'[Len(queue) + 1] = d BY <1>1, <1>3 DEF Inv, Typed
  <2>4. Heard'
    BY <1>1, <2>1, <2>2, <2>3 DEF Heard, Hears, Inv, Typed, Arrive, build
  <2>5. PeekIsHonest'
    <3>1. CASE queue = <<>> BY <3>1 DEF PeekIsHonest, Inv, Arrive, hist
    <3>2. CASE queue # <<>>
      <4>1. Head(queue') = Head(queue) /\ queue' # <<>>
        BY <3>2, <2>1, <2>2 DEF Inv, Typed
      <4> QED BY <4>1 DEF PeekIsHonest, Inv, Arrive, hist
    <3> QED BY <3>1, <3>2
  <2> QED BY <2>1, <2>4, <2>5 DEF Inv, Typed, Hears, SenderIsSource, SentWhereItSays,
                                  BothFamilies, SockAddr, Arrive, build, hist
<1> QED BY <1>2, <1>3 DEF Arrive

\* The calls that leave the queue and what was received alone.
LEMMA ConnectStep ==
  ASSUME Inv, \/ Icmp \/ disconnect \/ \E p \in Peers : connect(p) PROVE Inv'
<1>1. CASE Icmp
  BY <1>1 DEF Inv, Typed, Heard, Hears, SenderIsSource, SentWhereItSays, BothFamilies,
              PeekIsHonest, SockAddr, Icmp, build, hist
<1>2. CASE disconnect
  BY <1>2 DEF Inv, Typed, Heard, Hears, SenderIsSource, SentWhereItSays, BothFamilies,
              PeekIsHonest, SockAddr, disconnect, build, hist
<1>3. ASSUME NEW p \in Peers, connect(p) PROVE Inv'
  <2> DEFINE s == constructDestAddr(AddressOf(p))
  <2>1. ipv6 => Reaches(s) BY ConversionReaches
  <2>2. ret' = Done \/ \E errno \in Refusals(s) : ret' = Fails(OsError(errno))
    BY <1>3 DEF connect
  <2> HIDE DEF s
  <2>3. BothFamilies'
    BY <1>3, <2>1, <2>2, RefusedForTheScope, CodesAreNotOs DEF BothFamilies, Done, connect, build
  <2> QED BY <1>3, <2>3 DEF Inv, Typed, Heard, Hears, SenderIsSource, SentWhereItSays,
                            PeekIsHonest, SockAddr, connect, build, hist
<1> QED BY <1>1, <1>2, <1>3

LEMMA SendToStep == ASSUME Inv, NEW a, sendTo(a) PROVE Inv'
<1> DEFINE c == constructDestAddr(a)
<1>1. c.peer = a.peer /\ (ipv6 => Reaches(c)) BY ConversionReaches
<1>2. soErr' \in {NoOs, "ECONNREFUSED"}
  BY DEF sendTo, SendDatagram, ReportPending, Inv, Typed
<1>3. SentWhereItSays'
  BY <1>1 DEF SentWhereItSays, sendTo, SendDatagram, ReportPending, Fails, Destinations, Strays
<1>4. BothFamilies'
  <2>1. CASE ReportPending
    BY <2>1, OtherErrors DEF ReportPending, BothFamilies, Fails, Inv, Typed
  <2>2. CASE ~ReportPending
    <3>1. ret' = Done \/ \E errno \in Refusals(c) : ret' = Fails(OsError(errno))
      BY <2>2 DEF sendTo, SendDatagram
    <3> HIDE DEF c
    <3> QED BY <1>1, <3>1, RefusedForTheScope, CodesAreNotOs DEF sendTo, BothFamilies, Done, build
  <2> QED BY <2>1, <2>2
<1> QED BY <1>2, <1>3, <1>4
        DEF Inv, Typed, Heard, Hears, SenderIsSource, PeekIsHonest, SockAddr, sendTo, build

LEMMA SendStep == ASSUME Inv, send PROVE Inv'
<1>1. soErr' \in {NoOs, "ECONNREFUSED"} BY DEF send, ReportPending, Inv, Typed
<1>2. SentWhereItSays' BY DEF SentWhereItSays, send, ReportPending, Fails
<1>3. BothFamilies'
  BY OtherErrors, CodesAreNotOs DEF send, ReportPending, BothFamilies, Fails, Done, Inv, Typed, build
<1> QED BY <1>1, <1>2, <1>3
        DEF Inv, Typed, Heard, Hears, SenderIsSource, PeekIsHonest, SockAddr, send, build

LEMMA RecvStep ==
  ASSUME Inv, NEW size, NEW peeking \in BOOLEAN, recv(size, peeking) PROVE Inv'
<1>1. Receive(size, peeking) /\ UNCHANGED <<build, arrivals>> BY DEF recv
<1>2. Typed' /\ Heard' /\ PeekIsHonest' /\ ret'.err # fromOs("EAFNOSUPPORT")
  BY <1>1, ReceiveKeeps
<1> QED BY <1>2 DEF Inv, SenderIsSource, Hears, SockAddr, SentWhereItSays, BothFamilies, recv, build

LEMMA RecvFromStep ==
  ASSUME Inv, NEW size, NEW peeking \in BOOLEAN, recvFrom(size, peeking) PROVE Inv'
<1>1. Receive(size, peeking) /\ UNCHANGED <<build, arrivals>> BY DEF recvFrom
<1>2. /\ Typed' /\ Heard' /\ PeekIsHonest' /\ ret'.err # fromOs("EAFNOSUPPORT")
      /\ ret'.ok => queue # <<>>
  BY <1>1, ReceiveKeeps
<1>3. SenderIsSource'
  <2>1. CASE ret'.ok
    BY <1>2, <2>1, OldestDatagram DEF Inv, SenderIsSource, Hears, SockAddr, fromSockAddr, SenderIs, recvFrom, build
  <2>2. CASE ~ret'.ok
    BY <2>2 DEF Inv, SenderIsSource, Hears, SockAddr, fromSockAddr, SenderIs, recvFrom, build
  <2> QED BY <2>1, <2>2
<1> QED BY <1>2, <1>3 DEF Inv, SentWhereItSays, BothFamilies, recvFrom, build

LEMMA RecvFromTypedStep ==
  ASSUME Inv, NEW family \in {"V4", "V6"}, NEW size, NEW peeking \in BOOLEAN,
         recvFromTyped(family, size, peeking)
  PROVE  Inv'
<1>1. CASE Misfit(family, size)
  <2>1. queue # <<>> BY <1>1 DEF Misfit
  <2>2. Typed' /\ Heard' /\ PeekIsHonest'
    BY <1>1, <2>1, QueueAfterReceive DEF recvFromTyped, Inv, Typed
  <2>3. ret'.err # fromOs("EAFNOSUPPORT")
    BY <1>1, CodesAreNotOs DEF recvFromTyped, Fails
  <2> QED BY <1>1, <2>2, <2>3 DEF Inv, SenderIsSource, Hears, SockAddr, SentWhereItSays,
                                  BothFamilies, recvFromTyped, build
<1>2. CASE ~Misfit(family, size)
  <2>1. Receive(size, peeking) /\ UNCHANGED <<build, arrivals>> BY <1>2 DEF recvFromTyped
  <2>2. /\ Typed' /\ Heard' /\ PeekIsHonest' /\ ret'.err # fromOs("EAFNOSUPPORT")
        /\ ret'.ok => queue # <<>>
    BY <2>1, ReceiveKeeps
  <2>3. SenderIsSource'
    <3>1. CASE ret'.ok
      BY <1>2, <2>2, <3>1, OldestDatagram
      DEF Inv, SenderIsSource, Hears, SockAddr, fromSockAddr, SenderIs, recvFromTyped, build
    <3>2. CASE ~ret'.ok
      BY <1>2, <2>2, <3>2 DEF SenderIsSource, recvFromTyped
    <3> QED BY <3>1, <3>2
  <2> QED BY <1>2, <2>2, <2>3 DEF Inv, SentWhereItSays, BothFamilies, recvFromTyped, build
<1> QED BY <1>1, <1>2

-----------------------------------------------------------------------------
\* The inductive invariant holds of every behaviour.
THEOREM UdpInvariance == Spec => []Inv
<1>1. Init => Inv
  BY DEF Init, Inv, Typed, Heard, SenderIsSource, SentWhereItSays, BothFamilies, PeekIsHonest,
         Done, Error, fromOs, NoId, Datagrams
<1>2. ASSUME Inv, [Next]_vars PROVE Inv'
  <2>1. CASE UNCHANGED vars
    BY <1>2, <2>1 DEF Inv, Typed, Heard, Hears, SenderIsSource, SockAddr, SentWhereItSays,
                      BothFamilies, PeekIsHonest, vars, build, kernel, hist
  <2>2. CASE Next
    BY <1>2, <2>2, ArriveStep, ConnectStep, SendToStep, SendStep, RecvStep, RecvFromStep,
       RecvFromTypedStep DEF Next
  <2> QED BY <1>2, <2>1, <2>2
<1> QED BY <1>1, <1>2, PTL DEF Spec

\* SentWhereItSays: a datagram that is said to be sent went to the peer named.
THEOREM SentToTheNamed == Spec => []SentWhereItSays
<1>1. Inv => SentWhereItSays BY DEF Inv
<1> QED BY <1>1, UdpInvariance, PTL

\* BothFamilies: a dual-stack socket refuses no address for its form.
THEOREM EveryFormIsTaken == Spec => []BothFamilies
<1>1. Inv => BothFamilies BY DEF Inv
<1> QED BY <1>1, UdpInvariance, PTL

\* PeekIsHonest: what peek showed is what the next read returns.
THEOREM ThePeekIsTheNext == Spec => []PeekIsHonest
<1>1. Inv => PeekIsHonest BY DEF Inv
<1> QED BY <1>1, UdpInvariance, PTL

\* AnswerArrives: the sender that recvFrom() reported can be answered unless it
\* is link-local, and the answer goes to the peer the datagram came from.
THEOREM SendersCanBeAnswered == Spec => []AnswerArrives
<1>1. ASSUME Inv, source \in Peers \ LinkLocal
      PROVE  /\ Reaches(constructDestAddr(sender))
             /\ Destinations(constructDestAddr(sender)) = {source}
  <2>1. source # NoPeer BY <1>1, UdpAssumption DEF NoPeer
  <2>2. Hears(source) /\ sender = fromSockAddr(SockAddr(source))
    BY <1>1, <2>1 DEF Inv, SenderIsSource
  <2>3. sender.peer = source /\ (~ipv6 => isV4(sender))
    BY <2>2 DEF Hears, fromSockAddr, SockAddr, AddressOf, V4Address, V6Address, MappedAddress, isV4
  <2>4. constructDestAddr(sender).peer = source /\ (ipv6 => Reaches(constructDestAddr(sender)))
    BY <2>3, ConversionReaches
  <2>5. Reaches(constructDestAddr(sender))
    BY <2>3, <2>4 DEF Reaches, constructDestAddr, toSockAddr, isV4
  <2> QED BY <1>1, <2>4, <2>5 DEF Destinations, Strays
<1>2. Inv => AnswerArrives BY <1>1 DEF AnswerArrives
<1> QED BY <1>2, UdpInvariance, PTL

\* TakenIsGiven: no datagram is lost by a call that fails, but for a sender of
\* the family the caller does not want, and on win32 a buffer that is too small.
THEOREM NoneIsLost == Spec => TakenIsGiven
<1> DEFINE Given == Len(queue') < Len(queue) =>
             \/ ret'.ok /\ ret'.id = Head(queue).id
             \/ ret'.err = Error("UnsupportedFamily")
             \/ platform = "win32" /\ ret' = Fails(OsError("EMSGSIZE"))
<1>1. ASSUME Inv, [Next]_vars PROVE [Given]_vars
  <2>1. ASSUME NEW p \in Peers, NEW len \in Lens, Arrive(p, len) PROVE Given
    BY <1>1, <2>1 DEF Arrive, Inv, Typed
  <2>2. ASSUME NEW size, NEW peeking \in BOOLEAN,
               recv(size, peeking) \/ recvFrom(size, peeking)
        PROVE  Given
    <3>1. Receive(size, peeking) /\ UNCHANGED <<build, arrivals>> BY <2>2 DEF recv, recvFrom
    <3> QED BY <1>1, <3>1, ReceiveKeeps
  <2>3. ASSUME NEW family \in {"V4", "V6"}, NEW size, NEW peeking \in BOOLEAN,
               recvFromTyped(family, size, peeking)
        PROVE  Given
    <3>1. CASE Misfit(family, size) BY <2>3, <3>1 DEF recvFromTyped, Fails
    <3>2. CASE ~Misfit(family, size)
      <4>1. Receive(size, peeking) /\ UNCHANGED <<build, arrivals>>
        BY <2>3, <3>2 DEF recvFromTyped
      <4> QED BY <1>1, <4>1, ReceiveKeeps
    <3> QED BY <3>1, <3>2
  <2>4. ASSUME UNCHANGED queue PROVE Given BY <1>1, <2>4 DEF Inv, Typed
  <2>5. CASE Next
    BY <2>1, <2>2, <2>3, <2>4, <2>5 DEF Next, Icmp, disconnect, send, sendTo, connect
  <2> QED BY <1>1, <2>5
<1> QED BY <1>1, UdpInvariance, PTL DEF Spec, TakenIsGiven

=============================================================================
