------------------------------ MODULE UdpSocket ------------------------------
(***************************************************************************)
(* One UdpSocket: connect, disconnect, sendTo, send, recvFrom with its     *)
(* three kinds of sender, recv, and the peeking versions, over a kernel    *)
(* receive queue that peers of both families fill whenever they like.  A   *)
(* peer is known by its name; an address names a peer and says in which    *)
(* form: as an IPv4 address, an IPv6 address, or mapped into IPv6.  The    *)
(* link-local IPv6 address of a peer names it on one link only: a sockaddr *)
(* has a scope that says on which, the addresses of the library have none. *)
(***************************************************************************)
EXTENDS Errors, Integers, Sequences, SequencesExt

CONSTANTS
  Platforms,   \* "linux", "bsd", "win32": the builds and their kernels
  V4Peers,     \* peers with IPv4 addresses
  V6Peers,     \* peers with IPv6 addresses
  LinkLocal,   \* those of them that are known by a link-local one
  Senders,     \* which recvFrom/peekFrom are called: "any", "V4", "V6"
  Sizes,       \* buffer sizes
  Lens,        \* datagram sizes
  QueueCap,    \* capacity of the receive queue, in datagrams
  MaxArrivals  \* bound: datagrams that peers send

Peers == V4Peers \cup V6Peers

ASSUME UdpAssumption ==
  /\ Platforms \subseteq {"linux", "bsd", "win32"}
  /\ V4Peers \cap V6Peers = {}
  /\ LinkLocal \subseteq V6Peers
  /\ Peers \cap {"none", "elsewhere"} = {}
  /\ Senders \subseteq {"any", "V4", "V6"}
  /\ Sizes \subseteq Nat /\ Lens \subseteq Nat
  /\ QueueCap \in Nat \ {0} /\ MaxArrivals \in Nat

VARIABLES
  platform,  \* which of them this program is
  ipv6,      \* UdpSocket::ipv6, and the family of the descriptor
  peer,      \* kernel: the peer it is connected to, or NoPeer
  queue,     \* kernel: the datagrams received, oldest first
  soErr,     \* kernel: an ICMP error that was not reported yet
  arrivals,  \* datagrams the peers have sent
  wire,      \* history: the peer the latest datagram went to
  dest,      \* history: the peer that call named, when it was a send
  sender,    \* the sender argument of the latest recvFrom or peekFrom
  source,    \* history: the peer whose datagram that sender came with
  call,      \* which kind of member was called last
  showed,    \* history: the datagram peek showed since the last read
  ret

kernel == <<peer, queue, soErr>>
hist   == <<wire, dest, sender, source, showed>>
build  == <<platform, ipv6>>
vars   == <<build, kernel, arrivals, hist, call, ret>>

NoPeer == "none"
Elsewhere == "elsewhere"   \* whoever has a peer's link-local address on another link
NoId   == 0

OsError(errno) == lastOsError(IF platform = "win32" THEN "win32" ELSE "unix", errno)
Done      == [ok |-> TRUE, id |-> NoId, n |-> 0, err |-> Error("Success")]
Fails(e)  == [ok |-> FALSE, id |-> NoId, n |-> 0, err |-> e]

\* The result of a receive: the datagram and how much of it was returned.  One
\* without any data is a datagram, not the end of anything.
\* (mutant: a result of 0 is an error, as it is for a TcpStream)
GotData(d, n) ==
  IF n = 0 THEN Fails(Error("ConnectionClosed"))
  ELSE [ok |-> TRUE, id |-> d.id, n |-> n, err |-> Error("Success")]
Got(d, n) == [ok |-> TRUE, id |-> d.id, n |-> n, err |-> Error("Success")]

-----------------------------------------------------------------------------
(* Addresses, of the library and of the kernel *)

V4Address(p)   == [form |-> "V4", peer |-> p]
V6Address(p)   == [form |-> "V6", peer |-> p]
MappedAddress(p) == [form |-> "mapped", peer |-> p]
AddressOf(p)   == IF p \in V4Peers THEN V4Address(p) ELSE V6Address(p)

\* The address an overload has made for a sender it did not get; nothing looks
\* at its family.
Nobody == V4Address(NoPeer)

isV4(a) == a.form = "V4"
isV6(a) == a.form # "V4"

\* The scope of a sockaddr is not kept, and written as 0.
toSockAddr(a) == [form |-> a.form, peer |-> a.peer, scope |-> FALSE]
fromSockAddr(s) == [form |-> s.form, peer |-> s.peer]

\* (mutant: the octets of the IPv4 address end up in the wrong place)
fromIpv4MappedLost(a) == MappedAddress(NoPeer)
fromIpv4Mapped(a) == MappedAddress(a.peer)

\* (mutants: the conversion is left out, or made for an IPv4 socket as well)
constructDestAddrAsIs(a) == toSockAddr(a)
constructDestAddrAlways(a) ==
  toSockAddr(IF platform # "linux" /\ isV4(a) THEN fromIpv4Mapped(a) ELSE a)

constructDestAddr(a) ==
  toSockAddr(IF platform # "linux" /\ ipv6 /\ isV4(a) THEN fromIpv4Mapped(a) ELSE a)

\* Whether a socket takes a sockaddr (external): an IPv4 socket takes none of
\* IPv6, an IPv6 socket takes one of IPv4 on Linux only.
Reaches(s) == IF ipv6 THEN isV6(s) \/ platform = "linux" ELSE isV4(s)

\* A link-local address without a scope: the kernel refuses it, or goes by a
\* link of its own choice (external).
Strays(s) == s.peer \in LinkLocal /\ ~s.scope
Destinations(s) == IF Strays(s) THEN {s.peer, Elsewhere} ELSE {s.peer}

\* The errno values with which the kernel refuses a sockaddr (external).
Refusals(s) ==
  IF ~Reaches(s) THEN {"EAFNOSUPPORT"} ELSE IF Strays(s) THEN {"EINVAL", "EHOSTUNREACH"} ELSE {}

\* The sockaddr in which recvfrom() reports a peer (external): a dual-stack
\* socket sees IPv4 peers as mapped addresses.
SockAddr(p) ==
  LET a == IF ipv6 /\ p \in V4Peers THEN MappedAddress(p) ELSE AddressOf(p)
  IN [form |-> a.form, peer |-> p, scope |-> p \in LinkLocal]

-----------------------------------------------------------------------------
Init ==
  /\ platform \in Platforms /\ ipv6 \in BOOLEAN
  /\ peer = NoPeer /\ queue = <<>> /\ soErr = NoOs
  /\ arrivals = 0
  /\ wire = NoPeer /\ dest = NoPeer
  /\ sender = Nobody /\ source = NoPeer
  /\ call = "none" /\ showed = NoId /\ ret = Done

\* A datagram of p arrives.  The kernel drops it when the queue is full, and
\* when the socket is connected to someone else.
Arrive(p, len) ==
  /\ arrivals < MaxArrivals
  /\ p \in V4Peers \/ ipv6
  /\ arrivals' = arrivals + 1
  /\ queue' = IF Len(queue) < QueueCap /\ peer \in {NoPeer, p}
                THEN Append(queue, [id |-> arrivals + 1, from |-> p, len |-> len])
                ELSE queue
  /\ UNCHANGED <<build, peer, soErr, hist, call, ret>>

\* The connected peer answers a datagram with an ICMP error.
Icmp ==
  /\ peer # NoPeer /\ wire = peer
  /\ soErr' = "ECONNREFUSED"
  /\ UNCHANGED <<build, peer, queue, arrivals, hist, call, ret>>

-----------------------------------------------------------------------------
\* mapResult(::connect(...)) of a datagram socket, which does not wait.
connect(p) ==
  LET s == constructDestAddr(AddressOf(p))
  IN /\ call' = "connect"
     /\ \/ Reaches(s) /\ peer' \in Destinations(s) /\ ret' = Done
        \/ peer' = peer /\ \E errno \in Refusals(s) : ret' = Fails(OsError(errno))
     /\ dest' = NoPeer
     /\ UNCHANGED <<build, queue, soErr, arrivals, wire, sender, source, showed>>

\* connect() to AF_UNSPEC: done, though some systems answer EAFNOSUPPORT.
disconnect ==
  /\ call' = "disconnect"
  /\ peer' = NoPeer
  /\ \/ ret' = Done
     \/ platform = "bsd" /\ ret' = Fails(OsError("EAFNOSUPPORT"))
  /\ dest' = NoPeer
  /\ UNCHANGED <<build, queue, soErr, arrivals, wire, sender, source, showed>>

\* A pending error is reported by the next call, which does nothing else.
ReportPending ==
  /\ soErr # NoOs
  /\ soErr' = NoOs
  /\ ret' = Fails(OsError(soErr))

\* ::sendto with sockaddr s
SendDatagram(s) ==
  \/ /\ ReportPending
     /\ wire' = NoPeer
  \/ /\ soErr = NoOs /\ soErr' = soErr
     /\ \/ Reaches(s) /\ wire' \in Destinations(s) /\ ret' = Done
        \/ wire' = NoPeer /\ \E errno \in Refusals(s) : ret' = Fails(OsError(errno))

\* The application sends to a peer, or answers the sender it was told.
sendTo(a) ==
  /\ a.peer # NoPeer
  /\ call' = "send" /\ dest' = a.peer
  /\ SendDatagram(constructDestAddr(a))
  /\ UNCHANGED <<build, peer, queue, arrivals, sender, source, showed>>

send ==
  /\ call' = "send" /\ dest' = peer
  /\ \/ ReportPending /\ wire' = NoPeer
     \/ /\ soErr = NoOs /\ soErr' = soErr
        /\ wire' = peer
        /\ ret' = IF peer = NoPeer THEN Fails(OsError("EDESTADDRREQ")) ELSE Done
  /\ UNCHANGED <<build, peer, queue, arrivals, sender, source, showed>>

-----------------------------------------------------------------------------
(* Receiving *)

\* What recv(2) returns for datagram d: excess data is discarded, which the
\* win32 call says by failing.
Shortened(d, size) ==
  IF platform = "win32" /\ d.len > size
    THEN Fails(OsError("EMSGSIZE"))
    ELSE Got(d, IF d.len > size THEN size ELSE d.len)

\* The queue after a receive.
\* (mutant: MSG_PEEK is forgotten)
AfterReceiveTaken(peeking) == Tail(queue)
AfterReceive(peeking) == IF peeking THEN queue ELSE Tail(queue)

\* The system call: a pending error, nothing there, or the oldest datagram.
Receive(size, peeking) ==
  \/ ReportPending /\ UNCHANGED <<queue, showed>>
  \/ /\ soErr = NoOs /\ soErr' = soErr /\ queue = <<>>
     /\ ret' = Fails(OsError("EWOULDBLOCK"))
     /\ UNCHANGED <<queue, showed>>
  \/ /\ soErr = NoOs /\ soErr' = soErr /\ queue # <<>>
     /\ ret' = Shortened(Head(queue), size)
     /\ queue' = AfterReceive(peeking)
     /\ showed' = IF peeking THEN Head(queue).id ELSE NoId

\* recv and peek
recv(size, peeking) ==
  /\ call' = "receive"
  /\ Receive(size, peeking)
  /\ dest' = NoPeer
  /\ UNCHANGED <<build, peer, arrivals, wire, sender, source>>

\* The sender argument is made of the sockaddr the datagram came with.
SenderIs(p) == sender' = fromSockAddr(SockAddr(p)) /\ source' = p

\* recvFrom and peekFrom with a SocketAddress: sender is set by a success.
recvFrom(size, peeking) ==
  /\ "any" \in Senders
  /\ call' = "receive"
  /\ Receive(size, peeking)
  /\ IF ret'.ok THEN SenderIs(Head(queue).from) ELSE UNCHANGED <<sender, source>>
  /\ dest' = NoPeer
  /\ UNCHANGED <<build, peer, arrivals, wire>>

\* Whether the sender's address is of the wanted family; genericAddr starts as
\* an address of that family and keeps it when the call fails.
FamilyFits(family, p) ==
  IF family = "V4" THEN isV4(SockAddr(p)) ELSE isV6(SockAddr(p))

\* A datagram is there, and its sender is not of that family.
Misfit(family, size) ==
  IF soErr # NoOs \/ queue = <<>> THEN FALSE
  ELSE Shortened(Head(queue), size).ok /\ ~FamilyFits(family, Head(queue).from)

\* recvFrom and peekFrom with a SocketAddressV4 or a SocketAddressV6.
recvFromTyped(family, size, peeking) ==
  /\ family \in Senders
  /\ call' = "receive"
  /\ IF Misfit(family, size)
       THEN /\ queue' = AfterReceive(peeking)
            /\ showed' = IF peeking THEN Head(queue).id ELSE NoId
            /\ ret' = Fails(Error("UnsupportedFamily"))
            /\ UNCHANGED <<soErr, sender, source>>
       ELSE /\ Receive(size, peeking)
            /\ IF ret'.ok THEN SenderIs(Head(queue).from)
                          ELSE sender' = Nobody /\ source' = NoPeer
  /\ dest' = NoPeer
  /\ UNCHANGED <<build, peer, arrivals, wire>>

-----------------------------------------------------------------------------
Next ==
  \/ \E p \in Peers : connect(p) \/ \E len \in Lens : Arrive(p, len)
  \/ Icmp \/ disconnect \/ send
  \/ \E a \in {AddressOf(p) : p \in Peers} \cup {sender} : sendTo(a)
  \/ \E size \in Sizes, peeking \in BOOLEAN :
       \/ recv(size, peeking) \/ recvFrom(size, peeking)
       \/ \E family \in {"V4", "V6"} : recvFromTyped(family, size, peeking)

Spec == Init /\ [][Next]_vars

-----------------------------------------------------------------------------
\* A datagram that sendTo() or send() says it sent went to the peer that was
\* named, in whatever form its address was given to a socket of either family.
\* (One for a link-local address may have gone to the same address elsewhere.)
SentWhereItSays == (call = "send" /\ ret.ok) =>
  wire = dest \/ (wire = Elsewhere /\ dest \in LinkLocal)

\* A dual-stack socket can address peers of both families: no call on it fails
\* because of the form of an address.
BothFamilies == ipv6 => ret.err # fromOs("EAFNOSUPPORT") \/ call = "disconnect"

\* Answering works: the sender that recvFrom() reported is an address this very
\* socket can send to, and leads back to the peer the datagram came from and to
\* nobody else; unless it is link-local, for its scope is lost on the way.
AnswerArrives == source \in Peers \ LinkLocal =>
  LET s == constructDestAddr(sender) IN Reaches(s) /\ Destinations(s) = {source}

\* What peek showed is the datagram the next read returns.
PeekIsHonest == showed # NoId => queue # <<>> /\ Head(queue).id = showed

\* A datagram that leaves the queue is handed to the caller, as it was sent: no
\* call that fails has consumed one, but for an overload that wants the sender to
\* be of one family and finds it is not, and a win32 call whose buffer is too small.
TakenIsGiven == [][Len(queue') < Len(queue) =>
  \/ ret'.ok /\ ret'.id = Head(queue).id
  \/ ret'.err = Error("UnsupportedFamily")
  \/ platform = "win32" /\ ret' = Fails(OsError("EMSGSIZE"))]_vars

=============================================================================
