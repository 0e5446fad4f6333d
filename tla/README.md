# Verification of qsox

qsox is a C++ library of TCP and UDP sockets, socket addresses, one-socket
polling and name resolution, for unix and Windows, in the manner of Rust's
`std::net`. This directory holds TLA+ specifications of what the library does
with the operating system, TLC configurations that check them on small
instances, and proofs of what they promise for any number of threads, objects,
bytes, timeouts and signals, and for every text of an address. Paths of the library are given as in
`PROJECT.json`: `src/src/` for the sources and `src/include/qsox/` for the
headers.

Every operation of the library is a thin sequence of system calls. Its state is
small (a descriptor, one flag, a thread's local variables); what makes it hard is
what happens between two of its system calls. The specifications therefore have
one action per system call, with the kernel, the network, the clock and the
signals as further actions that can come in between. The one part without system
calls, the texts of addresses, is modelled as functions over tokens.

## 1. The parts of the system

| Part | Sources | State | Operations | What makes it correct |
|---|---|---|---|---|
| Errors | `Error.hpp`, `Error.cpp`, `*/Error.cpp` | none (reads the thread's `errno`) | `lastOsError`, `fromOs`, `NetResult` | an error names the call that failed |
| Descriptors and object lifetime | `BaseSocket`, `SocketUtil.hpp`, `TcpListener`, the factories and moves of `TcpStream` and `UdpSocket` | `m_fd`, `UdpSocket::ipv6`, the startup of the process | `bind`, `bindAny`, `accept`, connecting as far as the descriptor goes, move construction and assignment, destruction, `releaseHandle` | every open descriptor has exactly one owner, on every path |
| `TcpStream`, connecting | `TcpStream.cpp`, `*/TcpStream.cpp`, `*/BaseSocket.cpp` | locals of `doConnectTimeout`; the socket's mode and `SO_ERROR` | `connect` with and without a timeout, `connectNonBlocking` | Ok means connected; the mode asked for; no more is waited than asked; a signal shows at most as `InProgress` |
| `TcpStream`, data and options | the same | the loop pointers of `sendAll` and `receiveExact`; socket options | `send`, `sendAll`, `receive`, `receiveExact`, `peek`, `shutdown`, `setLinger`, `setNonBlocking`, `setReadTimeout`, `setWriteTimeout` | no byte lost, repeated or misplaced; the end of the stream is reported only at its end |
| `pollOne` | `Poll.hpp`, `*/Poll.cpp` | locals | `pollOne` | its answer is true; the timeout is kept |
| `UdpSocket` | `UdpSocket.cpp`, `SocketUtil.hpp` | `ipv6`; the socket's queue, peer and pending error | `connect`, `disconnect`, `send`, `sendTo`, `recv`, `recvFrom`, `peek`, `peekFrom` | datagrams go where they are sent, and a sender can be answered |
| Resolver | `Resolver.cpp`, `*/Resolver.cpp` | the request in the frame of `gai()`, the address list | `resolve`, `resolveIpv4`, `resolveIpv6` | the right family, IPv4 preferred, no list leaked, the timeout kept |
| Socket addresses | `SocketAddress*`, `SockAddrAny` | none | conversion from and to `sockaddr`, `parse`, `toString` | the address that goes in comes out |
| IP addresses and their texts | `Ipv4Address`, `Ipv6Address`, `IpAddress` | none | `parse`, `toString`, segments and octets, the mapped form | what is written can be read back |
| `NetworkAddress` | `NetworkAddress` | host and port | `parse`, `toString`, `resolve`, `resolveV4`, `resolveV6` | a literal host is never looked up |
| Byte order and platform helpers, build files | `Util*`, `CMakeLists.txt` | none | byte swapping, texts of OS errors | a port or address has its network order in memory |

How they meet. `TcpListener`, `TcpStream` and `UdpSocket` derive from
`BaseSocket`, which owns the descriptor. A factory makes the descriptor with
`newSocket` or `newBoundSocket`, which first go through the startup of the process
(a function-local static, for which other threads wait while one makes it: `WSAStartup` on Windows, nothing on unix), sets it up,
and hands it to an object which the caller receives inside a `NetResult`. `accept`
makes a `TcpStream` from a listener. All calls share the descriptor table of the
process, and a closed number is given out again at once, to any thread. A
`NetworkAddress` asks the resolver for whatever is not an address already. The
library starts no threads and has no callbacks; the only code that runs beside a
call on its behalf is the resolver of glibc, which works on a request that lies in
the frame of `gai()`, and goes on with it when that frame is gone and used again.

What is hard, in short: closed descriptor numbers reused between two steps of a
move; error paths that close before they read `errno`; signals in every blocking
call and the time they leave; a connection that changes while `poll` returns;
short reads and writes; half-closed, lingering and reset connections; a lookup
that ends before, during or after the wait for it, or behind the call that made it; ICMP errors that surface in a
later call; runs of zero segments, mapped addresses and last colons in the texts.
`PROJECT.json` lists these hazards at their lines with the properties that watch them.

## 2. Modules

| Module | Models | Beside it |
|---|---|---|
| `Errors` | `Error`, `NetResult`, `lastOsError` of both platforms | used by all; no state |
| `DescriptorOwnership` | no code: a descriptor is acquired, transferred or released, by its one holder | |
| `SocketHandles` | object lifetime, factories, `accept`, startup | `MCSocketHandles`; refines `DescriptorOwnership`; `SocketHandlesProofs` |
| `TcpConnect` | connecting, both sources | `TcpConnectProofs` |
| `BytePipe` | no code: bytes come out as they were put in, and the end is told when it is the end | |
| `TcpStreamIO` | a connection with a stream at each end, both sources | refines `BytePipe`; `TcpStreamIOProofs` |
| `PollOne` | `pollOne`, both sources | `PollOneProofs` |
| `Resolver` | the resolver; `gai()` for glibc, Windows and other systems | `MCResolver`, `ResolverProofs` |
| `UdpSocket` | one UDP socket and its peers, on the kernels of Linux, BSD and Windows | `UdpSocketProofs` |
| `Ipv4Text` | tokens and numerals, `Ipv4Address`, byte order in memory | extended by `Ipv6Text` |
| `Ipv6Text` | `Ipv6Address`, its `toString` as a loop with one round per step, `inet_pton` | `Ipv6TextProofs` |
| `AddressText` | `IpAddress`, `SocketAddress*`, `NetworkAddress` | `MCAddressText`; extends `Ipv6Text`; `AddressTextProofs` |

Correspondence with the code. A variable has the name of the member or local it
stands for where there is one (`m_fd`, `ipv6`, `nonBlocking` as `nonblock`,
`timeoutMs` as `timeout`); the others are kernel state, marked "kernel" where they
are declared, or history, marked "history", which no action of the program reads.
An action has the name of the function it models, with a suffix for the way a
system call in it came out: `acceptReturns`, `acceptFails`, `sendInterrupted`. Where
a function makes several system calls, a program counter names the next one, and
everything the code does up to that call is part of the action. Where the two
sources of a function differ, the platform is a variable or a constant and both are
in the model. `PROJECT.json` maps every definition to its lines.

An operator whose name continues that of another one and that is commented as a
mutant is not used by the specification: it is the other operator with a plausible
mistake in it, with which the property that watches for it must fail.

**SocketHandles.** Each thread runs one operation at a time; an object is used by
one thread at a time, as the classes have no locks, but descriptors are shared.
`moveAssign` and `moveAssignTake` are the two halves of `BaseSocket::operator=`:
after the first, `m_fd` still holds a number that is no longer owned, and any thread
may be given that number. `setupCallFails` followed by `closeSocket` is the error path
of `newBoundSocket`, in which `errno` is read after the `close`, and the `close` may have
left anything in it (`ErrnoAfterClose`); `connectInternal` has made its error before it closes. The
startup of the process is two steps, `startupBegins` and `startupEnds`, between which the threads that
come to it wait. `WSAStartup` returns its error and the code reads another one, so the error
that is kept for a failed startup is any. `connect` is one step here; `TcpConnect` says what it is made of.

**TcpConnect.** One thread, the connection as the kernel sees it, `errno`, and the
clock that `doConnectTimeout` compares with its timeout. The clock runs all through the loop:
before it is read (`readClock`), between that and the start of `poll` (`pollStarts`), in `poll`, and past its
deadline. So the wait may end late, and `waited` counts what the polls themselves waited. A `connect` that is
repeated after a signal joins the attempt (Linux), finds it made (`EISCONN`), or is refused with
`EALREADY` (POSIX, BSD, macOS; `connectAlready`), which the code returns as an Err. A caller
may begin again with a new connection when a call is over. The part of the win32
`doConnectTimeout` from `select` on is a place that no step reaches.

**TcpStreamIO.** Two ends, a send and a receive buffer per direction, FIN, RST. A byte
is its position in what an application ever sends, so that a byte which is skipped,
repeated or moved shows. `Finish` is what the code makes of a result: return, or go
round the loop. The caller's buffer is written where the loop's pointer is. `read` is
history: what the reads before the current call handed over; with what the current
one has in its buffer (`HandedOver`) it is what the abstract `BytePipe` calls `got`.
The pipe's `sent` is the client's `wire`, its `told` is a read that said
`ConnectionClosed`. This refinement is about every call the two ends make, not one. `destroy` takes no
time, also where it lingers; how the lingering ends is a step of the network: what was not sent
when its time is over may be thrown away (`lingerExpires`).

**PollOne.** The call and a socket that others change while it waits. `getSocketError`
is a step of its own, because it is a second system call.

**Resolver.** A request has a place, the frame of its `gai()`, which is free for the next `gai()` as soon as
this one returns. With glibc the library may still be working on the request then (`late`); its answer is written
into whatever request has the place by that time, as if that one was done (`libFinishesLate`), and a call
this happens to is `Overwritten`. On Windows the timeout takes the request away, elsewhere the call
waits. What such an answer does to a frame that holds no request of `gai()` is beyond the model: it is memory of
another function.

**UdpSocket.** The receive queue is filled by peers of both families; an address is a
peer and the form in which it is written (IPv4, IPv6, IPv4 mapped into IPv6). A `sockaddr` also has
a scope, which `fromSockAddr` drops and `toSockAddr` writes as zero; for a peer in `LinkLocal` it says on which link
the peer is, and without it the kernel refuses the address or takes a link of its own choice, where
somebody else may have it (`Elsewhere`).
A receive that would wait is modelled at the moment it returns.

**Ipv4Text, Ipv6Text, AddressText.** A text is a sequence of tokens: numerals, the
marks `.`, `:`, `[` and `]`, the character 0 (`Nul`), and other characters. Two numerals never stand side by
side, for they would be one. `Dec` and `Hex` say what a numeral is worth, so a
numeral can be too large for a field, or no decimal at all. `StartsWithNumber` is
`std::from_chars`, which is content when a field begins with a number; who looks at
what it leaves behind is what the parsers differ in. `Ipv6Address::parse` gives `inet_pton` a C string,
which ends at the first character 0 (`CString`). The code that finds the host and the port of a text stands three
times in the sources, once in each socket-address parser; here the three are one set of
definitions, which all three parsers use. `toString` of `Ipv6Address` is the
loop of the source, one round per step. Then some class writes the text, and somebody
edits it; the parsers are functions that the properties apply to whatever text is
there. Bytes in memory are those of a little-endian host.

## 3. Runs

`tlc -config <cfg> <module>` repeats any of them.

| Run | Shows |
|---|---|
| `handles` | With two threads and three descriptors: one holder per open descriptor, nothing closed under its holder, no leak; the errors of `connect`, `accept` and `newSocket` name their cause, whatever a `close` leaves in `errno`; no thread gets past a startup that runs or failed in another; `ipv6` follows the descriptor; `SocketHandles` implements `DescriptorOwnership` |
| `connect` | Both sources: Ok means connected (the win32 one with a timeout apart), blocking mode is restored, the polls of a call wait no longer together than its timeout, however often they are interrupted and however late they start, an Err names what failed and `TimedOut` is never early, a signal shows only as `InProgress` and only where the kernel refuses a repeated connect, and a timed connect returns |
| `stream_data` | Short reads and writes, empty buffers, signals, half-close, close and reset: `sendAll` puts each byte on the wire once, `receiveExact` fills the buffer without a hole, peeks are honest, the end of the stream is at its end, and over all calls `TcpStreamIO` implements `BytePipe` |
| `stream_options` | A call with a timeout or in non-blocking mode returns whatever the buffers are, with every mode of shutdown, and closes that linger, reset, or give up |
| `poll` | Both sources: Readable and Writable are true when said, Timeout is not said over something ready, is not early and not later than one timeout per signal, and a call with a timeout returns |
| `resolver` | All three versions of `gai()`: IPv6 only after IPv4 found nothing, an address that was found is never hidden, every list is freed, an address comes from the lookup of this call, and calls with a timeout return. Three known exceptions of the glibc one are named in the properties: lookups it overlooks (`Overlooked`), lists it loses (`abandoned`) and requests into which the answer to an earlier call was written (`Overwritten`) |
| `udp` | All three builds: where a send says it went is where it went; no form of address is refused on a dual-stack socket; the sender that was reported can be answered, and nobody else gets the answer, if it needs no scope; peeks are honest; what leaves the queue is handed over |
| `address_text` | The run of zero segments that is shortened is the first longest; every class but `SocketAddressV6` reads what it writes, and `SocketAddressV6` reads what `SocketAddress` writes; memory holds network order, and mapped addresses turn back; a `NetworkAddress` never looks up an address without brackets; parsers of one and of both families agree on every text; no mark of an accepted IPv6 text is without effect, but for what `c_str()` cuts off |
| `connect_win32` | **Disagreement.** `connect` with a timeout says Ok before there is a connection: `doConnect(address, true)` has already turned `WouldBlock` into Ok, so `doConnectTimeout` never waits |
| `stream_shutdown` | **Disagreement.** On Windows `ShutdownMode::Read` ends the sending half and `Write` the receiving one |
| `resolver_race` | **Disagreement.** A lookup that is done before `gai_suspend` is called makes it answer `EAI_ALLDONE`, which `gai()` takes for a failure, so `resolve` may return an IPv6 address for a host whose IPv4 address was found |
| `host_family` | **Disagreement.** `NetworkAddress::resolve` tries IPv4 first, and `Ipv4Address::parse` ignores what an octet's field holds behind its number, so an IPv6 host such as `0::ffff:0.1.255.255` becomes an IPv4 address, against `NetworkAddress.hpp` |

Noted while modelling, and visible in the modules. They have no run of their own: each is excepted by name in
the property it would break, or no property speaks of it.

- A `bind` that fails reads `errno` behind the `close` of its socket, so it may report what the `close` left
  (`ErrAfterClose`, `Late`). `WSAStartup` does not set the error the code reads when it fails (`startupEnds`).
- unix `connect` without a timeout, interrupted by a signal: where the kernel answers the repeated `connect` with
  `EALREADY`, the call fails with `InProgress` although the connection may be made (`connectAlready`).
- unix `pollOne`: after a signal the whole timeout begins again, as the TODO at
  `Poll.cpp:41` says (`pollInterrupted`; `TimeoutIsDue` bounds what it costs). `POLLHUP` comes
  before `POLLIN`, so a connection that both ends have finished is an Err while unread
  data is there, and that Err may hold `Success` when nobody left an error for
  `getSocketError` (`pollHungUp`, `getSocketError`).
- win32 `pollOne`: a negative timeout becomes a zero `timeval`, which does not wait
  (`WaitUntil`); asked for both directions it looks at reading only (`Reported`).
  `TimeoutIsDue` and `NothingMissed` except exactly these.
- `gai()` for glibc: the end of the timeout shows as `EAI_AGAIN`, not `EAI_INPROGRESS`, so it
  is reported as `TemporaryFailure`, and the request is not cancelled although it lies in the
  frame that is being left; the list of a request that is overlooked is never freed
  (`gaiSuspended`, `FrameEnds`). The next `gai()` of the thread has the same frame, so the answer to the
  request that was left may be taken for the answer to its own, and `resolve` then returns the address of
  another host (`libFinishesLate`, `Overwritten`).
- win32 `gai()` calls `GetAddrInfoExW` without `startupSockets()`: a program whose first call is
  a lookup has no Winsock. The library that answers is modelled as started.
- `getSocketError` wraps every error as `Other`, so a refused connect is
  `ConnectionRefused` without a timeout and `Other` with one.
- `receive` into an empty buffer says `ConnectionClosed` (`ioResult`; `ToldClosed` is about reads
  of a byte or more); `setReadTimeout(0)` is `InvalidArgument` though `BaseSocket.hpp` says that 0
  means no timeout (`setTimeout`).
- `setLinger` with less than a second makes a close abortive (`LingerSeconds`), so `setLinger(true, 100)`, as
  `src/README.md:183` has it, means to throw away what is not sent yet; a longer time postpones that
  (`lingerExpires`).
- `sendAll` and `receiveExact` that fail do not say how far they came.
- `recvFrom` with a `SocketAddressV4` takes the datagram before it finds that the sender,
  on a dual-stack socket, has an IPv6 form, and on Windows a datagram that does not fit the buffer is taken and
  reported as an error (`recvFromTyped`, `TakenIsGiven`, which excepts both);
  `recv` works on an unconnected socket, and after `connect` or `disconnect` it still returns
  datagrams that were queued before.
- The scope of a link-local sender is dropped by `SocketAddressV6::fromSockAddr`, so an answer to it is refused
  or goes to whoever has its address on another link (`Strays`; `AnswerArrives` and `SentWhereItSays` except
  `LinkLocal`).
- `SocketAddressV6::toString` writes no brackets, so its own `parse` refuses what it writes;
  `NetworkAddress::parse` keeps brackets in the host, which makes it a name to look up, against
  `NetworkAddress.hpp:16` and `:78` (`LiteralHosts` is about hosts without brackets); the `Ipv6Address::parse("[...]")` of
  `src/README.md:44` fails; behind a character 0 an IPv6 text may go on with anything (`CString`;
  `EveryMarkCounts` excepts `CutOff`); `Ipv4Address::parse`
  accepts `1x.2.3.4`, and `1.2.3.4:5` with `:80` behind it is a `SocketAddressV4` (`EveryMarkCounts` is about IPv6
  only).

## 4. Bounds, fairness, and what is assumed of the outside

| Run | Bounds | Why they are enough |
|---|---|---|
| `handles` | 2 threads, 3 descriptors, 1 listener, 1 stream, 2 UDP sockets, one error a `close` may leave (`CloseErrnos`), a startup that may fail (the win32 build; the unix one is the same with a startup that succeeds); threads and descriptors are symmetric | a third descriptor lets a number be reused between the halves of a move while both operands own one; two objects of a class are needed to move; the proofs cover every size |
| `connect`, `connect_win32` | timeouts 0, 1 and 3 ticks, two network errors, one other, `EALREADY` (`RetryErrnos`), at most one timeout late on the way to `poll` and one more in it (`Tick`) | 3 ticks leave room for several interrupted waits and for a start that is later than the deadline; the number of signals is not bounded |
| `stream_data` | sizes 0 to 2, send buffer 1, receive buffer 2, 3 bytes (`MaxBytes`), 1 signal (`MaxSignals`), one direction, both ends may close | size 2 on a buffer of 1 makes every transfer go round the loop; 3 bytes leave one behind for a second call; the proofs cover both directions and every size |
| `stream_options` | sizes 1 and 3, buffers of 1, 3 bytes, 1 signal, all options at one end | 3 bytes do not fit both buffers, so a `sendAll` has to wait |
| `stream_shutdown` | one call of each kind is enough for the counterexample | |
| `poll` | timeouts 0 and 2 and the indefinite one, 2 signals, 7 ticks (`MaxElapsed`) | a signal after any number of ticks of the first and the second wait, and room for a wait that would last too long |
| `resolver`, `resolver_race` | 2 places for requests; two threads on "other", one on glibc and Windows; timeouts 0 and 2; lists of up to two entries, at most 1 signal, a place with more than one request left in it is not used again (`MaxLate`) | both lookups of a `resolve` can be unfinished at once; a list with one entry of each family, in either order, tells the search from taking the head; two answers to requests that were left can hit one lookup |
| `udp` | one peer per family and a link-local one, datagrams of 0 and 2 bytes, buffers of 1 and 2, queue of 2, 3 arrivals (`MaxArrivals`), the `recvFrom` of either family and that of IPv4 (`Senders`) | a queue that overflows, a buffer that is too small, a datagram behind the one that was peeked; the `recvFrom` of IPv6 is that of IPv4 with the families exchanged, and the proofs cover it |
| `address_text`, `host_family` | the 8 segments of the code; every pattern of 0 and 1 in them, and every choice of 0, 1 and `ffff` in the last four; ten texts edited twice (`MaxEdits`), each time by any token put in or taken out anywhere | all ties, ends and lengths of runs; every mapped address of these words and the near misses; a numeral that is no octet, one that is no port, a letter, a character 0; the second edit can mend what the first broke |

`CHECK_DEADLOCK FALSE` is given for `TcpStreamIO` only: there both ends may have
destroyed their streams, which is the end of the connection. The caller of `connect` and of
`pollOne` may begin again, which is where their calls end.

Fairness. `TcpConnect`: weak fairness of the calling thread and of the clock; none of the
network, and signals may keep coming. `TcpStreamIO`: weak fairness of each end's running
system call, which for a call with a timeout contains its end; none of the network or the
applications. `PollOne`: the waiting call and the clock; signals are bounded, because each
restarts the wait. `Resolver`: each calling thread and the clock, not the library. These say
that the scheduler runs a runnable thread, that time passes, and that a kernel ends a call
whose timeout is over.

Assumed of the outside (marked external in the map):

- `close` frees the number, whatever it returns, and may leave any value in `errno`; the kernel gives out any
  free number.
- After `EINTR` a connection goes on in the kernel and a second `connect` joins it, or says
  `EISCONN` or, where `RetryErrnos` has it, `EALREADY`; `poll` reports a dead connection as ready with `SO_ERROR` set.
- `SO_LINGER` of zero seconds, or unread input, makes `close` abortive; when a longer time is over, what is not sent
  may be thrown away.
- `gai_suspend` says `EAI_ALLDONE` for a request that is already finished and `EAI_AGAIN` when the
  timeout ends; `GetAddrInfoExW` forgets a request whose timeout is over. glibc
  answers a request it was left with whenever it likes, for whatever host, at the address the request had.
- A pending ICMP error is reported once, by the next call; Linux takes IPv4 addresses on IPv6
  sockets, the other systems only mapped ones. A link-local address without a scope is
  refused, or goes by a link the kernel chooses.
- `inet_pton` takes the texts of RFC 4291, with an IPv4 tail, as far as the first character 0; `from_chars` stops at the
  first character it cannot use and says when a number does not fit. The host is little-endian.
- The failing calls of win32 report their error through `WSAGetLastError`, with the same names
  here as the unix codes that mean the same.

## 5. Proofs

`tlapm <module>` repeats any of them. Each theorem holds for every value of the constants that
satisfies the named assumption of its module. Type correctness is the first conjunct of every inductive
invariant; only the run `handles` also checks it as a property.

| Module | Assumes | Theorems and what they state |
|---|---|---|
| `SocketHandlesProofs` | `HandlesAssumption`: the sets are apart, no call fails with the values the model uses for itself, a unix startup succeeds | `TypeCorrect` (`TypeOK`), `Invariance` (`LocalInv`, `OneHolder`), `Implementation` (`ImplementsOwnership`), `NoDoubleHolder` (`SingleHolder`), `NoStrayClose` (`HeldIsOpen`), `NoDescriptorLeaks` (`NoLeak`), `StartupComesFirst` (`StartupFirst`), `TheCauseIsReported` (`ReportsCause`), `TheFamilyIsKnown` (`FamilyFlag`) |
| `TcpConnectProofs` | `ConnectAssumption`: timeouts are integers, the kinds of codes are apart, a repeated connect is refused with `EALREADY` or not at all | `ConnectInvariance`, `OkIsConnected` (`OkMeansConnected`), `TheModeIsKept` (`ModeAsRequested`), `TheDeadlineStands` (`WaitsNoLongerThanAsked`), `TheCauseIsNamed` (`ErrNamesCause`), `WhatSignalsDo` (`SignalsShowOnlyAsInProgress`), `WhereEveryOkIsConnected` (`EveryOkMeansConnected`, where the win32 connect has no timeout) |
| `TcpStreamIOProofs` | `IOAssumption`: sizes and buffers are numbers, a buffer holds a byte | `IOInvariance`, `DataIsSent` (`SendsItsData`), `BufferIsFilled` (`FillsTheBuffer`), `PeekedComesNext` (`PeekIsHonest`), `EndIsTheEnd` (`ClosedIsTheEnd`, on unix), `StreamsAreAPipe` (`ImplementsPipe`, on unix, with only the sending half shut down), `BytesComeInOrder` (`GotInOrder`, on both platforms, without exception) |
| `PollOneProofs` | `PollAssumption`: the clock's bound leaves room for every wait | `PollInvariance`, `TheTruthIsSaid` (`SaysTheTruth`), `NothingIsMissed` (`NothingMissed`), `TimeoutsAreDue` (`TimeoutIsDue`) |
| `ResolverProofs` | `ResolverAssumption`: errors are not the codes the code tests for | `ResolverInvariance`, `Ipv4IsPreferred` (`PrefersV4`), `TheFoundIsReported` (`FoundIsReported`), `ListsAreFreed` (`NoListLeak`), `TheAddressIsRight` (`RightAddress`), `NothingIsOverlooked` (`EveryPrefersV4`, `FoundIsReturned`, `EveryListIsHeld`, for the systems without glibc) |
| `UdpSocketProofs` | `UdpAssumption`: peers of the two families are apart, link-local ones have an IPv6 address, the queue holds a datagram | `UdpInvariance`, `SentToTheNamed` (`SentWhereItSays`), `EveryFormIsTaken` (`BothFamilies`), `ThePeekIsTheNext` (`PeekIsHonest`), `SendersCanBeAnswered` (`AnswerArrives`), `NoneIsLost` (`TakenIsGiven`) |
| `Ipv6TextProofs` | `NumeralAssumption`: a numeral has one value, a value one numeral, marks and the character 0 are no numerals; `SegmentsAssumption`: more than three segments, as the mapped form takes three; `AddressesAssumption`: segments of 16 bits, and what `toString` prints has a numeral | `TheRunIsFound` (`FirstLongestRun`), `WhatIsWrittenIsRead` (`TextIsRead`) |
| `AddressTextProofs` | the same, and `TextAssumption`: ports of 16 bits that have numerals, an octet has one to three digits | `TextInvariant` (`TextInv`), `WhatIsWrittenIsTheAddress` (`ReadsBack`), `WhatIsWrittenIsLiteral` (`LiteralHosts`), `ParsersAlwaysAgree` (`ParsersAgree`), `MarksAreRead` (`EveryMarkCounts`), `WrittenRunIsFound` (`FirstLongestRun`), `AcceptedAddressesSurvive` (`AcceptedSurvives`), `OnlyARestConfuses` (`V6HostIsV6`, of texts with nothing behind an octet) |

**SocketHandles.** `OneHolder` (a descriptor is open exactly when it has one holder, and else has none) is what the
properties are about, but it is not inductive: to know that a step hands over a descriptor that
nobody else holds one has to know what the locals of a thread mean at the place it is in, that two
threads never work on the same object, and that storage without an object holds no descriptor. That is
`LocalInv`. `LocalStep` shows it inductive by itself, one step per action. `OwnershipStep` then shows, for a
state with both, that each action is an `Acquire`, a `Transfer`, a `Release` or a stutter of the abstract
specification; the delicate ones are `moveAssign`, where the holder of the target's old descriptor gives
it up, and `moveAssignTake`, where an object becomes holder again. `OneHolderStep` is about the abstract
specification alone: its steps keep one holder per open descriptor. The three together give refinement
and the invariants. The remaining theorems add one small invariant each to `LocalInv`: that what is open
follows a successful startup; that the Err of a `connect`, once made, names its failed call
until its socket is closed, and that only a factory that closes before it reads `errno` (`Late`) says anything else; that the flag agrees with the descriptor of every object that is not in the
middle of an assignment.

**TcpConnect.** `Inv` has one conjunct per place of the program (`AtStart` to `AtEnd`), which says what the
locals, the socket's mode and the clock are there. None of them is inductive without the others: that the mode
is restored at the end needs what it was when the wait began, and that the polls wait no longer than asked needs
what is still to be waited at each place of the loop (`AtWait`): what was waited is no more than what the clock has moved, so
the rest of the timeout, taken from the clock, is no more than what is left. Two lemmas carry the step: one for the
kernel, which changes nothing that an earlier place relied on, and one for the caller, by place.
`WhereEveryOkIsConnected` says that the disagreement of the run `connect_win32` is the only way to an Ok
without a connection: elsewhere the exception that `OkMeansConnected` makes is never taken.

**TcpStreamIO.** `Inv` is typing and, for each end, `Placed` (what a place of the call
needs), `Flow` (no byte is read before it arrives, none arrives before it is sent), `Sending` and `Receiving` (the
loop invariants of `sendAll` and `receiveExact`: which bytes of the stream lie behind the loop's pointer, and that the
reads before have had all the others), `Peeked` and `Closing` (what a closed, broken or finished connection is). There is one lemma per kind of step, and
`OtherEnd` for all that a step leaves to the other end. The refinement then maps a step to a step of the
pipe: `QuietStep`, `ClosingStep`, `PutStep` and `TakeStep` say when each is the case. `EndIsTheEnd` is about unix because on
Windows `shutdown` ends the other half (run `stream_shutdown`); `StreamsAreAPipe` also leaves out
`ShutdownMode::Read`, after which a reader sees an end that is its own doing and not the pipe's.
`BytesComeInOrder` needs none of these exceptions: in both directions, on both platforms and with every mode of
shutdown, what a reader has had over all its calls is the beginning of what the other end put on the wire, and
that rises in the sender's stream (`WireOrdered`, which `ByteIsNext` keeps: a byte that the kernel takes lies behind all
it took before).

**PollOne.** `Typed`, `Over` (the kernel keeps an error only for a connection that is over) and `Waiting` (when the wait ends, in terms of the signals so
far). The three theorems are action properties: about the step in which the call returns, from the
invariant before it.

**Resolver.** `Apart` and `Holders` (no two threads share a place for a request; a list is held by a request that is done, and only glibc answers late), `NoListLeak`, and
per thread `Placed`, `Calling` and `Ended`, with `Hearing` and `HasHeard` for the calls that are not overwritten: what the call in progress and the calls before it have heard,
which is what connects the answer of the second lookup with the failure of the first. The long
lemmas are those where an answer is heard (`AnswerTaken`, `Suspended`, `FailureKept`).
`TheAddressIsRight` needs that an answer which is heard was given for this call, or that the call is `Overwritten`
since: that a request left behind writes into this one is a step of its own in the proof.
`NothingIsOverlooked` takes the exceptions out of `PrefersV4`, `FoundIsReported` and `NoListLeak` where the
system is not glibc's: overlooked and left requests are the only ways in which these go wrong.

**UdpSocket.** `Heard` (what a peek returned is still at the head of the queue until it is received) and
`SenderIsSource` (the sender reported names who sent it, in the form in which this socket can send), with three of the
properties, which are inductive together with them. `SendersCanBeAnswered` adds that the `sockaddr` of a peer that is not link-local
leads to it alone, whatever became of its scope.

**Ipv6Text.** `ScanInv` is the loop invariant of `toString`: after any number of segments `longest` is the first of the longest
runs that have ended or reached this segment, and `current` is the run that reaches it. It holds for
any number of segments above three, not only eight, and for ties, runs at the end and runs of one.
`WriteInv` adds that the octets are those of an address and that the text is what the end of the loop, or the
mapped form, makes of it.

What a parser does with a text is a statement about where its marks are, however many. `Cut` says that a rising list of
positions is the list of the marks of one kind, with the two ends of the text around it; `CutExists` shows by the
least counterexample (`LeastOf`, from the library's theorem about well-founded orders) that every text has one, and
`FieldsOf` that `Fields` cuts there. From these come lemmas about the parts (`TokenField`, `FieldAt`), about texts that are put
together (`GroupFields`, `GapText`) and about what the parsers accept (`Ipv4Accepts`, `Ipv6Accepts`). `WhatIsWrittenIsRead`
then has three cases, as `toString` has: a gap, none, and the mapped form, in which the last two segments are read as
four octets. That the gap stands for a run of two or more zeros is what `FirstLongestRun` is needed for.

**AddressText.** `TextInv` is the invariant of the scan with: a text that nobody has edited is what its class writes of
`ip` and `port`, and every text is made of tokens. `WhatIsWrittenIsTheAddress` and `WhatIsWrittenIsLiteral` follow for
each class from where its text splits (`WithPortText`, `BracketText`): the last colon is the one before the
port, since a numeral is no colon. For `IpAddress`, which tries IPv4 only on texts of 7 to 15 characters, `Ipv4Characters` counts them.

`ParsersAgree` and `EveryMarkCounts` are about any text at all, so the proof uses nothing of `TextInv` but that the text is made of tokens.
`MarksAreRead` is about IPv6 texts. What is accepted is the text before the first character 0 (`CStringIs`), so a token before
that one is taken out of what `inet_pton` reads (`Ipv6ParseRemoved`), and the proof looks at where it stood. In an address without a gap, or beside its gap, every mark stands between two
numerals (`Solid`, `SolidFields`), which without it would be one, so what is left is not a text in which two
numerals stood; of the gap's two colons neither can go, because the segments on the two sides are fewer than
`N` (`GapClosed`, with the count of `ListLength` and `FieldsJoined`). In a socket address it can also be a bracket or the
last colon, without which the text splits elsewhere and has no port (`ColonRemoved`).

`AcceptedAddressesSurvive` is the way in: whatever a parser accepts, or a literal host resolves to, has octets of eight
bits and a port of sixteen, and is the same after `toSockAddr` and `fromSockAddr`. `OnlyARestConfuses` is the other
side of the run `host_family`: two families can only both read a text that has something behind an octet
(`BothLeaveRest`), so what `from_chars` leaves is the only reason why an IPv6 host becomes an IPv4 address.

Only model-checked: liveness (`TimedConnectReturns`, `CallsReturn`, `PollReturns`, `ResolveReturns`), because the prover has no
rules for `ENABLED` and fairness. Every safety and every action
property of a passing run is also a theorem, two of them (`ClosedIsTheEnd` and `ImplementsPipe`) under the hypotheses
that the table names.

## 6. Not modelled

- The texts of errors, on both platforms.
- `localAddress`, `remoteAddress` and `setNoDelay`: they change nothing that the properties look at.
- Comparisons, hashes and the classifiers of addresses (`isLoopback` and the like): each is one expression
  over octets, with no state, that a unit test would cover.
- Out-of-band data, and what Windows puts into the `errorSet` of `select`.
- Two threads on one object: the classes do not allow it. Two threads on the two directions of one
  `TcpStream`: each end of `TcpStreamIO` has one thread.
- The contents of datagrams; what the scope of an address is, beyond that it is there or not.
- What glibc's late answers do to memory that holds no request.
- The conversion of host names between UTF-8 and UTF-16 for the win32 lookup.
- Build files.

## 7. What is done and what is left

Done: ownership of descriptors, connecting, a connection's data, polling, resolving, datagrams and the texts of
addresses, each with its runs, and each with proofs of every safety property that its runs check.

Left, with the reason each may be worth it:

1. A second thread on each `TcpStream`, one per direction, with a `shutdown` from the other.
2. `SocketHandles` composed with `TcpConnect`, so that the descriptor of a connect that is being waited for is
   among those that other threads see.
