---------------------------- MODULE AddressText -----------------------------
(***************************************************************************)
(* Addresses with ports, written by the toString of each class and read by *)
(* the parse of each class.  Between the two somebody may edit the text,   *)
(* so that what is parsed is not only what was written.                    *)
(***************************************************************************)
EXTENDS Ipv6Text

CONSTANTS
  Ports,     \* 0..MaxWord
  Samples,   \* the texts that are edited
  MaxEdits   \* bound: how often

\* Ports have numerals; a mark is a character, and an octet has up to three.
ASSUME TextAssumption ==
  /\ Ports \subseteq 0..MaxWord /\ Ports \subseteq DecValues
  /\ \A m \in Marks : Len(m) = 1
  /\ \A n \in DOMAIN Dec : Dec[n] <= 255 => Len(n) \in 1..3

VARIABLES
  ip,     \* the IpAddress: its family and octets; NoIp until there is one
  port,
  form,   \* the class that wrote the text
  text,
  edits

varsText == <<vars, ip, port, form, text, edits>>

NoIp == [family |-> "none", octets |-> <<>>]
V4(bytes) == [family |-> "V4", octets |-> bytes]
V6(bytes) == [family |-> "V6", octets |-> bytes]

SocketAddress(addr, p) == [family |-> addr.family, octets |-> addr.octets, port |-> p]

-----------------------------------------------------------------------------
(* Memory *)

fromIpv4Mapped(addr) == [p \in 1..2*N - 6 |-> 0] \o <<255, 255>> \o addr

\* toSockAddr of both classes, with the bytes as they lie in memory
toSockAddr(addr, p) ==
  [sa_family |-> addr.family,
   addr      |-> IF addr.family = "V4" THEN toInAddr(addr.octets) ELSE addr.octets,
   sin_port  |-> Stored(byteswap(Word16(p)))]

fromSockAddr(sa) ==
  SocketAddress([family |-> sa.sa_family,
                 octets |-> IF sa.sa_family = "V4" THEN fromInAddr(sa.addr) ELSE sa.addr],
                Number16(byteswap(Loaded(sa.sin_port))))

-----------------------------------------------------------------------------
(* Writing *)

\* IpAddress::toString; out is what Ipv6Address::toString wrote.
IpToString(addr) == IF addr.family = "V4" THEN Ipv4ToString(addr.octets) ELSE out

WithPort(host, p) == host \o <<":", DecNumeral(p)>>

SocketToString(addr, p) ==
  WithPort(IF addr.family = "V4" THEN IpToString(addr)
                                 ELSE <<"[">> \o IpToString(addr) \o <<"]">>, p)

\* IpAddress, SocketAddressV4 or SocketAddressV6, SocketAddress, and a
\* NetworkAddress made from a SocketAddress
Forms == {"Ip", "SocketOfFamily", "Socket", "Network"}

Written(f, addr, p) ==
  CASE f = "Ip"             -> IpToString(addr)
    [] f = "SocketOfFamily" -> WithPort(IpToString(addr), p)
    [] f = "Socket"         -> SocketToString(addr, p)
    [] f = "Network"        -> WithPort(IpToString(addr), p)

-----------------------------------------------------------------------------
(* Reading *)

\* rfind(':'): the mark between host and port, or 0 when a side is missing
\* (mutant: find)
FirstColon(t) ==
  LET at == {p \in DOMAIN t : t[p] = ":"} IN
  IF at = {} THEN 0 ELSE CHOOSE p \in at : \A q \in at : p <= q
LastColon(t) ==
  LET at == {p \in DOMAIN t : t[p] = ":"} IN
  IF at = {} THEN 0 ELSE CHOOSE p \in at : \A q \in at : q <= p

Splits(t) == LastColon(t) \notin {0, 1, Len(t)}
Host(t)   == SubSeq(t, 1, LastColon(t) - 1)
Port(t)   == SubSeq(t, LastColon(t) + 1, Len(t))

\* (mutant: what from_chars leaves is not looked at)
IsPortPrefix(field) == StartsWithNumber(field, MaxWord)
IsPort(field) == StartsWithNumber(field, MaxWord) /\ IsAllNumber(field)

\* (mutant: one bracket will do)
BracketedOnce(t) == Len(t) >= 2 /\ (Head(t) = "[" \/ Last(t) = "]")
Bracketed(t) == Len(t) >= 2 /\ Head(t) = "[" /\ Last(t) = "]"
Unbracketed(t) == SubSeq(t, 2, Len(t) - 1)

\* What the three parsers of socket addresses do with the address they found.
WithPortOf(t, addr) ==
  IF IsPort(Port(t)) THEN ParseOk(SocketAddress(addr, NumberIn(Port(t)))) ELSE ParseErr("InvalidPort")

SocketV4Parse(t) ==
  LET addr == Ipv4Parse(Host(t)) IN
  IF ~Splits(t) THEN ParseErr("MissingPort")
  ELSE IF ~addr.ok THEN ParseErr(addr.err)
  ELSE WithPortOf(t, V4(addr.value))

SocketV6Parse(t) ==
  LET addr == Ipv6Parse(Unbracketed(Host(t))) IN
  IF ~Splits(t) THEN ParseErr("MissingPort")
  ELSE IF ~Bracketed(Host(t)) THEN ParseErr("InvalidStructure")
  ELSE IF ~addr.ok THEN ParseErr("InvalidAddress")
  ELSE WithPortOf(t, V6(addr.value))

SocketParse(t) ==
  LET v6   == Bracketed(Host(t))
      addr == IF v6 THEN Ipv6Parse(Unbracketed(Host(t))) ELSE Ipv4Parse(Host(t))
  IN IF ~Splits(t) THEN ParseErr("MissingPort")
     ELSE IF ~addr.ok THEN ParseErr("InvalidAddress")
     ELSE WithPortOf(t, IF v6 THEN V6(addr.value) ELSE V4(addr.value))

Characters(t) == Cardinality(UNION {{p} \X (1..Len(t[p])) : p \in DOMAIN t})

\* The literal a text is when IPv4 is tried first, if it is one.
Literal(t, tryV4) ==
  IF tryV4 /\ Ipv4Parse(t).ok THEN ParseOk(V4(Ipv4Parse(t).value))
  ELSE IF Ipv6Parse(t).ok THEN ParseOk(V6(Ipv6Parse(t).value))
  ELSE ParseErr("Unspecified")

IpParse(t) == Literal(t, Characters(t) \in 7..15)

NetworkParse(t) ==
  IF ~Splits(t) THEN ParseErr("MissingPort")
  ELSE IF ~IsPort(Port(t)) THEN ParseErr("InvalidPort")
  ELSE ParseOk([host |-> Host(t), port |-> NumberIn(Port(t))])

\* What a NetworkAddress asks of the resolver.
Lookup(host, families) == [lookup |-> host, families |-> families]

Resolve(na) == LET addr == Literal(na.host, TRUE) IN
  IF addr.ok THEN SocketAddress(addr.value, na.port) ELSE Lookup(na.host, {"V4", "V6"})

ResolveV4(na) == LET addr == Ipv4Parse(na.host) IN
  IF addr.ok THEN SocketAddress(V4(addr.value), na.port) ELSE Lookup(na.host, {"V4"})

ResolveV6(na) == LET addr == Ipv6Parse(na.host) IN
  IF addr.ok THEN SocketAddress(V6(addr.value), na.port) ELSE Lookup(na.host, {"V6"})

-----------------------------------------------------------------------------
(* The program that writes and reads *)

InitText ==
  /\ Init
  /\ ip = NoIp /\ port = 0 /\ form = "none" /\ text = <<>> /\ edits = 0

scan == toString /\ UNCHANGED <<ip, port, form, text, edits>>

\* The IPv6 address is used as it is, or as the IPv4 address that is mapped into it.
Candidates == {V6(octets)} \cup (IF IsIpv4Mapped THEN {V4(toIpv4Mapped)} ELSE {})

writeAs(f) ==
  /\ pc = "written" /\ form = "none"
  /\ ip' \in Candidates
  /\ port' \in Ports
  /\ form' = f
  /\ text' = Written(f, ip', port')
  /\ UNCHANGED <<vars, edits>>

\* No two numerals stand side by side: they would be one.
IsText(t) == \A p \in 1..Len(t) - 1 : ~(t[p] \in Numerals /\ t[p+1] \in Numerals)

\* Someone edits a written text (external).
edit ==
  /\ form # "none" /\ edits < MaxEdits
  /\ edits = 0 => text \in Samples
  /\ \/ \E p \in DOMAIN text : text' = RemoveAt(text, p)
     \/ \E p \in 1..Len(text) + 1, token \in Tokens :
          text' = InsertAt(text, p, token)
  /\ IsText(text')
  /\ edits' = edits + 1
  /\ UNCHANGED <<vars, ip, port, form>>

\* There is nothing more to do with a text that is not edited.
done == form # "none" /\ UNCHANGED varsText

NextText == scan \/ (\E f \in Forms : writeAs(f)) \/ edit \/ done

SpecText == InitText /\ [][NextText]_varsText

-----------------------------------------------------------------------------
(* Properties *)

\* What an address turns into is the address again: its text when it is parsed,
\* a sockaddr, in network order, and the IPv6 form of an IPv4 address.  Every
\* class reads its own text but SocketAddressV6, which writes no brackets and
\* refuses to read what has none; it reads the text of SocketAddress.
ReadsBack == (form # "none" /\ edits = 0) =>
  LET sa == toSockAddr(ip, port) IN
  /\ form = "Ip"     => IpParse(text) = ParseOk(ip)
  /\ form = "Socket" =>
       /\ SocketParse(text) = ParseOk(SocketAddress(ip, port))
       /\ ip.family = "V4" => SocketV4Parse(text) = ParseOk(SocketAddress(ip, port))
       /\ ip.family = "V6" => SocketV6Parse(text) = ParseOk(SocketAddress(ip, port))
  /\ form = "SocketOfFamily" /\ ip.family = "V4" =>
       SocketV4Parse(text) = ParseOk(SocketAddress(ip, port))
  /\ form = "Network" => NetworkParse(text) = ParseOk([host |-> IpToString(ip), port |-> port])
  /\ fromSockAddr(sa) = SocketAddress(ip, port)
  /\ sa.addr = ip.octets /\ sa.sin_port = Word16(port)
  /\ ip.family = "V4" => fromIpv4Mapped(ip.octets) = octets

\* A NetworkAddress never asks the resolver for what an address wrote: it
\* resolves to that address, for its own family as for any, also when the host
\* is full of colons.  Said of the texts without brackets: NetworkAddress keeps
\* the brackets of SocketAddress::toString in its host.
LiteralHosts == (form # "none" /\ edits = 0) =>
  LET read == NetworkParse(text)
      same == SocketAddress(ip, port)
      IsSame(na) == /\ Resolve(na) = same
                    /\ (IF ip.family = "V4" THEN ResolveV4(na) ELSE ResolveV6(na)) = same
  IN /\ IsSame([host |-> IpToString(ip), port |-> port])
     /\ form # "Ip" => read.ok
     /\ form # "Ip" /\ ~Bracketed(Host(text)) => IsSame(read.value)

\* Whatever is in the text, the class of both families reads it as one of the
\* classes of one family does, and takes what either takes; and a text of a
\* socket address has a NetworkAddress with its port.
ParsersAgree == form # "none" =>
  LET v4 == SocketV4Parse(text) v6 == SocketV6Parse(text) both == SocketParse(text) IN
  /\ ~(v4.ok /\ v6.ok)
  /\ v4.ok => both = v4
  /\ v6.ok => both = v6
  /\ both.ok => /\ v4.ok \/ v6.ok
                /\ NetworkParse(text).ok /\ NetworkParse(text).value.port = both.value.port

\* What c_str() cuts off.
CutOff(t) == {p \in DOMAIN t : \E q \in 1..p : t[q] = Nul}

ReadsAll(Parse(_), t, but) == Parse(t).ok =>
  \A p \in DOMAIN t \ but :
    t[p] \notin Numerals /\ IsText(RemoveAt(t, p)) => Parse(RemoveAt(t, p)) # Parse(t)

\* What is accepted as an IPv6 address, with a port or without, has been read:
\* no mark or character can be taken out of the text without another answer, but
\* for what stands behind a character 0 in the address, up to the last colon.
EveryMarkCounts == form # "none" =>
  LET host == {p \in CutOff(text) : p < LastColon(text)} IN
  /\ ReadsAll(Ipv6Parse, text, CutOff(text))
  /\ ReadsAll(SocketV6Parse, text, host)
  /\ Bracketed(Host(text)) => ReadsAll(SocketParse, text, host)

\* NetworkAddress.hpp: resolve() returns a SocketAddressV4 "unless an IPv4
\* address is unavailable or the host string is an IPv6 address".
V6HostIsV6 == form # "none" =>
  (Ipv6Parse(text).ok =>
     Resolve([host |-> text, port |-> port]) = SocketAddress(V6(Ipv6Parse(text).value), port))

=============================================================================
