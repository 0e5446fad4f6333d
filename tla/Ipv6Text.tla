------------------------------ MODULE Ipv6Text ------------------------------
(***************************************************************************)
(* Ipv6Address as a text: toString with its one-pass search for the        *)
(* longest run of zero segments, one round of the loop per step, and the   *)
(* inet_pton that parse calls.                                             *)
(***************************************************************************)
EXTENDS Ipv4Text

CONSTANTS
  N,         \* segments of an address (8)
  Addresses  \* the addresses that are written, as the sequences of their segments

ASSUME SegmentsAssumption == N \in Nat /\ N > 3

\* Every number that is written has a numeral.
ASSUME AddressesAssumption ==
  /\ Addresses \subseteq [1..N -> 0..MaxWord]
  /\ \A a \in Addresses, k \in 1..N :
       a[k] \in HexValues /\ {a[k] \div 256, a[k] % 256} \subseteq DecValues

VARIABLES
  octets,   \* the address
  pc,       \* "start", "scan", "written"
  i,        \* the loop's counter
  longest,  \* the best span so far
  current,  \* the span that reaches the segment before i, or NoSpan
  out       \* the text

loop == <<i, longest, current>>
vars == <<octets, pc, loop, out>>

NoSpan == [start |-> 0, length |-> 0]

-----------------------------------------------------------------------------
(* The address *)

\* Ipv6Address(a, b, ..., h): byteswapped words copied to memory.
fromSegments(segments) ==
  [p \in 1..2*N |-> Stored(byteswap(Word16(segments[(p + 1) \div 2])))[2 - (p % 2)]]

\* segments(), counted from 0
segment(k) ==
  Number16(byteswap(Loaded(<<octets[2*k + 1], octets[2*k + 2]>>)))

\* toIpv4Mapped(): all octets but the last six are zero, and then two are 0xff.
IsIpv4Mapped ==
  /\ \A p \in 1..2*N - 6 : octets[p] = 0
  /\ octets[2*N - 5] = 255 /\ octets[2*N - 4] = 255
toIpv4Mapped == SubSeq(octets, 2*N - 3, 2*N)

-----------------------------------------------------------------------------
(* toString *)

Init ==
  /\ octets \in {fromSegments(s) : s \in Addresses}
  /\ pc = "start"
  /\ i = 0 /\ longest = NoSpan /\ current = NoSpan
  /\ out = <<>>

writeMapped ==
  /\ pc = "start" /\ IsIpv4Mapped
  /\ out' = <<":", ":", HexNumeral(MaxWord), ":">> \o Ipv4ToString(toIpv4Mapped)
  /\ pc' = "written"
  /\ UNCHANGED <<octets, loop>>

beginScan ==
  /\ pc = "start" /\ ~IsIpv4Mapped
  /\ pc' = "scan"
  /\ UNCHANGED <<octets, loop, out>>

\* (mutant: a later run of the same length wins)
LongerOrLast(span) == span.length >= longest.length
Longer(span) == span.length > longest.length

\* One round over a zero segment.
scanZero ==
  /\ pc = "scan" /\ i < N /\ segment(i) = 0
  /\ current' = [start  |-> IF current.length = 0 THEN i ELSE current.start,
                 length |-> current.length + 1]
  /\ longest' = IF Longer(current') THEN current' ELSE longest
  /\ i' = i + 1
  /\ UNCHANGED <<octets, pc, out>>

scanOther ==
  /\ pc = "scan" /\ i < N /\ segment(i) # 0
  /\ current' = NoSpan
  /\ i' = i + 1
  /\ UNCHANGED <<octets, pc, longest, out>>

writeSubslice(start, count) ==
  [p \in 1..2*count - 1 |->
     IF p % 2 = 1 THEN HexNumeral(segment(start + (p - 1) \div 2)) ELSE ":"]

\* What follows the gap.
AfterGap(span) ==
  writeSubslice(span.start + span.length, N - (span.start + span.length))

write ==
  /\ pc = "scan" /\ i = N
  /\ out' = IF longest.length > 1
              THEN writeSubslice(0, longest.start) \o <<":", ":">> \o AfterGap(longest)
              ELSE writeSubslice(0, N)
  /\ pc' = "written"
  /\ UNCHANGED <<octets, loop>>

toString == writeMapped \/ beginScan \/ scanZero \/ scanOther \/ write

Spec == Init /\ [][toString]_vars

-----------------------------------------------------------------------------
(* inet_pton(AF_INET6, ...) (external): segments between colons, of which the *)
(* last two may be written as four decimal octets; one "::" stands for as     *)
(* many zero segments as are missing, and for one at least.                   *)

IsSegment(field) == Len(field) = 1 /\ field[1] \in DOMAIN Hex

IsQuad(field) ==
  LET octet == Fields(field, ".") IN
  Len(octet) = 4 /\ \A k \in 1..4 : StartsWithNumber(octet[k], 255) /\ IsAllNumber(octet[k])

Quad(field) == LET octet == Fields(field, ".") IN
  <<256 * NumberIn(octet[1]) + NumberIn(octet[2]),
    256 * NumberIn(octet[3]) + NumberIn(octet[4])>>

IsList(text, last) == LET field == Fields(text, ":") IN
  \/ text = <<>>
  \/ \A k \in DOMAIN field : IsSegment(field[k]) \/ (last /\ k = Len(field) /\ IsQuad(field[k]))

List(text) ==
  LET field == Fields(text, ":")
      tail  == field[Len(field)]
  IN IF text = <<>> THEN <<>>
     ELSE [k \in 1..Len(field) - 1 |-> Hex[field[k][1]]]
            \o (IF IsSegment(tail) THEN <<Hex[tail[1]]>> ELSE Quad(tail))

InetPton(text) ==
  LET gaps  == {p \in 1..Len(text) - 1 : text[p] = ":" /\ text[p+1] = ":"}
      gap   == CHOOSE p \in gaps : TRUE
      left  == SubSeq(text, 1, gap - 1)
      right == SubSeq(text, gap + 2, Len(text))
      zeros == N - Len(List(left)) - Len(List(right))
      Is(segments) == ParseOk(fromSegments(segments))
      No    == ParseErr("Unspecified")
  IN CASE gaps = {} ->
            IF text # <<>> /\ IsList(text, TRUE) /\ Len(List(text)) = N THEN Is(List(text)) ELSE No
       [] \E p \in gaps : gaps = {p} ->
            IF ~IsList(left, FALSE) \/ ~IsList(right, TRUE) THEN No
            ELSE IF zeros < 1 THEN No
            ELSE Is(List(left) \o [k \in 1..zeros |-> 0] \o List(right))
       [] OTHER -> No

\* str.c_str() and the first character 0 in it, behind which inet_pton reads nothing
CString(text) ==
  LET nuls == {p \in DOMAIN text : text[p] = Nul} IN
  IF nuls = {} THEN text
  ELSE SubSeq(text, 1, (CHOOSE p \in nuls : \A q \in nuls : p <= q) - 1)

\* Ipv6Address::parse
Ipv6Parse(text) == InetPton(CString(text))

-----------------------------------------------------------------------------
\* A run of zero segments.
ZeroRun(start, length) ==
  length > 0 /\ start + length <= N /\ \A k \in start..start + length - 1 : segment(k) = 0

\* The one pass finds the longest run of zero segments, and the first one of
\* that length, wherever runs begin, end and repeat; it finds none only when no
\* segment is zero.
FirstLongestRun == (pc = "written" /\ ~IsIpv4Mapped) =>
  /\ longest.length > 0 => ZeroRun(longest.start, longest.length)
  /\ \A s \in 0..N, l \in 1..N : ZeroRun(s, l) =>
       l < longest.length \/ (l = longest.length /\ longest.start <= s)

=============================================================================
