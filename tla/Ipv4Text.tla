------------------------------ MODULE Ipv4Text ------------------------------
(***************************************************************************)
(* Ipv4Address as a text, as a number and as an in_addr.  A text is a      *)
(* sequence of tokens: the marks ".", ":", "[", "]", numerals, the character *)
(* 0 and others.  No two numerals stand side by side.  An address is the     *)
(* sequence of its octets, a word is the sequence of its bytes, the most   *)
(* significant first; the host is little-endian (Util.hpp).                *)
(***************************************************************************)
EXTENDS Integers, Sequences, FiniteSets, SequencesExt

CONSTANTS
  Dec,   \* the numerals of the texts, with their decimal values
  Hex,   \* those that are an IPv6 segment, with their values
  Other, \* tokens that are neither mark nor numeral
  Nul    \* the character 0

Numerals == DOMAIN Dec \cup DOMAIN Hex
Marks    == {".", ":", "[", "]"}
Tokens   == Marks \cup Numerals \cup Other \cup {Nul}

MaxWord == 256 * 256 - 1   \* the largest uint16_t

\* A numeral is what one number is written as.
ASSUME NumeralAssumption ==
  /\ Dec \in [DOMAIN Dec -> Nat] /\ Hex \in [DOMAIN Hex -> 0..MaxWord]
  /\ \A m, n \in DOMAIN Dec : Dec[m] = Dec[n] => m = n
  /\ \A m, n \in DOMAIN Hex : Hex[m] = Hex[n] => m = n
  /\ (Other \cup {Nul}) \cap (Numerals \cup Marks) = {} /\ Numerals \cap Marks = {}

DecValues == {Dec[n] : n \in DOMAIN Dec}
HexValues == {Hex[n] : n \in DOMAIN Hex}
DecNumeral(v) == CHOOSE n \in DOMAIN Dec : Dec[n] = v
HexNumeral(v) == CHOOSE n \in DOMAIN Hex : Hex[n] = v

-----------------------------------------------------------------------------
(* Words and memory *)

byteswap(word)  == Reverse(word)
Stored(word)    == Reverse(word)    \* the bytes of a word in memory
Loaded(bytes)   == Reverse(bytes)
Word16(n)       == <<n \div 256, n % 256>>
Number16(word)  == 256 * word[1] + word[2]

\* toBits and fromBits put the first octet in the top byte.
toBits(octets)  == octets
fromBits(bits)  == bits

\* (mutant: the word is stored as it is)
toInAddrHost(octets) == Stored(toBits(octets))
toInAddr(octets)     == Stored(byteswap(toBits(octets)))
fromInAddr(addr)     == fromBits(byteswap(Loaded(addr)))

-----------------------------------------------------------------------------
(* Texts *)

\* The k-th position of a set.
Nth(at, k) == CHOOSE p \in at : Cardinality({q \in at : q <= p}) = k

\* The parts of a text between its marks of one kind.
Fields(text, mark) ==
  LET edges == {0, Len(text) + 1} \cup {p \in DOMAIN text : text[p] = mark}
  IN [k \in 1..Cardinality(edges) - 1 |->
        SubSeq(text, Nth(edges, k) + 1, Nth(edges, k + 1) - 1)]

\* std::from_chars: the number at the beginning of a field, and whether it is
\* all of it.
StartsWithNumber(field, max) ==
  IF field = <<>> THEN FALSE
  ELSE Head(field) \in DOMAIN Dec /\ Dec[Head(field)] <= max
NumberIn(field)   == Dec[Head(field)]
IsAllNumber(field) == Len(field) = 1

NoAddress    == <<>>
ParseOk(a)   == [ok |-> TRUE, value |-> a, err |-> "Success"]
ParseErr(e)  == [ok |-> FALSE, value |-> NoAddress, err |-> e]

\* Ipv4Address::toString
Ipv4ToString(octets) ==
  [p \in 1..7 |-> IF p % 2 = 1 THEN DecNumeral(octets[(p + 1) \div 2]) ELSE "."]

\* Ipv4Address::parse: four rounds, each of which looks for its dot (the last
\* one may do without) before it reads its octet; what from_chars leaves of the
\* field is not looked at.
Ipv4Parse(text) ==
  LET fields == Fields(text, ".")
      dots   == Len(fields) - 1
      rounds == IF dots < 3 THEN 1..dots ELSE 1..4
  IN CASE \E k \in rounds : ~StartsWithNumber(fields[k], 255) -> ParseErr("InvalidOctet")
       [] dots < 3 /\ \A k \in rounds : StartsWithNumber(fields[k], 255) -> ParseErr("MissingOctets")
       [] dots > 3 /\ \A k \in rounds : StartsWithNumber(fields[k], 255) -> ParseErr("TrailingData")
       [] OTHER -> ParseOk([k \in 1..4 |-> NumberIn(fields[k])])

=============================================================================
