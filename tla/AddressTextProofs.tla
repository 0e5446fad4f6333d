------------------------- MODULE AddressTextProofs --------------------------
(***************************************************************************)
(* What AddressText checks, proved for every text, every address of more   *)
(* than three segments and every number of edits: what is written is read  *)
(* again, the parsers agree, and no mark of an IPv6 address is idle, but   *)
(* for what a character 0 cuts off.                                        *)
(***************************************************************************)
EXTENDS AddressText, Ipv6TextProofs

-----------------------------------------------------------------------------
(* Host and port. *)

\* The last colon of a text.
LEMMA LastColonIs ==
  ASSUME NEW t \in Seq(Tokens), NEW c \in 1..Len(t), t[c] = ":",
         \A p \in 1..Len(t) : t[p] = ":" => p <= c
  PROVE  LastColon(t) = c
<1>. DEFINE at == {p \in DOMAIN t : t[p] = ":"}
<1>1. c \in at /\ \A p \in at : p <= c
  BY TextTypes
<1>2. \A p \in at : p \in Int
  BY TextTypes
<1>. HIDE DEF at
<1>3. \A p \in at : (\A q \in at : q <= p) => p = c
  <2>. SUFFICES ASSUME NEW p \in at, \A q \in at : q <= p PROVE p = c
    OBVIOUS
  <2>1. p <= c /\ c <= p /\ p \in Int /\ c \in Int
    BY <1>1, <1>2
  <2>. QED BY <2>1
<1>4. (CHOOSE p \in at : \A q \in at : q <= p) = c
  BY <1>1, <1>3, Zenon
<1>. QED BY <1>1, <1>4 DEF LastColon, at

\* A text with a colon has a last one.
LEMMA LastColonOf ==
  ASSUME NEW t \in Seq(Tokens)
  PROVE  \/ LastColon(t) = 0 /\ \A p \in 1..Len(t) : t[p] # ":"
         \/ /\ LastColon(t) \in 1..Len(t) /\ t[LastColon(t)] = ":"
            /\ \A p \in 1..Len(t) : t[p] = ":" => p <= LastColon(t)
<1>. DEFINE at == {p \in DOMAIN t : t[p] = ":"}
<1>1. Len(t) \in Nat /\ DOMAIN t = 1..Len(t)
  BY TextTypes
<1>2. CASE at = {}
  BY <1>1, <1>2 DEF LastColon
<1>3. CASE at # {}
  <2>1. at \subseteq 0..Len(t)
    BY <1>1
  <2>. HIDE DEF at
  <2>2. PICK c \in at : \A p \in at : p <= c
    BY <1>1, <1>3, <2>1, GreatestOf
  <2>3. c \in 1..Len(t) /\ t[c] = ":" /\ \A p \in 1..Len(t) : t[p] = ":" => p <= c
    BY <1>1, <2>2 DEF at
  <2>4. LastColon(t) = c
    BY <2>3, LastColonIs
  <2>. QED BY <2>3, <2>4
<1>. QED BY <1>2, <1>3

\* A host, a colon, and a token.
LEMMA SplitText ==
  ASSUME NEW h \in Seq(Tokens), Len(h) > 0, NEW n \in Tokens, n # ":"
  PROVE  LET t == h \o <<":", n>> IN
         /\ t \in Seq(Tokens) /\ Splits(t)
         /\ Host(t) = h /\ Port(t) = <<n>>
<1>. DEFINE m == <<":", n>>
            t == h \o m
            c == Len(h) + 1
<1>1. Len(m) = 2 /\ m[1] = ":" /\ m[2] = n
  OBVIOUS
<1>. m \in Seq(Tokens)
  BY DEF Tokens, Marks
<1>. HIDE DEF m
<1>2. /\ t \in Seq(Tokens) /\ Len(t) = Len(h) + Len(m) /\ Len(h) \in Nat
      /\ \A p \in 1..Len(h) : t[p] = h[p]
      /\ \A p \in 1..Len(m) : t[Len(h) + p] = m[p]
  BY Joined
<1>. t \in Seq(Tokens)
  BY <1>2
<1>. HIDE DEF t
<1>3. Len(t) = Len(h) + 2 /\ t[Len(h) + 1] = ":" /\ t[Len(h) + 2] = n
  <2>1. 1 \in 1..Len(m) /\ 2 \in 1..Len(m)
    BY <1>1
  <2>. QED BY <1>1, <1>2, <2>1
<1>4. LastColon(t) = c
  <2>1. c \in 1..Len(t) /\ t[c] = ":"
    BY <1>2, <1>3
  <2>2. \A p \in 1..Len(t) : p <= c \/ p = Len(h) + 2
    BY <1>2, <1>3
  <2>3. \A p \in 1..Len(t) : t[p] = ":" => p <= c
    BY <1>3, <2>2
  <2>. HIDE DEF c
  <2>. QED BY <2>1, <2>3, LastColonIs
<1>5. Splits(t)
  BY <1>2, <1>3, <1>4 DEF Splits
<1>6. Host(t) = h
  <2>1. Host(t) = SubSeq(t, 1, Len(h))
    BY <1>2, <1>4 DEF Host
  <2>2. Len(h) \in 0..Len(t)
    BY <1>2, <1>3
  <2>3. /\ SubSeq(t, 1, Len(h)) \in Seq(Tokens) /\ Len(SubSeq(t, 1, Len(h))) = Len(h)
        /\ \A p \in 1..Len(h) : SubSeq(t, 1, Len(h))[p] = t[p]
    BY <2>2, PartBefore
  <2>4. SubSeq(t, 1, Len(h)) = h
    BY <1>2, <2>3, SeqEqual
  <2>. QED BY <2>1, <2>4
<1>7. Port(t) = <<n>>
  <2>. DEFINE r == SubSeq(t, c + 1, Len(t))
  <2>1. c \in 0..Len(t) /\ Len(t) - c = 1 /\ c + 1 = Len(h) + 2
    <3>1. Len(h) \in Nat /\ Len(t) = Len(h) + 2
      BY <1>2, <1>3
    <3>. QED BY <3>1
  <2>. HIDE DEF c
  <2>2. r \in Seq(Tokens) /\ Len(r) = Len(t) - c /\ \A p \in 1..Len(t) - c : r[p] = t[c + p]
    BY <2>1, PartBehind
  <2>. HIDE DEF r
  <2>3. Len(r) = 1 /\ r[1] = n
    BY <1>3, <2>1, <2>2
  <2>4. <<n>> \in Seq(Tokens) /\ Len(<<n>>) = 1 /\ <<n>>[1] = n
    OBVIOUS
  <2>5. r = <<n>>
    <3>. DEFINE x == <<n>>
    <3>1. x \in Seq(Tokens) /\ Len(r) = Len(x) /\ \A p \in 1..Len(r) : r[p] = x[p]
      BY <2>3, <2>4
    <3>. HIDE DEF x
    <3>2. r = x
      BY <2>2, <3>1, SeqEqual
    <3>. QED BY <3>2 DEF x
  <2>. QED BY <1>4, <2>5 DEF Port, r
<1>. QED BY <1>5, <1>6, <1>7 DEF t, m

\* The port that is written is a port.
LEMMA PortIs ==
  ASSUME NEW p \in Ports
  PROVE  /\ DecNumeral(p) \in Tokens /\ DecNumeral(p) # ":"
         /\ IsPort(<<DecNumeral(p)>>) /\ NumberIn(<<DecNumeral(p)>>) = p
<1>1. p \in DecValues /\ p <= MaxWord
  <2>1. p \in DecValues /\ p \in 0..MaxWord
    BY TextAssumption, Zenon
  <2>. QED BY <2>1
<1>2. DecNumeral(p) \in DOMAIN Dec /\ Dec[DecNumeral(p)] = p /\ DecNumeral(p) \in Tokens \ Marks
  BY <1>1, DecNumeralOf
<1>3. Len(<<DecNumeral(p)>>) = 1 /\ <<DecNumeral(p)>>[1] = DecNumeral(p) /\ <<DecNumeral(p)>> \in Seq(Tokens)
  BY <1>2
<1>4. DecNumeral(p) # ":"
  BY <1>2 DEF Marks
<1>. DEFINE f == <<DecNumeral(p)>>
<1>. HIDE DEF f
<1>5. f \in Seq(Tokens) /\ Len(f) # 0 /\ f[1] \in DOMAIN Dec /\ Dec[f[1]] <= MaxWord /\ Dec[f[1]] = p
  BY <1>1, <1>2, <1>3 DEF f
<1>6. StartsWithNumber(f, MaxWord) /\ NumberIn(f) = p
  BY <1>5, ANumber
<1>. QED BY <1>2, <1>3, <1>4, <1>6 DEF IsPort, IsAllNumber, f
-----------------------------------------------------------------------------
(* How many characters the text of an IPv4 address has. *)

\* The characters of the first k tokens.
Cells(t, k) == UNION {{p} \X (1..Len(t[p])) : p \in 1..k}

LEMMA CellsOfNext ==
  ASSUME NEW t, NEW k \in Nat, NEW lo \in Nat, NEW hi \in Nat, NEW a \in Nat, NEW b \in Nat,
         IsFiniteSet(Cells(t, k)), Cardinality(Cells(t, k)) \in lo..hi,
         Len(t[k + 1]) \in a..b
  PROVE  /\ IsFiniteSet(Cells(t, k + 1))
         /\ Cardinality(Cells(t, k + 1)) \in lo + a..hi + b
<1>. DEFINE m == Len(t[k + 1])
            S == Cells(t, k)
            T == {k + 1} \X (1..m)
<1>1. m \in Nat /\ m \in a..b
  OBVIOUS
<1>. HIDE DEF m
<1>2. IsFiniteSet(T) /\ Cardinality(T) = m
  <2>1. IsFiniteSet(1..m) /\ Cardinality(1..m) = m
    <3>1. 1 \in Int /\ m \in Int /\ (IF 1 > m THEN 0 ELSE m - 1 + 1) = m
      BY <1>1
    <3>. QED BY <3>1, FS_Interval
  <2>2. IsFiniteSet({k + 1}) /\ Cardinality({k + 1}) = 1
    BY FS_Singleton
  <2>3. IsFiniteSet(T) /\ Cardinality(T) = Cardinality({k + 1}) * Cardinality(1..m)
    BY <2>1, <2>2, FS_Product
  <2>. QED BY <1>1, <2>1, <2>2, <2>3
<1>3. Cells(t, k + 1) = S \cup T
  <2>1. 1..k + 1 = 1..k \cup {k + 1}
    OBVIOUS
  <2>2. T = {k + 1} \X (1..Len(t[k + 1]))
    BY DEF m
  <2>. QED BY <2>1, <2>2 DEF Cells
<1>4. S \cap T = {}
  <2>. SUFFICES ASSUME NEW z \in S, z \in T PROVE FALSE
    OBVIOUS
  <2>1. PICK p \in 1..k : z \in {p} \X (1..Len(t[p]))
    BY DEF Cells
  <2>2. z[1] = p /\ z[1] = k + 1
    BY <2>1
  <2>. QED BY <2>2
<1>5. IsFiniteSet(S) /\ Cardinality(S) \in lo..hi
  OBVIOUS
<1>. HIDE DEF S, T
<1>6. /\ IsFiniteSet(S \cup T)
      /\ Cardinality(S \cup T) = Cardinality(S) + Cardinality(T) - Cardinality(S \cap T)
  <2>1. IsFiniteSet(T)
    BY <1>2
  <2>. QED BY <1>5, <2>1, FS_Union
<1>7. Cardinality(S \cap T) = 0
  BY <1>4, FS_EmptySet
<1>8. Cardinality(S \cup T) \in lo + a..hi + b
  <2>. DEFINE x == Cardinality(S)
              y == Cardinality(T)
              w == Cardinality(S \cap T)
  <2>1. x \in lo..hi /\ y = m /\ w = 0
    BY <1>2, <1>5, <1>7
  <2>2. Cardinality(S \cup T) = x + y - w
    BY <1>6
  <2>. HIDE DEF x, y, w
  <2>. QED BY <1>1, <2>1, <2>2
<1>. QED BY <1>3, <1>6, <1>8

LEMMA Ipv4Characters ==
  ASSUME NEW o, IsOctets(o)
  PROVE  Characters(Ipv4ToString(o)) \in 7..15
<1>. DEFINE t == Ipv4ToString(o)
<1>1. /\ t \in Seq(Tokens) /\ Len(t) = 7
      /\ \A k \in 1..4 : t[2*k - 1] = DecNumeral(o[k])
      /\ \A k \in 1..3 : t[2*k] = "."
  BY Ipv4Tokens
<1>. HIDE DEF t
<1>2. \A k \in 1..4 : Len(DecNumeral(o[k])) \in 1..3
  <2>. SUFFICES ASSUME NEW k \in 1..4 PROVE Len(DecNumeral(o[k])) \in 1..3
    OBVIOUS
  <2>1. o[k] \in DecValues /\ o[k] <= 255
    BY DEF IsOctets
  <2>2. DecNumeral(o[k]) \in DOMAIN Dec /\ Dec[DecNumeral(o[k])] <= 255
    BY <2>1, DecNumeralOf
  <2>3. \A n \in DOMAIN Dec : Dec[n] <= 255 => Len(n) \in 1..3
    BY TextAssumption, Zenon
  <2>. QED BY <2>2, <2>3
<1>3. Len(".") = 1
  <2>1. \A m \in Marks : Len(m) = 1
    BY TextAssumption, Zenon
  <2>2. "." \in Marks
    BY DEF Marks
  <2>. QED BY <2>1, <2>2
<1>4. /\ t[0 + 1] = DecNumeral(o[1]) /\ t[1 + 1] = "." /\ t[2 + 1] = DecNumeral(o[2])
      /\ t[3 + 1] = "." /\ t[4 + 1] = DecNumeral(o[3]) /\ t[5 + 1] = "." /\ t[6 + 1] = DecNumeral(o[4])
  <2>1. /\ t[2*1 - 1] = DecNumeral(o[1]) /\ t[2*2 - 1] = DecNumeral(o[2])
        /\ t[2*3 - 1] = DecNumeral(o[3]) /\ t[2*4 - 1] = DecNumeral(o[4])
        /\ t[2*1] = "." /\ t[2*2] = "." /\ t[2*3] = "."
    BY <1>1
  <2>. QED BY <2>1
<1>5. /\ Len(t[0 + 1]) \in 1..3 /\ Len(t[1 + 1]) \in 1..1 /\ Len(t[2 + 1]) \in 1..3
      /\ Len(t[3 + 1]) \in 1..1 /\ Len(t[4 + 1]) \in 1..3 /\ Len(t[5 + 1]) \in 1..1
      /\ Len(t[6 + 1]) \in 1..3
  BY <1>2, <1>3, <1>4
<1>. DEFINE Has(k, lo, hi) == IsFiniteSet(Cells(t, k)) /\ Cardinality(Cells(t, k)) \in lo..hi
<1>6. ASSUME NEW k \in Nat, NEW lo \in Nat, NEW hi \in Nat, NEW a \in Nat, NEW b \in Nat,
             Has(k, lo, hi), Len(t[k + 1]) \in a..b
      PROVE  Has(k + 1, lo + a, hi + b)
  BY <1>6, CellsOfNext
<1>7. Has(0, 0, 0)
  <2>1. Cells(t, 0) = {}
    BY DEF Cells
  <2>. QED BY <2>1, FS_EmptySet
<1>. HIDE DEF Has
<1>7a. \A k, lo, hi, a, b \in Nat :
         Has(k, lo, hi) /\ Len(t[k + 1]) \in a..b => Has(k + 1, lo + a, hi + b)
  <2>. SUFFICES ASSUME NEW k \in Nat, NEW lo \in Nat, NEW hi \in Nat, NEW a \in Nat, NEW b \in Nat,
                       Has(k, lo, hi), Len(t[k + 1]) \in a..b
                PROVE  Has(k + 1, lo + a, hi + b)
    OBVIOUS
  <2>. QED BY <1>6
<1>8. \A k, lo, hi \in Nat :
        Has(k, lo, hi) /\ Len(t[k + 1]) \in 1..3 => Has(k + 1, lo + 1, hi + 3)
  BY <1>7a
<1>9. \A k, lo, hi \in Nat :
        Has(k, lo, hi) /\ Len(t[k + 1]) \in 1..1 => Has(k + 1, lo + 1, hi + 1)
  BY <1>7a
<1>10. Has(1, 1, 3)
  <2>1. Has(0 + 1, 0 + 1, 0 + 3)
    BY <1>5, <1>7, <1>8
  <2>. QED BY <2>1
<1>11. Has(2, 2, 4)
  <2>1. Has(1 + 1, 1 + 1, 3 + 1)
    BY <1>5, <1>10, <1>9
  <2>. QED BY <2>1
<1>12. Has(3, 3, 7)
  <2>1. Has(2 + 1, 2 + 1, 4 + 3)
    BY <1>5, <1>11, <1>8
  <2>. QED BY <2>1
<1>13. Has(4, 4, 8)
  <2>1. Has(3 + 1, 3 + 1, 7 + 1)
    BY <1>5, <1>12, <1>9
  <2>. QED BY <2>1
<1>14. Has(5, 5, 11)
  <2>1. Has(4 + 1, 4 + 1, 8 + 3)
    BY <1>5, <1>13, <1>8
  <2>. QED BY <2>1
<1>14a. Has(6, 6, 12)
  <2>1. Has(5 + 1, 5 + 1, 11 + 1)
    BY <1>5, <1>14, <1>9
  <2>. QED BY <2>1
<1>14b. Has(7, 7, 15)
  <2>1. Has(6 + 1, 6 + 1, 12 + 3)
    BY <1>5, <1>14a, <1>8
  <2>. QED BY <2>1
<1>15. Characters(t) = Cardinality(Cells(t, 7))
  <2>1. DOMAIN t = 1..7
    BY <1>1, TextTypes
  <2>. QED BY <2>1 DEF Characters, Cells
<1>. QED BY <1>14b, <1>15 DEF Has, t
-----------------------------------------------------------------------------
(* What an address is written as. *)

\* A text in brackets.
LEMMA BracketText ==
  ASSUME NEW h \in Seq(Tokens), Len(h) > 0
  PROVE  LET b == <<"[">> \o h \o <<"]">> IN
         b \in Seq(Tokens) /\ Len(b) > 0 /\ Bracketed(b) /\ Unbracketed(b) = h
<1>. DEFINE x == <<"[">>
            y == <<"]">>
            a == x \o h
            b == a \o y
<1>1. Len(x) = 1 /\ x[1] = "[" /\ Len(y) = 1 /\ y[1] = "]"
  OBVIOUS
<1>. x \in Seq(Tokens) /\ y \in Seq(Tokens)
  BY DEF Tokens, Marks
<1>. HIDE DEF x, y
<1>2. /\ a \in Seq(Tokens) /\ Len(a) = Len(x) + Len(h) /\ Len(h) \in Nat
      /\ \A p \in 1..Len(x) : a[p] = x[p]
      /\ \A p \in 1..Len(h) : a[Len(x) + p] = h[p]
  BY Joined
<1>. a \in Seq(Tokens)
  BY <1>2
<1>. HIDE DEF a
<1>3. /\ b \in Seq(Tokens) /\ Len(b) = Len(a) + Len(y)
      /\ \A p \in 1..Len(a) : b[p] = a[p]
      /\ \A p \in 1..Len(y) : b[Len(a) + p] = y[p]
  BY Joined
<1>. HIDE DEF b
<1>4. Len(b) = Len(h) + 2 /\ 1 \in 1..Len(a) /\ 1 \in 1..Len(x) /\ 1 \in 1..Len(y)
  BY <1>1, <1>2, <1>3
<1>5. b[1] = "[" /\ b[Len(b)] = "]"
  <2>1. a[1] = "["
    BY <1>1, <1>2, <1>4
  <2>2. b[Len(a) + 1] = "]" /\ Len(a) + 1 = Len(b)
    BY <1>1, <1>2, <1>3, <1>4
  <2>. QED BY <1>3, <1>4, <2>1, <2>2
<1>6. \A p \in 1..Len(h) : b[1 + p] = h[p]
  <2>. SUFFICES ASSUME NEW p \in 1..Len(h) PROVE b[1 + p] = h[p]
    OBVIOUS
  <2>1. a[1 + p] = h[p] /\ 1 + p \in 1..Len(a)
    BY <1>1, <1>2
  <2>. QED BY <1>3, <2>1
<1>7. Bracketed(b)
  <2>1. b # <<>> /\ Head(b) = b[1]
    BY <1>3, <1>4
  <2>. QED BY <1>2, <1>4, <1>5, <2>1 DEF Bracketed, Last
<1>8. Unbracketed(b) = h
  <2>. DEFINE u == SubSeq(b, 2, Len(b) - 1)
  <2>1. /\ 2 \in Int /\ Len(b) - 1 \in Int /\ 2 <= Len(b) - 1 /\ Len(b) - 1 - 2 + 1 = Len(h)
        /\ Len(b) \in Nat
    BY <1>2, <1>4
  <2>2. \A p \in 2..Len(b) - 1 : b[p] \in Tokens
    <3>1. \A p \in 2..Len(b) - 1 : p \in 1..Len(b)
      BY <2>1
    <3>. QED BY <1>3, <3>1, TextTypes
  <2>3. /\ u \in Seq(Tokens) /\ Len(u) = Len(b) - 1 - 2 + 1
        /\ \A p \in 1..Len(b) - 1 - 2 + 1 : u[p] = b[2 + p - 1]
    BY <2>1, <2>2, SubSeqProperties
  <2>. HIDE DEF u
  <2>4. Len(u) = Len(h) /\ \A p \in 1..Len(u) : u[p] = h[p]
    <3>1. Len(u) = Len(h) /\ \A p \in 1..Len(h) : u[p] = b[2 + p - 1]
      BY <2>1, <2>3
    <3>2. \A p \in 1..Len(h) : 2 + p - 1 = 1 + p
      BY <1>2
    <3>. QED BY <1>6, <3>1, <3>2
  <2>5. u = h
    BY <2>3, <2>4, SeqEqual
  <2>. QED BY <2>5 DEF Unbracketed, u
<1>. QED BY <1>3, <1>4, <1>2, <1>7, <1>8 DEF b, a, x, y

\* The text of an IpAddress: it is the address of its family, and not a text of
\* another one, nor one in brackets.
LEMMA IpText ==
  ASSUME WriteInv, pc = "written", NEW addr \in Candidates
  PROVE  LET h == IpToString(addr) IN
         /\ h \in Seq(Tokens) /\ Len(h) > 0 /\ h[1] # "["
         /\ \/ /\ addr = V4(toIpv4Mapped) /\ addr.family = "V4" /\ addr.octets = toIpv4Mapped
               /\ IsIpv4Mapped /\ IsOctets(addr.octets)
               /\ Ipv4Parse(h) = ParseOk(addr.octets) /\ Characters(h) \in 7..15
            \/ /\ addr = V6(octets) /\ addr.family = "V6" /\ addr.octets = octets
               /\ ~Ipv4Parse(h).ok /\ Ipv6Parse(h) = ParseOk(octets)
<1>1. PICK s \in Addresses : octets = fromSegments(s)
  BY DEF WriteInv
<1>. Numerals \cap Marks = {}
  BY NumeralAssumption, Zenon
<1>2. CASE addr = V6(octets)
  <2>1. LongestIsZero
    BY RunIsZero DEF WriteInv
  <2>2. /\ Expression \in Seq(Tokens) /\ Len(Expression) > 0
        /\ InetPton(Expression) = ParseOk(octets)
        /\ Expression[1] = ":" \/ \A p \in 1..Len(Expression) : Expression[p] # "."
    BY <1>1, <2>1, ExpressionReadsBack
  <2>3. IpToString(addr) = Expression
    BY <1>2 DEF WriteInv, IpToString, V6
  <2>. HIDE DEF Expression
  <2>7. InetPton(Expression).ok /\ Ipv6Parse(Expression) = ParseOk(octets)
    <3>1. InetPton(Expression).ok
      BY <2>2 DEF ParseOk
    <3>. QED BY <2>2, <3>1, ParsedAsIs
  <2>4. Expression[1] # "["
    <3>1. Expression[1] \in Numerals \/ Expression[1] = ":"
      BY <2>2, <2>7, Ipv6Head
    <3>. QED BY <3>1 DEF Marks
  <2>5. ~Ipv4Parse(Expression).ok
    <3>1. CASE Expression[1] = ":"
      <4>. SUFFICES ASSUME Ipv4Parse(Expression).ok PROVE FALSE
        OBVIOUS
      <4>1. Expression[1] \in DOMAIN Dec
        BY <2>2, Ipv4Head
      <4>. QED BY <3>1, <4>1 DEF Marks, Numerals
    <3>2. CASE \A p \in 1..Len(Expression) : Expression[p] # "."
      BY <2>2, <3>2, NoDots
    <3>. QED BY <2>2, <3>1, <3>2
  <2>6. addr.family = "V6" /\ addr.octets = octets
    BY <1>2 DEF V6
  <2>. QED BY <1>2, <2>2, <2>3, <2>4, <2>5, <2>6, <2>7
<1>3. CASE IsIpv4Mapped /\ addr = V4(toIpv4Mapped)
  <2>. DEFINE o == toIpv4Mapped
  <2>1. IsOctets(o)
    BY <1>1, <1>3, MappedIs
  <2>2. addr.family = "V4" /\ addr.octets = o
    BY <1>3 DEF V4
  <2>. HIDE DEF o
  <2>3. IpToString(addr) = Ipv4ToString(o)
    BY <2>2 DEF IpToString
  <2>4. /\ Ipv4ToString(o) \in Seq(Tokens) /\ Len(Ipv4ToString(o)) = 7
        /\ \A k \in 1..4 : Ipv4ToString(o)[2*k - 1] = DecNumeral(o[k])
    BY <2>1, Ipv4Tokens
  <2>5. Ipv4Parse(Ipv4ToString(o)) = ParseOk(o)
    BY <2>1, Ipv4ReadsBack
  <2>6. Ipv4ToString(o)[1] # "["
    <3>1. Ipv4Parse(Ipv4ToString(o)).ok
      BY <2>5 DEF ParseOk
    <3>2. Ipv4ToString(o)[1] \in DOMAIN Dec
      BY <2>4, <3>1, Ipv4Head
    <3>. QED BY <3>2 DEF Marks, Numerals
  <2>7. Characters(Ipv4ToString(o)) \in 7..15
    BY <2>1, Ipv4Characters
  <2>. QED BY <1>3, <2>1, <2>2, <2>3, <2>4, <2>5, <2>6, <2>7 DEF o
<1>. QED BY <1>2, <1>3 DEF Candidates

\* A host and a port are written as a text that splits into the two.
LEMMA WithPortText ==
  ASSUME NEW h \in Seq(Tokens), Len(h) > 0, NEW p \in Ports
  PROVE  LET t == WithPort(h, p) IN
         /\ t \in Seq(Tokens) /\ Splits(t) /\ Host(t) = h
         /\ IsPort(Port(t)) /\ NumberIn(Port(t)) = p
<1>. DEFINE n == DecNumeral(p)
<1>1. n \in Tokens /\ n # ":" /\ IsPort(<<n>>) /\ NumberIn(<<n>>) = p
  BY PortIs
<1>. HIDE DEF n
<1>2. /\ h \o <<":", n>> \in Seq(Tokens) /\ Splits(h \o <<":", n>>)
      /\ Host(h \o <<":", n>>) = h /\ Port(h \o <<":", n>>) = <<n>>
  BY <1>1, SplitText
<1>3. WithPort(h, p) = h \o <<":", n>>
  BY DEF WithPort, n
<1>. QED BY <1>1, <1>2, <1>3

\* The host in what is written: the address, in brackets or not.
WrittenAs(f, addr, p) ==
  LET t == Written(f, addr, p)
      h == IpToString(addr)
      b == <<"[">> \o h \o <<"]">>
  IN /\ t \in Seq(Tokens)
     /\ f = "Ip" => t = h
     /\ f # "Ip" => Splits(t) /\ IsPort(Port(t)) /\ NumberIn(Port(t)) = p
     /\ f \in {"SocketOfFamily", "Network"} => Host(t) = h /\ ~Bracketed(h)
     /\ f = "Socket" /\ addr.family = "V4" => Host(t) = h /\ ~Bracketed(h)
     /\ f = "Socket" /\ addr.family = "V6" => Host(t) = b /\ Bracketed(b) /\ Unbracketed(b) = h

LEMMA WrittenText ==
  ASSUME WriteInv, pc = "written", NEW addr \in Candidates, NEW p \in Ports, NEW f \in Forms
  PROVE  WrittenAs(f, addr, p)
<1>. DEFINE h == IpToString(addr)
            b == <<"[">> \o h \o <<"]">>
            t == Written(f, addr, p)
<1>1. h \in Seq(Tokens) /\ Len(h) > 0 /\ h[1] # "[" /\ addr.family \in {"V4", "V6"}
  BY IpText
<1>2. ~Bracketed(h)
  BY <1>1 DEF Bracketed
<1>3. CASE f = "Ip"
  BY <1>1, <1>3 DEF Written, WrittenAs
<1>4. CASE f \in {"SocketOfFamily", "Network"} \/ (f = "Socket" /\ addr.family = "V4")
  <2>1. t = WithPort(h, p)
    BY <1>4 DEF Written, SocketToString
  <2>. HIDE DEF h
  <2>2. LET x == WithPort(h, p) IN
        /\ x \in Seq(Tokens) /\ Splits(x) /\ Host(x) = h
        /\ IsPort(Port(x)) /\ NumberIn(Port(x)) = p
    BY <1>1, WithPortText
  <2>. HIDE DEF t
  <2>3. f # "Ip"
    BY <1>4
  <2>4. t \in Seq(Tokens) /\ Splits(t) /\ Host(t) = h /\ IsPort(Port(t)) /\ NumberIn(Port(t)) = p
    BY <2>1, <2>2
  <2>. QED BY <1>2, <1>4, <2>3, <2>4 DEF WrittenAs, h, t
<1>5. CASE f = "Socket" /\ addr.family = "V6"
  <2>1. t = WithPort(b, p)
    BY <1>5 DEF Written, SocketToString
  <2>. HIDE DEF h
  <2>2. b \in Seq(Tokens) /\ Len(b) > 0 /\ Bracketed(b) /\ Unbracketed(b) = h
    BY <1>1, BracketText
  <2>. HIDE DEF b
  <2>3. LET x == WithPort(b, p) IN
        /\ x \in Seq(Tokens) /\ Splits(x) /\ Host(x) = b
        /\ IsPort(Port(x)) /\ NumberIn(Port(x)) = p
    BY <2>2, WithPortText
  <2>. HIDE DEF t
  <2>4. t \in Seq(Tokens) /\ Splits(t) /\ Host(t) = b /\ IsPort(Port(t)) /\ NumberIn(Port(t)) = p
    BY <2>1, <2>3
  <2>. QED BY <1>5, <2>2, <2>4 DEF WrittenAs, h, b, t
<1>6. \/ f = "Ip"
      \/ f = "Socket" /\ addr.family = "V6"
      \/ f \in {"SocketOfFamily", "Network"} \/ (f = "Socket" /\ addr.family = "V4")
  BY <1>1 DEF Forms
<1>. HIDE DEF t, h, b
<1>. QED BY <1>3, <1>4, <1>5, <1>6
-----------------------------------------------------------------------------
(* The invariant of the text. *)

\* The text that was written is the one the form's class writes of the address,
\* as long as nobody has edited it, and a text is made of tokens.
TextInv ==
  /\ WriteInv
  /\ text \in Seq(Tokens) /\ edits \in Nat /\ form \in Forms \cup {"none"}
  /\ form # "none" => pc = "written" /\ ip \in Candidates /\ port \in Ports
  /\ form # "none" /\ edits = 0 => text = Written(form, ip, port)

LEMMA TextInitially == ASSUME InitText PROVE TextInv
<1>1. WriteInv /\ text = <<>> /\ edits = 0 /\ form = "none"
  BY WriteInitially DEF InitText
<1>. QED BY <1>1 DEF TextInv

\* An edited text is a text.
LEMMA EditedText ==
  ASSUME NEW t \in Seq(Tokens), NEW p \in 1..Len(t) + 1, NEW token \in Tokens
  PROVE  InsertAt(t, p, token) \in Seq(Tokens) /\ (p <= Len(t) => RemoveAt(t, p) \in Seq(Tokens))
<1>. DEFINE a == SubSeq(t, 1, p - 1)
            b == SubSeq(t, (p - 1) + 1, Len(t))
            c == SubSeq(t, p + 1, Len(t))
            x == <<token>>
<1>1. Len(t) \in Nat /\ p - 1 \in 0..Len(t) /\ (p - 1) + 1 = p
  BY TextTypes
<1>2. a \in Seq(Tokens)
  BY <1>1, PartBefore
<1>3. b \in Seq(Tokens)
  <2>. HIDE DEF b
  <2>1. \A m \in 0..Len(t) : SubSeq(t, m + 1, Len(t)) \in Seq(Tokens)
    BY PartBehind
  <2>. QED BY <1>1, <2>1 DEF b
<1>4. p <= Len(t) => c \in Seq(Tokens)
  <2>. HAVE p <= Len(t)
  <2>1. p \in 0..Len(t)
    BY <1>1
  <2>. QED BY <2>1, PartBehind
<1>5. x \in Seq(Tokens)
  OBVIOUS
<1>6. InsertAt(t, p, token) = a \o x \o b /\ RemoveAt(t, p) = a \o c
  BY <1>1 DEF InsertAt, RemoveAt
<1>. HIDE DEF a, b, c, x
<1>7. a \o x \in Seq(Tokens)
  BY <1>2, <1>5, Joined
<1>8. (a \o x) \o b \in Seq(Tokens)
  BY <1>3, <1>7, Joined
<1>9. p <= Len(t) => a \o c \in Seq(Tokens)
  BY <1>2, <1>4, Joined
<1>. QED BY <1>6, <1>8, <1>9

LEMMA TextKept == ASSUME TextInv, [NextText]_varsText PROVE TextInv'
<1>1. WriteInv'
  <2>1. [toString]_vars
    BY DEF NextText, scan, writeAs, edit, done, varsText
  <2>. QED BY <2>1, WriteKept DEF TextInv
<1>2. CASE scan
  <2>1. form = "none"
    BY <1>2 DEF scan, toString, writeMapped, beginScan, scanZero, scanOther, write, TextInv
  <2>. QED BY <1>1, <1>2, <2>1 DEF scan, TextInv
<1>3. ASSUME UNCHANGED vars
      PROVE  Candidates' = Candidates /\ (\A f, a, p : Written(f, a, p)' = Written(f, a, p))
  <2>1. octets' = octets /\ out' = out
    BY <1>3 DEF vars
  <2>2. Candidates' = Candidates
    BY <2>1 DEF Candidates, IsIpv4Mapped, toIpv4Mapped
  <2>3. \A a : IpToString(a)' = IpToString(a)
    BY <2>1 DEF IpToString
  <2>4. \A f, a, p : Written(f, a, p)' = Written(f, a, p)
    BY <2>3 DEF Written, SocketToString
  <2>. QED BY <2>2, <2>4
<1>4. CASE \E f \in Forms : writeAs(f)
  <2>. PICK f \in Forms : writeAs(f)
    BY <1>4
  <2>1. /\ pc = "written" /\ ip' \in Candidates /\ port' \in Ports /\ form' = f
        /\ text' = Written(f, ip', port') /\ UNCHANGED vars /\ UNCHANGED edits
    BY DEF writeAs
  <2>2. text' \in Seq(Tokens)
    BY <2>1, WrittenText DEF TextInv, WrittenAs
  <2>3. pc' = "written" /\ ip' \in Candidates'
    BY <1>3, <2>1 DEF vars
  <2>4. text' = Written(form, ip, port)'
    <3>1. out' = out
      BY <2>1 DEF vars
    <3>2. IpToString(ip)' = IpToString(ip')
      BY <3>1 DEF IpToString
    <3>3. Written(form, ip, port)' = Written(f, ip', port')
      BY <2>1, <3>2 DEF Written, SocketToString
    <3>. QED BY <2>1, <3>3
  <2>. QED BY <1>1, <2>1, <2>2, <2>3, <2>4 DEF TextInv
<1>5. CASE edit
  <2>1. /\ form # "none" /\ edits' = edits + 1 /\ UNCHANGED vars
        /\ ip' = ip /\ port' = port /\ form' = form
    BY <1>5 DEF edit
  <2>2. text' \in Seq(Tokens)
    <3>1. DOMAIN text = 1..Len(text) /\ Len(text) \in Nat
      BY TextTypes DEF TextInv
    <3>2. CASE \E p \in DOMAIN text : text' = RemoveAt(text, p)
      <4>. PICK p \in DOMAIN text : text' = RemoveAt(text, p)
        BY <3>2
      <4>1. p \in 1..Len(text) + 1 /\ p <= Len(text) /\ ":" \in Tokens /\ text \in Seq(Tokens)
        BY <3>1 DEF Tokens, Marks, TextInv
      <4>. QED BY <4>1, EditedText
    <3>3. CASE \E p \in 1..Len(text) + 1, token \in Tokens : text' = InsertAt(text, p, token)
      <4>. PICK p \in 1..Len(text) + 1, token \in Tokens : text' = InsertAt(text, p, token)
        BY <3>3
      <4>1. text \in Seq(Tokens)
        BY DEF TextInv
      <4>. QED BY <4>1, EditedText
    <3>. QED BY <1>5, <3>2, <3>3 DEF edit
  <2>3. pc' = pc /\ ip' \in Candidates'
    BY <1>3, <2>1 DEF vars, TextInv
  <2>4. edits' \in Nat /\ edits' # 0
    BY <2>1 DEF TextInv
  <2>. QED BY <1>1, <2>1, <2>2, <2>3, <2>4 DEF TextInv
<1>6. CASE UNCHANGED varsText
  <2>1. UNCHANGED vars /\ ip' = ip /\ port' = port /\ form' = form /\ text' = text /\ edits' = edits
    BY <1>6 DEF varsText
  <2>2. pc' = pc /\ out' = out /\ Candidates' = Candidates
    BY <1>3, <2>1 DEF vars
  <2>3. Written(form, ip, port)' = Written(form, ip, port)
    BY <2>1, <2>2 DEF Written, SocketToString, IpToString
  <2>. QED BY <1>1, <2>1, <2>2, <2>3 DEF TextInv
<1>. QED BY <1>2, <1>4, <1>5, <1>6 DEF NextText, done
-----------------------------------------------------------------------------
(* An address in memory. *)

LEMMA FourLong ==
  ASSUME NEW o \in [1..4 -> 0..255]
  PROVE  o \in Seq(0..255) /\ Len(o) = 4
<1>. DEFINE m == 4
            B == 0..255
<1>1. m \in Nat /\ o \in [1..m -> B]
  OBVIOUS
<1>. HIDE DEF m, B
<1>2. o \in Seq(B) /\ Len(o) = m
  BY <1>1, FunctionIsSeq
<1>. QED BY <1>2 DEF m, B

LEMMA FourTwiceReversed ==
  ASSUME NEW o \in [1..4 -> 0..255]
  PROVE  Reverse(Reverse(o)) = o
<1>1. o \in Seq(0..255) /\ Len(o) = 4
  BY FourLong
<1>. DEFINE r == Reverse(o)
            rr == Reverse(r)
<1>2. r = [j \in 1..4 |-> o[4 - j + 1]]
  BY <1>1 DEF Reverse
<1>3. r \in [1..4 -> 0..255]
  <2>1. \A j \in 1..4 : 4 - j + 1 \in 1..4
    OBVIOUS
  <2>. QED BY <1>2, <2>1
<1>4. \A j \in 1..4 : r[j] = o[4 - j + 1]
  BY <1>2
<1>. HIDE DEF r
<1>5. r \in Seq(0..255) /\ Len(r) = 4
  BY <1>3, FourLong
<1>6. rr = [j \in 1..4 |-> r[4 - j + 1]]
  BY <1>5 DEF Reverse
<1>7. \A j \in 1..4 : rr[j] = o[j]
  <2>. SUFFICES ASSUME NEW j \in 1..4 PROVE rr[j] = o[j]
    OBVIOUS
  <2>1. 4 - j + 1 \in 1..4 /\ 4 - (4 - j + 1) + 1 = j
    OBVIOUS
  <2>2. rr[j] = r[4 - j + 1]
    BY <1>6
  <2>3. \A k \in 1..4 : r[k] = o[4 - k + 1]
    BY <1>4
  <2>4. r[4 - j + 1] = o[4 - (4 - j + 1) + 1]
    BY <2>1, <2>3
  <2>. QED BY <2>1, <2>2, <2>4
<1>8. DOMAIN rr = 1..4
  BY <1>6
<1>. HIDE DEF rr
<1>9. rr = o
  <2>1. rr = [j \in 1..4 |-> rr[j]]
    BY <1>6, <1>7, <1>8 DEF rr
  <2>2. o = [j \in 1..4 |-> o[j]]
    OBVIOUS
  <2>. QED BY <1>7, <2>1, <2>2
<1>. QED BY <1>9 DEF rr, r

\* A sockaddr has the octets in the order of the address and the port with its
\* more significant byte first, and gives the address and the port again.
InMemory(addr, p) == LET sa == toSockAddr(addr, p) IN
  /\ sa.addr = addr.octets /\ sa.sin_port = Word16(p)
  /\ fromSockAddr(sa) = SocketAddress(addr, p)

LEMMA MemoryKeeps ==
  ASSUME NEW addr, NEW p \in 0..MaxWord, addr.family \in {"V4", "V6"},
         addr.family = "V4" => addr.octets \in [1..4 -> 0..255]
  PROVE  InMemory(addr, p)
<1>. DEFINE w == Word16(p)
            sa == toSockAddr(addr, p)
<1>1. Stored(byteswap(w)) = w /\ byteswap(Loaded(w)) = w
  BY TwiceReversed DEF Stored, Loaded, byteswap, Word16
<1>2. Number16(w) = p
  <2>1. 256*(p \div 256) + (p % 256) = p
    BY WordParts
  <2>. QED BY <2>1 DEF Number16, Word16
<1>4. addr.family = "V4" => toInAddr(addr.octets) = addr.octets /\ fromInAddr(addr.octets) = addr.octets
  <2>. HAVE addr.family = "V4"
  <2>1. Reverse(Reverse(addr.octets)) = addr.octets
    BY FourTwiceReversed
  <2>. QED BY <2>1 DEF toInAddr, fromInAddr, toBits, fromBits, Stored, Loaded, byteswap
<1>. HIDE DEF w
<1>5. sa = [sa_family |-> addr.family, addr |-> addr.octets, sin_port |-> w]
  <2>1. (IF addr.family = "V4" THEN toInAddr(addr.octets) ELSE addr.octets) = addr.octets
    BY <1>4
  <2>. QED BY <1>1, <2>1 DEF toSockAddr, w
<1>6. sa.sa_family = addr.family /\ sa.addr = addr.octets /\ sa.sin_port = w
  BY <1>5
<1>. HIDE DEF sa
<1>7. fromSockAddr(sa) = SocketAddress(addr, p)
  <2>1. (IF sa.sa_family = "V4" THEN fromInAddr(sa.addr) ELSE sa.addr) = addr.octets
    BY <1>4, <1>6
  <2>2. Number16(byteswap(Loaded(sa.sin_port))) = p
    BY <1>1, <1>2, <1>6
  <2>3. fromSockAddr(sa) = SocketAddress([family |-> addr.family, octets |-> addr.octets], p)
    BY <1>6, <2>1, <2>2 DEF fromSockAddr
  <2>. QED BY <2>3 DEF SocketAddress
<1>. QED BY <1>6, <1>7 DEF InMemory, sa, w

LEMMA MemoryOf ==
  ASSUME WriteInv, pc = "written", NEW addr \in Candidates, NEW p \in Ports
  PROVE  InMemory(addr, p)
<1>1. addr.family \in {"V4", "V6"}
  BY DEF Candidates, V4, V6
<1>2. addr.family = "V4" => addr.octets \in [1..4 -> 0..255]
  <2>. HAVE addr.family = "V4"
  <2>1. IsOctets(addr.octets)
    BY IpText
  <2>. QED BY <2>1 DEF IsOctets
<1>3. p \in 0..MaxWord
  BY TextAssumption, Zenon
<1>. QED BY <1>1, <1>2, <1>3, MemoryKeeps

\* An IPv4 address that was mapped into an IPv6 address gives that one again.
LEMMA MappedBack ==
  ASSUME WriteInv, IsIpv4Mapped
  PROVE  fromIpv4Mapped(toIpv4Mapped) = octets
<1>. DEFINE z == [p \in 1..2*N - 6 |-> 0]
            y == <<255, 255>>
            o == toIpv4Mapped
            zy == z \o y
            x == zy \o o
<1>1. PICK s \in Addresses : octets = fromSegments(s)
  BY DEF WriteInv
<1>2. IsOctets(o) /\ \A j \in 1..4 : o[j] = octets[2*N - 4 + j]
  BY <1>1, MappedIs
<1>. HIDE DEF o
<1>3. o \in Seq(0..255) /\ Len(o) = 4
  <2>1. o \in [1..4 -> 0..255]
    BY <1>2 DEF IsOctets
  <2>. QED BY <2>1, FourLong
<1>4. 2*N - 6 \in Nat /\ 2*N \in Nat /\ N \in Nat
  BY SegmentsAssumption
<1>5. octets \in Seq(0..255) /\ Len(octets) = 2*N
  <2>1. \A p \in 1..2*N : octets[p] \in 0..255
    BY <1>1, OctetBytes
  <2>2. octets = [p \in 1..2*N |-> octets[p]]
    <3>1. octets = [p \in 1..2*N |-> Stored(byteswap(Word16(s[(p + 1) \div 2])))[2 - (p % 2)]]
      BY <1>1 DEF fromSegments
    <3>. DEFINE g(p) == Stored(byteswap(Word16(s[(p + 1) \div 2])))[2 - (p % 2)]
    <3>. HIDE DEF g
    <3>2. octets = [p \in 1..2*N |-> g(p)]
      BY <3>1 DEF g
    <3>. QED BY <3>2
  <2>3. octets \in [1..2*N -> 0..255]
    BY <2>1, <2>2
  <2>. DEFINE m == 2*N
  <2>4. m \in Nat /\ octets \in [1..m -> 0..255]
    BY <1>4, <2>3
  <2>. HIDE DEF m
  <2>5. octets \in Seq(0..255) /\ Len(octets) = m
    BY <2>4, FunctionIsSeq
  <2>. QED BY <2>5 DEF m
<1>6. z \in Seq(0..255) /\ Len(z) = 2*N - 6
  <2>. DEFINE m == 2*N - 6
  <2>1. m \in Nat /\ z \in [1..m -> 0..255]
    BY <1>4
  <2>. HIDE DEF m, z
  <2>2. z \in Seq(0..255) /\ Len(z) = m
    BY <2>1, FunctionIsSeq
  <2>. QED BY <2>2 DEF m
<1>7. \A p \in 1..Len(z) : z[p] = 0
  BY <1>6
<1>8. y \in Seq(0..255) /\ Len(y) = 2 /\ y[1] = 255 /\ y[2] = 255
  OBVIOUS
<1>. HIDE DEF z, y
<1>9. /\ zy \in Seq(0..255) /\ Len(zy) = Len(z) + Len(y)
      /\ \A p \in 1..Len(z) : zy[p] = z[p]
      /\ \A p \in 1..Len(y) : zy[Len(z) + p] = y[p]
  <2>. DEFINE B == 0..255
  <2>1. z \in Seq(B) /\ y \in Seq(B)
    BY <1>6, <1>8
  <2>. HIDE DEF B
  <2>2. /\ z \o y \in Seq(B) /\ Len(z \o y) = Len(z) + Len(y)
        /\ \A p \in 1..Len(z) : (z \o y)[p] = z[p]
        /\ \A p \in 1..Len(y) : (z \o y)[Len(z) + p] = y[p]
    BY <2>1, Joined
  <2>. QED BY <2>2 DEF B
<1>. HIDE DEF zy
<1>10. /\ x \in Seq(0..255) /\ Len(x) = Len(zy) + Len(o)
       /\ \A p \in 1..Len(zy) : x[p] = zy[p]
       /\ \A p \in 1..Len(o) : x[Len(zy) + p] = o[p]
  <2>. DEFINE B == 0..255
  <2>1. zy \in Seq(B) /\ o \in Seq(B)
    BY <1>3, <1>9
  <2>. HIDE DEF B
  <2>2. /\ zy \o o \in Seq(B) /\ Len(zy \o o) = Len(zy) + Len(o)
        /\ \A p \in 1..Len(zy) : (zy \o o)[p] = zy[p]
        /\ \A p \in 1..Len(o) : (zy \o o)[Len(zy) + p] = o[p]
    BY <2>1, Joined
  <2>. QED BY <2>2 DEF B
<1>. HIDE DEF x
<1>11. Len(zy) = 2*N - 4 /\ Len(x) = 2*N
  BY <1>3, <1>4, <1>6, <1>8, <1>9, <1>10
<1>12. \A p \in 1..2*N - 6 : octets[p] = 0 /\ x[p] = 0
  <2>. SUFFICES ASSUME NEW p \in 1..2*N - 6 PROVE octets[p] = 0 /\ x[p] = 0
    OBVIOUS
  <2>1. octets[p] = 0
    BY DEF IsIpv4Mapped
  <2>2. p \in 1..Len(z)
    BY <1>6
  <2>3. p \in 1..Len(zy)
    BY <1>4, <1>11
  <2>4. x[p] = zy[p] /\ zy[p] = z[p]
    BY <1>9, <1>10, <2>2, <2>3
  <2>. QED BY <1>7, <2>1, <2>2, <2>4
<1>13. x[2*N - 5] = 255 /\ x[2*N - 4] = 255
  <2>1. zy[Len(z) + 1] = 255 /\ zy[Len(z) + 2] = 255
    <3>1. 1 \in 1..Len(y) /\ 2 \in 1..Len(y)
      BY <1>8
    <3>. QED BY <1>8, <1>9, <3>1
  <2>2. Len(z) + 1 = 2*N - 5 /\ Len(z) + 2 = 2*N - 4
    BY <1>4, <1>6
  <2>3. 2*N - 5 \in 1..Len(zy) /\ 2*N - 4 \in 1..Len(zy)
    BY <1>4, <1>11
  <2>4. x[2*N - 5] = zy[2*N - 5] /\ x[2*N - 4] = zy[2*N - 4]
    BY <1>10, <2>3
  <2>. QED BY <2>1, <2>2, <2>4
<1>14. octets[2*N - 5] = 255 /\ octets[2*N - 4] = 255
  BY DEF IsIpv4Mapped
<1>15. \A j \in 1..4 : x[2*N - 4 + j] = octets[2*N - 4 + j]
  <2>1. \A j \in 1..4 : x[Len(zy) + j] = o[j]
    BY <1>3, <1>10
  <2>. QED BY <1>2, <1>11, <2>1
<1>16. \A p \in 1..2*N : \/ p \in 1..2*N - 6 \/ p = 2*N - 5 \/ p = 2*N - 4
                         \/ \E j \in 1..4 : p = 2*N - 4 + j
  <2>. SUFFICES ASSUME NEW p \in 1..2*N, ~(p \in 1..2*N - 6), p # 2*N - 5, p # 2*N - 4
                PROVE  \E j \in 1..4 : p = 2*N - 4 + j
    OBVIOUS
  <2>. DEFINE j == p - (2*N - 4)
  <2>1. j \in 1..4 /\ p = 2*N - 4 + j
    BY <1>4
  <2>. HIDE DEF j
  <2>. QED BY <2>1
<1>17. \A p \in 1..2*N : x[p] = octets[p]
  BY <1>12, <1>13, <1>14, <1>15, <1>16
<1>18. x = octets
  <2>1. Len(x) = Len(octets) /\ \A p \in 1..Len(x) : x[p] = octets[p]
    BY <1>5, <1>11, <1>17
  <2>. QED BY <1>5, <1>10, <2>1, SeqEqual
<1>. QED BY <1>18 DEF fromIpv4Mapped, x, zy, z, y, o
-----------------------------------------------------------------------------
(* What is written is read. *)

\* The text of an address is that address as a literal.
LEMMA LiteralOf ==
  ASSUME WriteInv, pc = "written", NEW addr \in Candidates, NEW tryV4,
         addr.family = "V4" => tryV4
  PROVE  LET h == IpToString(addr) IN
         /\ Literal(h, tryV4) = ParseOk(addr) /\ ParseOk(addr).ok /\ ParseOk(addr).value = addr
         /\ addr.family = "V4" => Ipv4Parse(h) = ParseOk(addr.octets) /\ V4(addr.octets) = addr
         /\ addr.family = "V6" => Ipv6Parse(h) = ParseOk(addr.octets) /\ V6(addr.octets) = addr
<1>. DEFINE h == IpToString(addr)
<1>1. \/ /\ addr = V4(toIpv4Mapped) /\ addr.family = "V4" /\ addr.octets = toIpv4Mapped
         /\ Ipv4Parse(h) = ParseOk(addr.octets)
      \/ /\ addr = V6(octets) /\ addr.family = "V6" /\ addr.octets = octets
         /\ ~Ipv4Parse(h).ok /\ Ipv6Parse(h) = ParseOk(addr.octets)
  BY IpText
<1>. HIDE DEF h
<1>2. \A a : ParseOk(a).ok /\ ParseOk(a).value = a
  BY DEF ParseOk
<1>3. CASE addr.family = "V4"
  <2>1. V4(addr.octets) = addr /\ Ipv4Parse(h) = ParseOk(addr.octets) /\ tryV4
    BY <1>1, <1>3
  <2>2. Literal(h, tryV4) = ParseOk(addr)
    BY <1>2, <2>1 DEF Literal
  <2>. QED BY <1>2, <1>3, <2>1, <2>2 DEF h
<1>4. CASE addr.family = "V6"
  <2>1. V6(addr.octets) = addr /\ ~Ipv4Parse(h).ok /\ Ipv6Parse(h) = ParseOk(addr.octets)
    BY <1>1, <1>4
  <2>2. Literal(h, tryV4) = ParseOk(addr)
    BY <1>2, <2>1 DEF Literal
  <2>. QED BY <1>2, <1>4, <2>1, <2>2 DEF h
<1>. QED BY <1>1, <1>3, <1>4

\* A text that nobody has edited, with the address in it.
LEMMA Unedited ==
  ASSUME TextInv, form # "none", edits = 0
  PROVE  /\ pc = "written" /\ WriteInv /\ ip \in Candidates /\ port \in Ports /\ form \in Forms
         /\ text = Written(form, ip, port) /\ WrittenAs(form, ip, port)
         /\ ip.family \in {"V4", "V6"}
<1>1. pc = "written" /\ WriteInv /\ ip \in Candidates /\ port \in Ports /\ form \in Forms
  BY DEF TextInv
<1>2. WrittenAs(form, ip, port)
  BY <1>1, WrittenText
<1>3. ip.family \in {"V4", "V6"}
  BY <1>1 DEF Candidates, V4, V6
<1>. QED BY <1>1, <1>2, <1>3 DEF TextInv

LEMMA AddressReadsBack == ASSUME TextInv PROVE ReadsBack
<1>. SUFFICES ASSUME form # "none", edits = 0 PROVE ReadsBack
  BY DEF ReadsBack
<1>. DEFINE h == IpToString(ip)
            b == <<"[">> \o h \o <<"]">>
<1>1. /\ pc = "written" /\ WriteInv /\ ip \in Candidates /\ port \in Ports /\ form \in Forms
      /\ text = Written(form, ip, port) /\ WrittenAs(form, ip, port)
      /\ ip.family \in {"V4", "V6"}
  BY Unedited
<1>2. /\ form = "Ip" => text = h
      /\ form # "Ip" => Splits(text) /\ IsPort(Port(text)) /\ NumberIn(Port(text)) = port
      /\ form \in {"SocketOfFamily", "Network"} => Host(text) = h /\ ~Bracketed(h)
      /\ form = "Socket" /\ ip.family = "V4" => Host(text) = h /\ ~Bracketed(h)
      /\ form = "Socket" /\ ip.family = "V6" => Host(text) = b /\ Bracketed(b) /\ Unbracketed(b) = h
  BY <1>1 DEF WrittenAs
<1>3. ip.family = "V4" => Characters(h) \in 7..15
  BY <1>1, IpText
<1>4. /\ Literal(h, Characters(h) \in 7..15) = ParseOk(ip)
      /\ ip.family = "V4" => Ipv4Parse(h) = ParseOk(ip.octets) /\ V4(ip.octets) = ip
      /\ ip.family = "V6" => Ipv6Parse(h) = ParseOk(ip.octets) /\ V6(ip.octets) = ip
  BY <1>1, <1>3, LiteralOf
<1>. HIDE DEF b, h
<1>5. \A a : ParseOk(a).ok /\ ParseOk(a).value = a
  BY DEF ParseOk
<1>6. form = "Ip" => IpParse(text) = ParseOk(ip)
  BY <1>2, <1>4 DEF IpParse
<1>7. form # "Ip" => \A addr : WithPortOf(text, addr) = ParseOk(SocketAddress(addr, port))
  BY <1>2 DEF WithPortOf
<1>8. ASSUME form = "Socket"
      PROVE  /\ SocketParse(text) = ParseOk(SocketAddress(ip, port))
             /\ ip.family = "V4" => SocketV4Parse(text) = ParseOk(SocketAddress(ip, port))
             /\ ip.family = "V6" => SocketV6Parse(text) = ParseOk(SocketAddress(ip, port))
  <2>1. CASE ip.family = "V4"
    <3>1. Host(text) = h /\ ~Bracketed(Host(text)) /\ Splits(text)
      BY <1>2, <1>8, <2>1
    <3>2. Ipv4Parse(h).ok /\ V4(Ipv4Parse(h).value) = ip
      BY <1>4, <1>5, <2>1
    <3>3. SocketParse(text) = WithPortOf(text, ip)
      BY <3>1, <3>2 DEF SocketParse
    <3>4. SocketV4Parse(text) = WithPortOf(text, ip)
      BY <3>1, <3>2 DEF SocketV4Parse
    <3>. QED BY <1>7, <1>8, <2>1, <3>3, <3>4
  <2>2. CASE ip.family = "V6"
    <3>1. Unbracketed(Host(text)) = h /\ Bracketed(Host(text)) /\ Splits(text)
      BY <1>2, <1>8, <2>2
    <3>2. Ipv6Parse(h).ok /\ V6(Ipv6Parse(h).value) = ip
      BY <1>4, <1>5, <2>2
    <3>3. SocketParse(text) = WithPortOf(text, ip)
      BY <3>1, <3>2 DEF SocketParse
    <3>4. SocketV6Parse(text) = WithPortOf(text, ip)
      BY <3>1, <3>2 DEF SocketV6Parse
    <3>. QED BY <1>7, <1>8, <2>2, <3>3, <3>4
  <2>. QED BY <1>1, <2>1, <2>2
<1>9. form = "SocketOfFamily" /\ ip.family = "V4" => SocketV4Parse(text) = ParseOk(SocketAddress(ip, port))
  <2>. HAVE form = "SocketOfFamily" /\ ip.family = "V4"
  <2>1. Host(text) = h /\ Splits(text)
    BY <1>2
  <2>2. Ipv4Parse(h).ok /\ V4(Ipv4Parse(h).value) = ip
    BY <1>4, <1>5
  <2>3. SocketV4Parse(text) = WithPortOf(text, ip)
    BY <2>1, <2>2 DEF SocketV4Parse
  <2>. QED BY <1>7, <2>3
<1>10. form = "Network" => NetworkParse(text) = ParseOk([host |-> h, port |-> port])
  BY <1>2 DEF NetworkParse
<1>11. InMemory(ip, port)
  BY <1>1, MemoryOf
<1>12. ip.family = "V4" => fromIpv4Mapped(ip.octets) = octets
  <2>. HAVE ip.family = "V4"
  <2>1. ip.octets = toIpv4Mapped /\ IsIpv4Mapped
    BY <1>1, IpText
  <2>. QED BY <1>1, <2>1, MappedBack
<1>. QED BY <1>6, <1>8, <1>9, <1>10, <1>11, <1>12 DEF ReadsBack, InMemory, h

LEMMA AddressIsLiteral == ASSUME TextInv PROVE LiteralHosts
<1>. SUFFICES ASSUME form # "none", edits = 0 PROVE LiteralHosts
  BY DEF LiteralHosts
<1>. DEFINE h == IpToString(ip)
            b == <<"[">> \o h \o <<"]">>
            made == [host |-> h, port |-> port]
            same == SocketAddress(ip, port)
            IsSame(na) == /\ Resolve(na) = same
                          /\ (IF ip.family = "V4" THEN ResolveV4(na) ELSE ResolveV6(na)) = same
<1>1. /\ pc = "written" /\ WriteInv /\ ip \in Candidates /\ port \in Ports /\ form \in Forms
      /\ text = Written(form, ip, port) /\ WrittenAs(form, ip, port)
      /\ ip.family \in {"V4", "V6"}
  BY Unedited
<1>2. /\ form = "Ip" => text = h
      /\ form # "Ip" => Splits(text) /\ IsPort(Port(text)) /\ NumberIn(Port(text)) = port
      /\ form \in {"SocketOfFamily", "Network"} => Host(text) = h /\ ~Bracketed(h)
      /\ form = "Socket" /\ ip.family = "V4" => Host(text) = h /\ ~Bracketed(h)
      /\ form = "Socket" /\ ip.family = "V6" => Host(text) = b /\ Bracketed(b) /\ Unbracketed(b) = h
  BY <1>1 DEF WrittenAs
<1>3. /\ Literal(h, TRUE) = ParseOk(ip)
      /\ ip.family = "V4" => Ipv4Parse(h) = ParseOk(ip.octets) /\ V4(ip.octets) = ip
      /\ ip.family = "V6" => Ipv6Parse(h) = ParseOk(ip.octets) /\ V6(ip.octets) = ip
  BY <1>1, LiteralOf
<1>. HIDE DEF h
<1>4. \A a : ParseOk(a).ok /\ ParseOk(a).value = a
  BY DEF ParseOk
<1>5. IsSame(made)
  <2>1. made.host = h /\ made.port = port
    OBVIOUS
  <2>. HIDE DEF made
  <2>2. Resolve(made) = same
    BY <1>3, <1>4, <2>1 DEF Resolve
  <2>3. ip.family = "V4" => ResolveV4(made) = same
    BY <1>3, <1>4, <2>1 DEF ResolveV4
  <2>4. ip.family = "V6" => ResolveV6(made) = same
    BY <1>3, <1>4, <2>1 DEF ResolveV6
  <2>. QED BY <1>1, <2>2, <2>3, <2>4
<1>. HIDE DEF b, same, IsSame
<1>6. form # "Ip" => NetworkParse(text) = ParseOk([host |-> Host(text), port |-> port])
  BY <1>2 DEF NetworkParse
<1>7. form # "Ip" => NetworkParse(text).ok
  BY <1>4, <1>6
<1>8. form # "Ip" /\ ~Bracketed(Host(text)) => IsSame(NetworkParse(text).value)
  <2>. HAVE form # "Ip" /\ ~Bracketed(Host(text))
  <2>1. Host(text) = h
    BY <1>1, <1>2 DEF Forms
  <2>2. NetworkParse(text).value = made
    BY <1>4, <1>6, <2>1
  <2>. QED BY <1>5, <2>2
<1>. QED BY <1>5, <1>7, <1>8 DEF LiteralHosts, IsSame, made, same, h
-----------------------------------------------------------------------------
(* The parsers of socket addresses. *)

\* The parts of a text that splits are texts.
LEMMA HostAndPort ==
  ASSUME NEW t \in Seq(Tokens), Splits(t)
  PROVE  LET c == LastColon(t) IN
         /\ c \in 2..Len(t) - 1 /\ t[c] = ":" /\ \A p \in 1..Len(t) : t[p] = ":" => p <= c
         /\ Host(t) \in Seq(Tokens) /\ Len(Host(t)) = c - 1
         /\ \A p \in 1..c - 1 : Host(t)[p] = t[p]
         /\ Port(t) \in Seq(Tokens) /\ Len(Port(t)) = Len(t) - c
         /\ \A p \in 1..Len(t) - c : Port(t)[p] = t[c + p]
<1>. DEFINE c == LastColon(t)
<1>1. Len(t) \in Nat
  BY TextTypes
<1>2. c \notin {0, 1, Len(t)}
  BY DEF Splits
<1>3. c \in 1..Len(t) /\ t[c] = ":" /\ \A p \in 1..Len(t) : t[p] = ":" => p <= c
  BY <1>2, LastColonOf
<1>. HIDE DEF c
<1>4. c \in 2..Len(t) - 1
  BY <1>1, <1>2, <1>3
<1>. DEFINE m == c - 1
<1>5. m \in 0..Len(t) /\ c \in 0..Len(t)
  BY <1>1, <1>4
<1>. HIDE DEF m
<1>6. /\ SubSeq(t, 1, m) \in Seq(Tokens) /\ Len(SubSeq(t, 1, m)) = m
      /\ \A p \in 1..m : SubSeq(t, 1, m)[p] = t[p]
  BY <1>5, PartBefore
<1>7. LET r == SubSeq(t, c + 1, Len(t)) IN
      r \in Seq(Tokens) /\ Len(r) = Len(t) - c /\ \A p \in 1..Len(t) - c : r[p] = t[c + p]
  BY <1>5, PartBehind
<1>8. Host(t) = SubSeq(t, 1, m) /\ Port(t) = SubSeq(t, c + 1, Len(t))
  BY DEF Host, Port, m, c
<1>9. Host(t) \in Seq(Tokens) /\ Len(Host(t)) = m /\ \A p \in 1..m : Host(t)[p] = t[p]
  BY <1>6, <1>8
<1>10. Port(t) \in Seq(Tokens) /\ Len(Port(t)) = Len(t) - c /\ \A p \in 1..Len(t) - c : Port(t)[p] = t[c + p]
  BY <1>7, <1>8
<1>. QED BY <1>3, <1>4, <1>9, <1>10 DEF m, c

\* An IPv4 address begins with a digit: it is not in brackets.
LEMMA NotBracketed ==
  ASSUME NEW h \in Seq(Tokens), Ipv4Parse(h).ok
  PROVE  ~Bracketed(h)
<1>1. Len(h) \in Nat \ {0} /\ h[1] \in DOMAIN Dec
  BY Ipv4Head
<1>2. h # <<>> /\ Head(h) = h[1]
  BY <1>1
<1>3. "[" \notin Numerals
  <2>1. Numerals \cap Marks = {}
    BY NumeralAssumption, Zenon
  <2>. QED BY <2>1 DEF Marks
<1>. QED BY <1>1, <1>2, <1>3 DEF Bracketed, Numerals

\* What each of the three parsers accepts, and as what.
LEMMA SocketV4Accepts ==
  ASSUME NEW t
  PROVE  LET r == SocketV4Parse(t) IN
         /\ r.ok <=> Splits(t) /\ Ipv4Parse(Host(t)).ok /\ IsPort(Port(t))
         /\ r.ok => r = ParseOk(SocketAddress(V4(Ipv4Parse(Host(t)).value), NumberIn(Port(t))))
BY DEF SocketV4Parse, WithPortOf, ParseOk, ParseErr

LEMMA SocketV6Accepts ==
  ASSUME NEW t
  PROVE  LET r == SocketV6Parse(t)
             u == Unbracketed(Host(t))
         IN /\ r.ok <=> Splits(t) /\ Bracketed(Host(t)) /\ Ipv6Parse(u).ok /\ IsPort(Port(t))
            /\ r.ok => r = ParseOk(SocketAddress(V6(Ipv6Parse(u).value), NumberIn(Port(t))))
BY DEF SocketV6Parse, WithPortOf, ParseOk, ParseErr

LEMMA SocketAccepts ==
  ASSUME NEW t
  PROVE  LET r == SocketParse(t)
             u == Unbracketed(Host(t))
         IN /\ r.ok <=> /\ Splits(t) /\ IsPort(Port(t))
                        /\ IF Bracketed(Host(t)) THEN Ipv6Parse(u).ok ELSE Ipv4Parse(Host(t)).ok
            /\ r.ok /\ Bracketed(Host(t)) =>
                 r = ParseOk(SocketAddress(V6(Ipv6Parse(u).value), NumberIn(Port(t))))
            /\ r.ok /\ ~Bracketed(Host(t)) =>
                 r = ParseOk(SocketAddress(V4(Ipv4Parse(Host(t)).value), NumberIn(Port(t))))
<1>1. CASE Bracketed(Host(t))
  BY <1>1 DEF SocketParse, WithPortOf, ParseOk, ParseErr
<1>2. CASE ~Bracketed(Host(t))
  BY <1>2 DEF SocketParse, WithPortOf, ParseOk, ParseErr
<1>. QED BY <1>1, <1>2

LEMMA AllAgree == ASSUME TextInv PROVE ParsersAgree
<1>. SUFFICES ASSUME form # "none" PROVE ParsersAgree
  BY DEF ParsersAgree
<1>. DEFINE h == Host(text)
            u == Unbracketed(h)
            v4 == SocketV4Parse(text)
            v6 == SocketV6Parse(text)
            both == SocketParse(text)
<1>1. Splits(text) /\ Ipv4Parse(h).ok => ~Bracketed(h)
  <2>. HAVE Splits(text) /\ Ipv4Parse(h).ok
  <2>1. text \in Seq(Tokens)
    BY DEF TextInv
  <2>2. h \in Seq(Tokens)
    BY <2>1, HostAndPort
  <2>. HIDE DEF h
  <2>. QED BY <2>2, NotBracketed
<1>2. /\ v4.ok <=> Splits(text) /\ Ipv4Parse(h).ok /\ IsPort(Port(text))
      /\ v4.ok => v4 = ParseOk(SocketAddress(V4(Ipv4Parse(h).value), NumberIn(Port(text))))
  BY SocketV4Accepts
<1>3. /\ v6.ok <=> Splits(text) /\ Bracketed(h) /\ Ipv6Parse(u).ok /\ IsPort(Port(text))
      /\ v6.ok => v6 = ParseOk(SocketAddress(V6(Ipv6Parse(u).value), NumberIn(Port(text))))
  BY SocketV6Accepts
<1>4. /\ both.ok <=> /\ Splits(text) /\ IsPort(Port(text))
                     /\ IF Bracketed(h) THEN Ipv6Parse(u).ok ELSE Ipv4Parse(h).ok
      /\ both.ok /\ Bracketed(h) =>
           both = ParseOk(SocketAddress(V6(Ipv6Parse(u).value), NumberIn(Port(text))))
      /\ both.ok /\ ~Bracketed(h) =>
           both = ParseOk(SocketAddress(V4(Ipv4Parse(h).value), NumberIn(Port(text))))
  BY SocketAccepts
<1>. HIDE DEF h, u, v4, v6, both
<1>5. ~(v4.ok /\ v6.ok)
  BY <1>1, <1>2, <1>3
<1>6. v4.ok => both = v4
  BY <1>1, <1>2, <1>4
<1>7. v6.ok => both = v6
  BY <1>3, <1>4
<1>8. both.ok => v4.ok \/ v6.ok
  BY <1>2, <1>3, <1>4
<1>9. both.ok => NetworkParse(text).ok /\ NetworkParse(text).value.port = both.value.port
  <2>. HAVE both.ok
  <2>1. NetworkParse(text) = ParseOk([host |-> Host(text), port |-> NumberIn(Port(text))])
    BY <1>4 DEF NetworkParse
  <2>2. NetworkParse(text).ok /\ NetworkParse(text).value.port = NumberIn(Port(text))
    BY <2>1 DEF ParseOk
  <2>3. \E a : both = ParseOk(SocketAddress(a, NumberIn(Port(text))))
    BY <1>4
  <2>4. both.value.port = NumberIn(Port(text))
    BY <2>3 DEF ParseOk, SocketAddress
  <2>. QED BY <2>2, <2>4
<1>. QED BY <1>5, <1>6, <1>7, <1>8, <1>9 DEF ParsersAgree, v4, v6, both
-----------------------------------------------------------------------------
(* A text with one token less. *)

LEMMA RemovedIs ==
  ASSUME NEW t \in Seq(Tokens), NEW p \in 1..Len(t)
  PROVE  LET r == RemoveAt(t, p) IN
         /\ r \in Seq(Tokens) /\ Len(r) = Len(t) - 1 /\ Len(t) \in Nat
         /\ \A q \in 1..p - 1 : r[q] = t[q]
         /\ \A q \in p..Len(t) - 1 : r[q] = t[q + 1]
<1>. DEFINE m == p - 1
            a == SubSeq(t, 1, m)
            b == SubSeq(t, p + 1, Len(t))
            r == a \o b
<1>1. Len(t) \in Nat /\ m \in 0..Len(t) /\ p \in 0..Len(t)
  BY TextTypes
<1>. HIDE DEF m
<1>2. a \in Seq(Tokens) /\ Len(a) = m /\ \A q \in 1..m : a[q] = t[q]
  BY <1>1, PartBefore
<1>3. b \in Seq(Tokens) /\ Len(b) = Len(t) - p /\ \A q \in 1..Len(t) - p : b[q] = t[p + q]
  BY <1>1, PartBehind
<1>. HIDE DEF a, b
<1>4. /\ r \in Seq(Tokens) /\ Len(r) = Len(a) + Len(b)
      /\ \A q \in 1..Len(a) : r[q] = a[q]
      /\ \A q \in 1..Len(b) : r[Len(a) + q] = b[q]
  <2>1. a \in Seq(Tokens) /\ b \in Seq(Tokens)
    BY <1>2, <1>3
  <2>. QED BY <2>1, Joined
<1>. HIDE DEF r
<1>5. Len(r) = Len(t) - 1 /\ Len(a) = p - 1
  BY <1>1, <1>2, <1>3, <1>4 DEF m
<1>6. \A q \in 1..p - 1 : r[q] = t[q]
  BY <1>2, <1>4, <1>5 DEF m
<1>7. \A q \in p..Len(t) - 1 : r[q] = t[q + 1]
  <2>. SUFFICES ASSUME NEW q \in p..Len(t) - 1 PROVE r[q] = t[q + 1]
    OBVIOUS
  <2>. DEFINE x == q - (p - 1)
  <2>1. x \in 1..Len(t) - p /\ (p - 1) + x = q /\ p + x = q + 1
    BY <1>1
  <2>. HIDE DEF x
  <2>2. b[x] = t[p + x] /\ r[Len(a) + x] = b[x]
    BY <1>3, <1>4, <2>1
  <2>. QED BY <1>5, <2>1, <2>2
<1>8. RemoveAt(t, p) = r
  BY DEF RemoveAt, r, a, b, m
<1>. QED BY <1>1, <1>4, <1>5, <1>6, <1>7, <1>8

-----------------------------------------------------------------------------
(* No dot of an IPv4 address is idle. *)

\* The tokens of an IPv4 text behind the number of their field.
LeftBehind(t) == {p \in DOMAIN t \ {1} : t[p] # "." /\ t[p-1] # "."}

\* What is neither a numeral nor left behind the number of its field is a dot.
LEMMA DotOrBehind ==
  ASSUME NEW t \in Seq(Tokens), Ipv4Parse(t).ok, NEW p \in 1..Len(t),
         t[p] \notin Numerals, p \notin LeftBehind(t)
  PROVE  t[p] = "."
<1>. SUFFICES ASSUME t[p] # "." PROVE FALSE
  OBVIOUS
<1>1. Len(Fields(t, ".")) = 4 /\ \A k \in 1..4 : StartsWithNumber(Fields(t, ".")[k], 255)
  BY Ipv4Accepts
<1>2. PICK n \in Nat \ {0} : \E e : Cut(t, ".", n, e)
  BY CutExists
<1>3. PICK e : Cut(t, ".", n, e)
  BY <1>2
<1>4. PICK k \in 1..n : e[k] < p /\ p < e[k + 1]
  BY <1>3, MarkOrField
<1>5. StartsWithNumber(Fields(t, ".")[k], 255)
  <2>1. Len(Fields(t, ".")) = n
    BY <1>3, FieldCount
  <2>. QED BY <1>1, <2>1
<1>. DEFINE f == Fields(t, ".")[k]
            l == e[k + 1] - e[k] - 1
<1>6. /\ f \in Seq(Tokens) /\ e[k] \in 0..Len(t) /\ e[k + 1] \in 1..Len(t) + 1
      /\ \A q \in 1..l : f[q] = t[e[k] + q] /\ t[e[k] + q] # "."
  BY <1>3, FieldAt
<1>7. f[1] \in DOMAIN Dec
  <2>. HIDE DEF f
  <2>. QED BY <1>5, <1>6, FirstToken DEF f
<1>8. p # e[k] + 1
  <2>. SUFFICES ASSUME p = e[k] + 1 PROVE FALSE
    OBVIOUS
  <2>1. 1 \in 1..l
    BY <1>4, <1>6
  <2>. QED BY <1>6, <1>7, <2>1 DEF Numerals
<1>. DEFINE q == p - 1 - e[k]
<1>9. q \in 1..l /\ e[k] + q = p - 1 /\ p # 1
  <2>1. Len(t) \in Nat
    BY TextTypes
  <2>2. e[k] \in Int /\ e[k + 1] \in Int /\ p \in Int /\ e[k] >= 0
    BY <1>6, <2>1
  <2>. HIDE DEF f
  <2>. QED BY <1>4, <1>8, <2>2
<1>. HIDE DEF q
<1>10. t[p - 1] # "."
  BY <1>6, <1>9
<1>. QED BY <1>9, <1>10, TextTypes DEF LeftBehind

-----------------------------------------------------------------------------
(* Between the marks of a list there are numerals. *)

\* A text whose marks are all between numerals.
Solid(t) ==
  /\ Len(t) > 0
  /\ \A p \in 1..Len(t) : t[p] \notin Numerals =>
       p \in 2..Len(t) - 1 /\ t[p - 1] \in Numerals /\ t[p + 1] \in Numerals

LEMMA SolidEnds ==
  ASSUME NEW t \in Seq(Tokens), Solid(t)
  PROVE  t[1] \in Numerals /\ t[Len(t)] \in Numerals
<1>1. Len(t) \in Nat /\ Len(t) > 0
  BY TextTypes DEF Solid
<1>2. 1 \in 1..Len(t) /\ Len(t) \in 1..Len(t) /\ ~(1 \in 2..Len(t) - 1) /\ ~(Len(t) \in 2..Len(t) - 1)
  BY <1>1
<1>. QED BY <1>2 DEF Solid

LEMMA SolidOne ==
  ASSUME NEW f \in Seq(Tokens), Len(f) = 1, f[1] \in Numerals
  PROVE  Solid(f)
<1>1. \A p \in 1..Len(f) : p = 1
  OBVIOUS
<1>. QED BY <1>1 DEF Solid

\* Solid fields make a solid text.
LEMMA SolidFields ==
  ASSUME NEW t \in Seq(Tokens), NEW mark,
         \A k \in 1..Len(Fields(t, mark)) : Solid(Fields(t, mark)[k])
  PROVE  Solid(t)
<1>1. PICK n \in Nat \ {0} : \E e : Cut(t, mark, n, e)
  BY CutExists
<1>2. PICK e : Cut(t, mark, n, e)
  BY <1>1
<1>3. /\ Len(t) \in Nat /\ n \in Nat \ {0} /\ e[1] = 0 /\ e[n + 1] = Len(t) + 1
      /\ \A q \in 1..Len(t) : t[q] = mark <=> \E j \in 2..n : e[j] = q
  BY <1>1, <1>2, TextTypes DEF Cut
<1>. DEFINE F(k) == Fields(t, mark)[k]
            L(k) == e[k + 1] - e[k] - 1
<1>4. \A k \in 1..n : /\ F(k) \in Seq(Tokens) /\ Solid(F(k)) /\ Len(F(k)) = L(k)
                      /\ e[k] \in 0..Len(t) /\ e[k + 1] \in 1..Len(t) + 1
                      /\ \A q \in 1..L(k) : F(k)[q] = t[e[k] + q]
  <2>. SUFFICES ASSUME NEW k \in 1..n
                PROVE  /\ F(k) \in Seq(Tokens) /\ Solid(F(k)) /\ Len(F(k)) = L(k)
                       /\ e[k] \in 0..Len(t) /\ e[k + 1] \in 1..Len(t) + 1
                       /\ \A q \in 1..L(k) : F(k)[q] = t[e[k] + q]
    OBVIOUS
  <2>1. Solid(Fields(t, mark)[k])
    <3>1. Len(Fields(t, mark)) = n
      BY <1>2, FieldCount
    <3>. QED BY <3>1
  <2>. QED BY <1>2, <2>1, FieldAt
<1>. HIDE DEF F
\* the edges of a field
<1>5. \A k \in 1..n : L(k) \in Nat \ {0} /\ t[e[k] + 1] \in Numerals /\ t[e[k + 1] - 1] \in Numerals
  <2>. SUFFICES ASSUME NEW k \in 1..n
                PROVE  L(k) \in Nat \ {0} /\ t[e[k] + 1] \in Numerals /\ t[e[k + 1] - 1] \in Numerals
    OBVIOUS
  <2>1. /\ F(k) \in Seq(Tokens) /\ Solid(F(k)) /\ Len(F(k)) = L(k)
        /\ e[k] \in 0..Len(t) /\ e[k + 1] \in 1..Len(t) + 1
        /\ \A q \in 1..L(k) : F(k)[q] = t[e[k] + q]
    BY <1>4
  <2>2. F(k)[1] \in Numerals /\ F(k)[Len(F(k))] \in Numerals
    BY <2>1, SolidEnds
  <2>3. L(k) > 0 /\ L(k) \in Int
    BY <1>3, <2>1 DEF Solid
  <2>4. 1 \in 1..L(k) /\ L(k) \in 1..L(k) /\ e[k] + L(k) = e[k + 1] - 1
    BY <1>3, <2>1, <2>3
  <2>5. F(k)[1] = t[e[k] + 1] /\ F(k)[L(k)] = t[e[k] + L(k)]
    BY <2>1, <2>4
  <2>6. F(k)[L(k)] \in Numerals
    BY <2>1, <2>2
  <2>7. L(k) \in Nat \ {0}
    BY <2>3
  <2>. QED BY <2>2, <2>4, <2>5, <2>6, <2>7
<1>6. Len(t) > 0
  <2>1. 1 \in 1..n
    BY <1>3
  <2>2. L(1) \in Nat \ {0} /\ e[1] \in 0..Len(t) /\ e[1 + 1] \in 1..Len(t) + 1
    BY <1>4, <1>5, <2>1
  <2>. QED BY <1>3, <2>2
<1>7. ASSUME NEW p \in 1..Len(t), t[p] \notin Numerals
      PROVE  p \in 2..Len(t) - 1 /\ t[p - 1] \in Numerals /\ t[p + 1] \in Numerals
  <2>1. CASE t[p] = mark
    <3>1. PICK j \in 2..n : e[j] = p
      BY <1>3, <2>1
    <3>. DEFINE k == j - 1
    <3>2. j \in 1..n /\ k \in 1..n /\ k + 1 = j
      BY <1>3
    <3>. HIDE DEF k
    <3>3. t[p + 1] \in Numerals /\ t[e[k + 1] - 1] \in Numerals
      BY <1>5, <3>1, <3>2
    <3>4. t[p - 1] \in Numerals
      BY <3>1, <3>2, <3>3
    <3>5. /\ L(j) \in Nat \ {0} /\ L(k) \in Nat \ {0} /\ e[j + 1] \in 1..Len(t) + 1
          /\ e[k] \in 0..Len(t) /\ e[k + 1] = p /\ e[j] = p
      BY <1>4, <1>5, <3>1, <3>2
    <3>. DEFINE x == e[k]
                y == e[j + 1]
                z == Len(t)
    <3>6. /\ p - x - 1 \in Nat \ {0} /\ y - p - 1 \in Nat \ {0}
          /\ x \in 0..z /\ y \in 1..z + 1 /\ z \in Nat /\ p \in 1..z
      BY <1>3, <3>5
    <3>. HIDE DEF x, y, z
    <3>7. p \in 2..z - 1
      BY <3>6
    <3>. QED BY <3>3, <3>4, <3>7 DEF z
  <2>2. CASE t[p] # mark
    <3>1. PICK k \in 1..n : e[k] < p /\ p < e[k + 1]
      BY <1>2, <2>2, MarkOrField
    <3>2. /\ F(k) \in Seq(Tokens) /\ Solid(F(k)) /\ Len(F(k)) = L(k)
          /\ e[k] \in 0..Len(t) /\ e[k + 1] \in 1..Len(t) + 1
          /\ \A q \in 1..L(k) : F(k)[q] = t[e[k] + q]
      BY <1>4
    <3>. DEFINE q == p - e[k]
                x == e[k]
                y == e[k + 1]
    <3>3. x \in Int /\ y \in Int /\ x >= 0 /\ y <= Len(t) + 1 /\ x < p /\ p < y /\ L(k) = y - x - 1
      BY <1>3, <3>1, <3>2
    <3>. HIDE DEF x, y
    <3>4. q = p - x
      BY DEF x
    <3>5. q \in 1..L(k) /\ x + q = p
      BY <3>3, <3>4
    <3>6. F(k)[q] \notin Numerals
      BY <1>7, <3>2, <3>5 DEF x
    <3>7. q \in 2..L(k) - 1 /\ F(k)[q - 1] \in Numerals /\ F(k)[q + 1] \in Numerals
      BY <3>2, <3>5, <3>6 DEF Solid
    <3>8. /\ q - 1 \in 1..L(k) /\ q + 1 \in 1..L(k) /\ x + (q - 1) = p - 1 /\ x + (q + 1) = p + 1
          /\ p \in 2..Len(t) - 1
      <4>. DEFINE l == L(k)
      <4>1. l \in Int /\ l = y - x - 1 /\ q \in 2..l - 1 /\ q \in Int /\ p = x + q
        BY <3>3, <3>4, <3>7
      <4>. HIDE DEF l, q
      <4>2. q - 1 \in 1..l /\ q + 1 \in 1..l
        BY <4>1
      <4>3. x + (q - 1) = p - 1 /\ x + (q + 1) = p + 1
        BY <3>3, <4>1
      <4>4. p \in 2..Len(t) - 1
        BY <1>3, <3>3, <4>1
      <4>. QED BY <4>2, <4>3, <4>4 DEF l
    <3>9. F(k)[q - 1] = t[x + (q - 1)] /\ F(k)[q + 1] = t[x + (q + 1)]
      BY <3>2, <3>8 DEF x
    <3>. QED BY <3>7, <3>8, <3>9
  <2>. QED BY <2>1, <2>2
<1>. QED BY <1>6, <1>7 DEF Solid

LEMMA SolidQuad ==
  ASSUME NEW f \in Seq(Tokens), IsQuad(f)
  PROVE  Solid(f)
<1>. DEFINE o(k) == Fields(f, ".")[k]
<1>1. Len(Fields(f, ".")) = 4 /\ \A k \in 1..4 : StartsWithNumber(o(k), 255) /\ IsAllNumber(o(k))
  BY DEF IsQuad
<1>2. \A k \in 1..4 : o(k) \in Seq(Tokens)
  BY <1>1, FieldsAre
<1>. HIDE DEF o
<1>3. \A k \in 1..4 : Solid(o(k))
  <2>. SUFFICES ASSUME NEW k \in 1..4 PROVE Solid(o(k))
    OBVIOUS
  <2>1. o(k) \in Seq(Tokens) /\ StartsWithNumber(o(k), 255) /\ Len(o(k)) = 1
    BY <1>1, <1>2 DEF IsAllNumber
  <2>2. o(k)[1] \in DOMAIN Dec
    BY <2>1, FirstToken
  <2>. QED BY <2>1, <2>2, SolidOne DEF Numerals
<1>4. \A k \in 1..Len(Fields(f, ".")) : Solid(Fields(f, ".")[k])
  BY <1>1, <1>3 DEF o
<1>. QED BY <1>4, SolidFields

LEMMA SolidList ==
  ASSUME NEW t \in Seq(Tokens), NEW last, IsList(t, last), t # <<>>
  PROVE  Solid(t)
<1>. DEFINE f(k) == Fields(t, ":")[k]
<1>1. DOMAIN Fields(t, ":") = 1..Len(Fields(t, ":"))
      /\ \A k \in 1..Len(Fields(t, ":")) : f(k) \in Seq(Tokens)
  BY FieldsAre
<1>2. \A k \in 1..Len(Fields(t, ":")) : IsSegment(f(k)) \/ IsQuad(f(k))
  BY <1>1 DEF IsList
<1>. HIDE DEF f
<1>3. \A k \in 1..Len(Fields(t, ":")) : Solid(f(k))
  <2>. SUFFICES ASSUME NEW k \in 1..Len(Fields(t, ":")) PROVE Solid(f(k))
    OBVIOUS
  <2>1. f(k) \in Seq(Tokens)
    BY <1>1
  <2>2. CASE IsSegment(f(k))
    BY <2>1, <2>2, SolidOne DEF IsSegment, Numerals
  <2>3. CASE IsQuad(f(k))
    BY <2>1, <2>3, SolidQuad
  <2>. QED BY <1>2, <2>2, <2>3
<1>. QED BY <1>3, SolidFields DEF f

\* What stood between two numerals leaves them side by side.
LEMMA SideBySide ==
  ASSUME NEW t \in Seq(Tokens), NEW p \in 2..Len(t) - 1,
         t[p - 1] \in Numerals, t[p + 1] \in Numerals
  PROVE  ~IsText(RemoveAt(t, p))
<1>. DEFINE r == RemoveAt(t, p)
<1>1. Len(t) \in Nat /\ p \in 1..Len(t)
  BY TextTypes
<1>2. /\ Len(r) = Len(t) - 1
      /\ \A q \in 1..p - 1 : r[q] = t[q]
      /\ \A q \in p..Len(t) - 1 : r[q] = t[q + 1]
  BY <1>1, RemovedIs
<1>. HIDE DEF r
<1>3. r[p - 1] = t[p - 1] /\ r[p] = t[p + 1]
  <2>1. p - 1 \in 1..p - 1 /\ p \in p..Len(t) - 1
    BY <1>1
  <2>. QED BY <1>2, <2>1
<1>. DEFINE m == p - 1
<1>4. m \in 1..Len(r) - 1 /\ m + 1 = p
  BY <1>1, <1>2
<1>5. r[m] \in Numerals /\ r[m + 1] \in Numerals
  BY <1>3, <1>4
<1>. HIDE DEF m
<1>6. ~IsText(r)
  BY <1>4, <1>5 DEF IsText
<1>. QED BY <1>6 DEF r
-----------------------------------------------------------------------------
(* Two lists with a colon between them. *)

\* A text that is put together at a mark.
Meets(t, a, mark, b) ==
  /\ Len(t) = Len(a) + 1 + Len(b)
  /\ t[Len(a) + 1] = mark
  /\ \A q \in 1..Len(a) : t[q] = a[q]
  /\ \A q \in 1..Len(b) : t[Len(a) + 1 + q] = b[q]

\* Its fields.
LEMMA FieldsJoined ==
  ASSUME NEW a \in Seq(Tokens), NEW b \in Seq(Tokens), NEW t \in Seq(Tokens), NEW mark,
         Meets(t, a, mark, b),
         NEW n, NEW e, Cut(a, mark, n, e), NEW m, NEW f, Cut(b, mark, m, f)
  PROVE  /\ Len(Fields(t, mark)) = n + m
         /\ Fields(t, mark)[n + m] = Fields(b, mark)[m]
<1>. DEFINE z == Len(a) + 1
            s == n + m
            g == [k \in 1..s + 1 |-> IF k <= n THEN e[k] ELSE z + f[k - n]]
<1>1. /\ n \in Nat \ {0} /\ m \in Nat \ {0} /\ Len(a) \in Nat /\ Len(b) \in Nat /\ Len(t) \in Nat
      /\ e[1] = 0 /\ e[n + 1] = z /\ f[1] = 0 /\ f[m + 1] = Len(b) + 1
      /\ \A k \in 1..n + 1 : e[k] \in 0..z
      /\ \A k \in 1..m + 1 : f[k] \in 0..Len(b) + 1
      /\ \A q \in 1..Len(a) : a[q] = mark <=> \E k \in 2..n : e[k] = q
      /\ \A q \in 1..Len(b) : b[q] = mark <=> \E k \in 2..m : f[k] = q
  BY TextTypes DEF Cut
<1>2. /\ \A x, j \in 1..n + 1 : x < j => e[x] < e[j]
      /\ \A x, j \in 1..m + 1 : x < j => f[x] < f[j]
  BY DEF Cut, Rising
<1>3. /\ n \in Nat \ {0} /\ m \in Nat \ {0} /\ z \in Nat \ {0} /\ s \in Nat \ {0}
      /\ Len(b) \in Nat /\ Len(t) \in Nat
      /\ Len(t) <= z + Len(b) /\ z + Len(b) <= Len(t) /\ s <= n + m /\ n + m <= s
  BY <1>1 DEF Meets
<1>3a. e[1] = 0 /\ e[n + 1] = z /\ f[1] = 0 /\ f[m + 1] = Len(b) + 1
  BY <1>1
<1>4. \A q \in 1..Len(b) : t[z + q] = b[q]
  BY DEF Meets
<1>5. t[z] = mark /\ \A q \in 1..z - 1 : t[q] = a[q]
  BY <1>1 DEF Meets
<1>. HIDE DEF z, s
<1>6. \A k \in 1..n : g[k] = e[k] /\ k \in 1..n + 1 /\ k \in 1..s + 1 /\ e[k] \in 0..z /\ e[k] < z
  <2>. SUFFICES ASSUME NEW k \in 1..n
                PROVE  g[k] = e[k] /\ k \in 1..n + 1 /\ k \in 1..s + 1 /\ e[k] \in 0..z /\ e[k] < z
    OBVIOUS
  <2>1. k \in 1..n + 1 /\ n + 1 \in 1..n + 1 /\ k < n + 1 /\ k \in 1..s + 1 /\ k <= n
    BY <1>3
  <2>2. e[k] < e[n + 1]
    BY <1>2, <2>1
  <2>. QED BY <1>1, <2>1, <2>2
<1>7. \A k \in 1..m + 1 : /\ g[n + k] = z + f[k] /\ n + k \in 1..s + 1
                          /\ f[k] \in 0..Len(b) + 1
  <2>. SUFFICES ASSUME NEW k \in 1..m + 1
                PROVE  g[n + k] = z + f[k] /\ n + k \in 1..s + 1 /\ f[k] \in 0..Len(b) + 1
    OBVIOUS
  <2>1. n + k \in 1..s + 1 /\ ~(n + k <= n) /\ (n + k) - n = k
    BY <1>3
  <2>. QED BY <1>1, <2>1
<1>8. \A k \in 1..s + 1 : k \in 1..n \/ \E j \in 1..m + 1 : k = n + j
  <2>. SUFFICES ASSUME NEW k \in 1..s + 1, ~(k \in 1..n) PROVE \E j \in 1..m + 1 : k = n + j
    OBVIOUS
  <2>. DEFINE j == k - n
  <2>1. j \in 1..m + 1 /\ k = n + j
    BY <1>3
  <2>. HIDE DEF j
  <2>. QED BY <2>1
<1>9. g \in [1..s + 1 -> 0..Len(t) + 1]
  <2>. SUFFICES ASSUME NEW k \in 1..s + 1 PROVE g[k] \in 0..Len(t) + 1
    OBVIOUS
  <2>. HIDE DEF g
  <2>1. CASE k \in 1..n
    <3>1. g[k] \in 0..z
      BY <1>6, <2>1
    <3>. QED BY <1>3, <3>1
  <2>2. ASSUME NEW j \in 1..m + 1, k = n + j PROVE g[k] \in 0..Len(t) + 1
    <3>1. g[k] = z + f[j] /\ f[j] \in 0..Len(b) + 1
      BY <1>7, <2>2
    <3>. QED BY <1>3, <3>1
  <2>. QED BY <1>8, <2>1, <2>2
<1>. HIDE DEF g
<1>10. Rising(g, s + 1)
  <2>. SUFFICES ASSUME NEW x \in 1..s + 1, NEW y \in 1..s + 1, x < y PROVE g[x] < g[y]
    BY DEF Rising
  <2>1. CASE x \in 1..n /\ y \in 1..n
    <3>1. e[x] < e[y]
      BY <1>2, <1>6, <2>1
    <3>. QED BY <1>6, <2>1, <3>1
  <2>2. ASSUME x \in 1..n, NEW j \in 1..m + 1, y = n + j PROVE g[x] < g[y]
    <3>1. g[x] \in 0..z /\ g[x] < z
      BY <1>6, <2>2
    <3>2. g[y] = z + f[j] /\ f[j] \in 0..Len(b) + 1
      BY <1>7, <2>2
    <3>. QED BY <1>3, <3>1, <3>2
  <2>3. ASSUME NEW k \in 1..m + 1, x = n + k, NEW j \in 1..m + 1, y = n + j PROVE g[x] < g[y]
    <3>1. k < j
      BY <1>3, <2>3
    <3>2. f[k] < f[j]
      BY <1>2, <3>1
    <3>3. g[x] = z + f[k] /\ g[y] = z + f[j] /\ f[k] \in 0..Len(b) + 1 /\ f[j] \in 0..Len(b) + 1
      BY <1>7, <2>3
    <3>. QED BY <1>3, <3>2, <3>3
  <2>4. ASSUME NEW k \in 1..m + 1, x = n + k, y \in 1..n PROVE FALSE
    BY <1>3, <2>4
  <2>. QED BY <1>8, <2>1, <2>2, <2>3, <2>4
<1>11. g[1] = 0 /\ g[s + 1] = Len(t) + 1
  <2>1. 1 \in 1..n /\ m + 1 \in 1..m + 1 /\ n + (m + 1) = s + 1
    BY <1>3
  <2>2. g[1] = e[1] /\ g[n + (m + 1)] = z + f[m + 1]
    BY <1>6, <1>7, <2>1
  <2>3. g[1] = 0 /\ g[s + 1] = z + (Len(b) + 1)
    BY <1>3a, <2>1, <2>2
  <2>. QED BY <1>3, <2>3
<1>12. ASSUME NEW q \in 1..Len(t)
       PROVE  t[q] = mark <=> \E k \in 2..s : g[k] = q
  <2>1. \A k \in 2..s : \/ k \in 2..n
                        \/ k = n + 1
                        \/ \E j \in 2..m : k = n + j
    <3>. SUFFICES ASSUME NEW k \in 2..s, ~(k \in 2..n), k # n + 1 PROVE \E j \in 2..m : k = n + j
      OBVIOUS
    <3>. DEFINE j == k - n
    <3>1. j \in 2..m /\ k = n + j
      BY <1>3
    <3>. HIDE DEF j
    <3>. QED BY <3>1
  <2>2. g[n + 1] = z /\ n + 1 \in 2..s
    <3>1. 1 \in 1..m + 1
      BY <1>1
    <3>2. g[n + 1] = z + f[1]
      BY <1>7, <3>1
    <3>. QED BY <1>3, <1>3a, <3>2
  <2>3. \A k \in 2..n : g[k] = e[k] /\ e[k] \in 0..z /\ e[k] < z /\ k \in 2..s
    <3>1. \A k \in 2..n : k \in 1..n /\ k \in 2..s
      BY <1>3
    <3>. QED BY <1>6, <3>1
  <2>4. \A j \in 2..m : g[n + j] = z + f[j] /\ f[j] \in Int /\ f[j] > 0 /\ n + j \in 2..s
    <3>. SUFFICES ASSUME NEW j \in 2..m
                  PROVE  g[n + j] = z + f[j] /\ f[j] \in Int /\ f[j] > 0 /\ n + j \in 2..s
      OBVIOUS
    <3>1. j \in 1..m + 1 /\ 1 \in 1..m + 1 /\ 1 < j /\ n + j \in 2..s
      BY <1>3
    <3>2. f[1] < f[j]
      BY <1>2, <3>1
    <3>3. g[n + j] = z + f[j] /\ f[j] \in 0..Len(b) + 1
      BY <1>7, <3>1
    <3>. QED BY <1>1, <3>1, <3>2, <3>3
  <2>5. CASE q < z
    <3>1. q \in 1..Len(a) /\ t[q] = a[q]
      BY <1>1, <1>5, <2>5 DEF z
    <3>2. t[q] = mark <=> \E k \in 2..n : e[k] = q
      BY <1>1, <3>1
    <3>3. \A k \in 2..s : g[k] = q => k \in 2..n
      <4>. SUFFICES ASSUME NEW k \in 2..s, g[k] = q, ~(k \in 2..n) PROVE FALSE
        OBVIOUS
      <4>1. CASE k = n + 1
        BY <1>3, <2>2, <2>5, <4>1
      <4>2. ASSUME NEW j \in 2..m, k = n + j PROVE FALSE
        <5>1. q = z + f[j] /\ f[j] \in Int /\ f[j] > 0
          BY <2>4, <4>2
        <5>. QED BY <1>3, <2>5, <5>1
      <4>. QED BY <2>1, <4>1, <4>2
    <3>. QED BY <2>3, <3>2, <3>3
  <2>6. CASE q = z
    BY <1>5, <2>2, <2>6
  <2>7. CASE q > z
    <3>. DEFINE x == q - z
    <3>1. x \in 1..Len(b) /\ z + x = q
      BY <1>3, <2>7
    <3>. HIDE DEF x
    <3>2. t[q] = b[x]
      BY <1>4, <3>1
    <3>3. t[q] = mark <=> \E k \in 2..m : f[k] = x
      BY <1>1, <3>1, <3>2
    <3>4. ASSUME NEW j \in 2..m, f[j] = x PROVE \E k \in 2..s : g[k] = q
      BY <2>4, <3>1, <3>4
    <3>5. ASSUME NEW k \in 2..s, g[k] = q PROVE \E j \in 2..m : f[j] = x
      <4>1. ~(k \in 2..n) /\ k # n + 1
        <5>1. k \in 2..n => g[k] < z
          BY <2>3
        <5>2. k = n + 1 => g[k] = z
          BY <2>2
        <5>3. ~(q < z) /\ q # z
          BY <1>3, <2>7
        <5>. QED BY <3>5, <5>1, <5>2, <5>3
      <4>2. PICK j \in 2..m : k = n + j
        BY <2>1, <4>1
      <4>3. q = z + f[j] /\ f[j] \in Int
        BY <2>4, <3>5, <4>2
      <4>4. f[j] = x
        BY <1>3, <3>1, <4>3
      <4>. QED BY <4>4
    <3>. QED BY <3>3, <3>4, <3>5
  <2>. QED BY <1>3, <2>5, <2>6, <2>7
<1>13. Cut(t, mark, s, g)
  BY <1>3, <1>9, <1>10, <1>11, <1>12 DEF Cut
<1>14. Len(Fields(t, mark)) = s
  BY <1>13, FieldCount
<1>15. Fields(t, mark)[s] = Fields(b, mark)[m]
  <2>. DEFINE c == Fields(t, mark)[s]
              d == Fields(b, mark)[m]
  <2>1. \A k \in 1..s : LET x == Fields(t, mark)[k] IN
          /\ x \in Seq(Tokens) /\ Len(x) = g[k + 1] - g[k] - 1
          /\ \A q \in 1..g[k + 1] - g[k] - 1 : x[q] = t[g[k] + q]
    BY <1>13, FieldAt
  <2>2. \A k \in 1..m : LET x == Fields(b, mark)[k] IN
          /\ x \in Seq(Tokens) /\ Len(x) = f[k + 1] - f[k] - 1
          /\ \A q \in 1..f[k + 1] - f[k] - 1 : x[q] = b[f[k] + q]
    BY FieldAt
  <2>. DEFINE l == Len(b) - f[m]
  <2>3. /\ g[s] = z + f[m] /\ g[s + 1] = z + (Len(b) + 1)
        /\ f[m] \in 0..Len(b) + 1 /\ f[m + 1] = Len(b) + 1
    <3>1. m \in 1..m + 1 /\ m + 1 \in 1..m + 1 /\ n + m = s /\ n + (m + 1) = s + 1
      BY <1>3
    <3>2. g[n + m] = z + f[m] /\ g[n + (m + 1)] = z + f[m + 1] /\ f[m] \in 0..Len(b) + 1
      BY <1>7, <3>1
    <3>. QED BY <1>3a, <3>1, <3>2
  <2>4. g[s + 1] - g[s] - 1 = l /\ f[m + 1] - f[m] - 1 = l /\ l \in Int
    <3>. DEFINE u == g[s]
                v == g[s + 1]
                w == f[m]
                y == f[m + 1]
                k == Len(b)
    <3>1. k \in Nat /\ z \in Int /\ w \in 0..k + 1 /\ u = z + w /\ v = z + (k + 1) /\ y = k + 1
      BY <1>3, <2>3
    <3>. HIDE DEF u, v, w, y, k
    <3>2. v - u - 1 = k - w /\ y - w - 1 = k - w /\ k - w \in Int
      BY <3>1
    <3>. QED BY <3>2 DEF u, v, w, y, k
  <2>5. s \in 1..s /\ m \in 1..m
    BY <1>3
  <2>. HIDE DEF c, d, l
  <2>6. c \in Seq(Tokens) /\ Len(c) = l /\ \A q \in 1..l : c[q] = t[g[s] + q]
    BY <2>1, <2>4, <2>5 DEF c
  <2>7. d \in Seq(Tokens) /\ Len(d) = l /\ \A q \in 1..l : d[q] = b[f[m] + q]
    BY <2>2, <2>4, <2>5 DEF d
  <2>8. \A q \in 1..l : c[q] = d[q]
    <3>. SUFFICES ASSUME NEW q \in 1..l PROVE c[q] = d[q]
      OBVIOUS
    <3>. DEFINE x == f[m] + q
    <3>1. g[s] + q = z + x
      BY <1>3, <2>3, <2>4
    <3>2. x \in 1..Len(b)
      <4>1. f[m] \in 0..Len(b) + 1 /\ Len(b) \in Nat /\ q \in 1..Len(b) - f[m]
        BY <1>3, <2>3 DEF l
      <4>. QED BY <4>1
    <3>. HIDE DEF x
    <3>3. t[z + x] = b[x]
      BY <1>4, <3>2
    <3>4. c[q] = t[g[s] + q] /\ d[q] = b[x]
      BY <2>6, <2>7 DEF x
    <3>. QED BY <3>1, <3>3, <3>4
  <2>9. c = d
    <3>1. c \in Seq(Tokens) /\ d \in Seq(Tokens) /\ Len(c) = Len(d) /\ \A q \in 1..Len(c) : c[q] = d[q]
      BY <2>6, <2>7, <2>8
    <3>. QED BY <3>1, SeqEqual
  <2>. QED BY <2>9 DEF c, d
<1>. QED BY <1>3, <1>14, <1>15

\* How many segments a list has: a quad stands for two.
LEMMA ListLength ==
  ASSUME NEW t \in Seq(Tokens), t # <<>>
  PROVE  LET n == Len(Fields(t, ":")) IN
         /\ n \in Nat \ {0}
         /\ Len(List(t)) = n - 1 + (IF IsSegment(Fields(t, ":")[n]) THEN 1 ELSE 2)
<1>. DEFINE n == Len(Fields(t, ":"))
            tail == Fields(t, ":")[n]
            h(k) == Hex[Fields(t, ":")[k][1]]
            a == [k \in 1..n - 1 |-> h(k)]
<1>1. n \in Nat \ {0} /\ n - 1 \in Nat
  BY FieldsAre
<1>. HIDE DEF n
<1>2. List(t) = a \o (IF IsSegment(tail) THEN <<Hex[tail[1]]>> ELSE Quad(tail))
  BY DEF List, n
<1>3. ASSUME NEW S, NEW x \in Seq(S), \A k \in 1..n - 1 : h(k) \in S
      PROVE  Len(a \o x) = n - 1 + Len(x)
  <2>. DEFINE m == n - 1
  <2>1. m \in Nat /\ \A k \in 1..m : h(k) \in S
    BY <1>1, <1>3
  <2>2. a = [k \in 1..m |-> h(k)]
    OBVIOUS
  <2>. HIDE DEF m, a, h
  <2>3. a \in [1..m -> S]
    BY <2>1, <2>2
  <2>4. a \in Seq(S) /\ Len(a) = m
    BY <2>1, <2>3, FunctionIsSeq
  <2>5. Len(a \o x) = Len(a) + Len(x)
    BY <2>4, Joined
  <2>. QED BY <2>4, <2>5 DEF m
<1>. HIDE DEF a
<1>4. CASE IsSegment(tail)
  <2>. DEFINE x == <<Hex[tail[1]]>>
              S == {h(k) : k \in 1..n - 1} \cup {Hex[tail[1]]}
  <2>1. x \in Seq(S) /\ Len(x) = 1 /\ \A k \in 1..n - 1 : h(k) \in S
    OBVIOUS
  <2>. HIDE DEF x, S, h
  <2>2. Len(a \o x) = n - 1 + Len(x)
    BY <1>3, <2>1
  <2>3. Len(List(t)) = n - 1 + 1
    <3>1. List(t) = a \o x
      BY <1>2, <1>4 DEF x
    <3>. QED BY <2>1, <2>2, <3>1
  <2>. QED BY <1>1, <1>4, <2>3 DEF n
<1>5. CASE ~IsSegment(tail)
  <2>. DEFINE o == Fields(tail, ".")
              c == 256*NumberIn(o[1]) + NumberIn(o[2])
              d == 256*NumberIn(o[3]) + NumberIn(o[4])
              x == <<c, d>>
              S == {h(k) : k \in 1..n - 1} \cup {c, d}
  <2>1. Quad(tail) = x
    BY DEF Quad
  <2>. HIDE DEF c, d
  <2>2. x \in Seq(S) /\ Len(x) = 2 /\ \A k \in 1..n - 1 : h(k) \in S
    OBVIOUS
  <2>. HIDE DEF x, S, h
  <2>3. Len(a \o x) = n - 1 + Len(x)
    BY <1>3, <2>2
  <2>4. Len(List(t)) = n - 1 + 2
    <3>1. List(t) = a \o x
      BY <1>2, <1>5, <2>1
    <3>. QED BY <2>2, <2>3, <3>1
  <2>. QED BY <1>1, <1>5, <2>4 DEF n
<1>. QED BY <1>4, <1>5
-----------------------------------------------------------------------------
(* No mark of an IPv6 address is idle. *)

\* Without one of the colons of its gap it is no IPv6 address: the segments on
\* the two sides are not enough.
LEMMA GapClosed ==
  ASSUME NEW t \in Seq(Tokens), NEW p, Gaps(t) = {p},
         IsList(Left(t, p), FALSE), IsList(Right(t, p), TRUE),
         ~(N - Len(List(Left(t, p))) - Len(List(Right(t, p))) < 1),
         NEW r \in Seq(Tokens), Len(r) = Len(t) - 1,
         \A q \in 1..p : r[q] = t[q],
         \A q \in p + 1..Len(t) - 1 : r[q] = t[q + 1]
  PROVE  ~InetPton(r).ok
<1>. DEFINE a == Left(t, p)
            b == Right(t, p)
<1>1. /\ p \in 1..Len(t) - 1 /\ Len(t) \in Nat /\ t[p] = ":" /\ t[p + 1] = ":"
      /\ a \in Seq(Tokens) /\ Len(a) = p - 1
      /\ \A q \in 1..p - 1 : a[q] = t[q]
      /\ b \in Seq(Tokens) /\ Len(b) = Len(t) - p - 1
      /\ \A q \in 1..Len(t) - p - 1 : b[q] = t[p + 1 + q]
  <2>1. p \in Gaps(t)
    OBVIOUS
  <2>. QED BY <2>1, Sides
<1>. HIDE DEF a, b
<1>2. IsList(a, FALSE) /\ IsList(b, TRUE) /\ ~(N - Len(List(a)) - Len(List(b)) < 1)
  BY DEF a, b
<1>3. ":" \notin Numerals
  <2>1. Numerals \cap Marks = {}
    BY NumeralAssumption, Zenon
  <2>. QED BY <2>1 DEF Marks
<1>4. Meets(r, a, ":", b)
  <2>1. Len(r) = Len(a) + 1 + Len(b) /\ r[Len(a) + 1] = ":"
    BY <1>1
  <2>2. \A q \in 1..Len(a) : r[q] = a[q]
    BY <1>1
  <2>3. \A q \in 1..Len(b) : r[Len(a) + 1 + q] = b[q]
    <3>. SUFFICES ASSUME NEW q \in 1..Len(b) PROVE r[Len(a) + 1 + q] = b[q]
      OBVIOUS
    <3>1. Len(a) + 1 + q = p + q /\ p + q \in p + 1..Len(t) - 1 /\ (p + q) + 1 = p + 1 + q
          /\ q \in 1..Len(t) - p - 1
      BY <1>1
    <3>2. r[p + q] = t[(p + q) + 1] /\ b[q] = t[p + 1 + q]
      BY <1>1, <3>1
    <3>. QED BY <3>1, <3>2
  <2>. QED BY <2>1, <2>2, <2>3 DEF Meets
<1>5. p \in 1..Len(r) /\ r[p] = ":" /\ Len(r) \in Nat
  BY <1>1
<1>. SUFFICES ASSUME InetPton(r).ok PROVE FALSE
  OBVIOUS
<1>6. a # <<>> => Solid(a)
  BY <1>1, <1>2, SolidList
<1>7. b # <<>> => Solid(b)
  BY <1>1, <1>2, SolidList
<1>8. Gaps(r) = {}
  <2>. SUFFICES ASSUME NEW q \in Gaps(r) PROVE FALSE
    OBVIOUS
  <2>1. q \in 1..Len(r) - 1 /\ r[q] = ":" /\ r[q + 1] = ":"
    BY DEF Gaps
  <2>2. /\ Len(r) = Len(a) + 1 + Len(b)
        /\ \A x \in 1..Len(a) : r[x] = a[x]
        /\ \A x \in 1..Len(b) : r[Len(a) + 1 + x] = b[x]
    BY <1>4 DEF Meets
  <2>3. Len(a) \in Nat /\ Len(b) \in Nat
    BY <1>1, TextTypes
  <2>4. CASE q <= Len(a)
    <3>1. q \in 1..Len(a) /\ a[q] = ":" /\ Len(a) # 0
      BY <2>1, <2>2, <2>3, <2>4
    <3>2. Solid(a)
      BY <1>1, <1>6, <3>1, EmptySeq
    <3>3. q \in 2..Len(a) - 1 /\ a[q + 1] \in Numerals
      BY <1>3, <3>1, <3>2 DEF Solid
    <3>4. q + 1 \in 1..Len(a)
      BY <2>3, <3>3
    <3>5. r[q + 1] = a[q + 1]
      BY <2>2, <3>4
    <3>. QED BY <1>3, <2>1, <3>3, <3>5
  <2>5. CASE q = Len(a) + 1
    <3>1. 1 \in 1..Len(b) /\ Len(a) + 1 + 1 = q + 1
      BY <2>1, <2>2, <2>3, <2>5
    <3>2. Solid(b)
      BY <1>1, <1>7, <3>1, EmptySeq
    <3>3. b[1] \in Numerals
      BY <1>1, <3>2, SolidEnds
    <3>4. r[q + 1] = b[1]
      BY <2>2, <3>1
    <3>. QED BY <1>3, <2>1, <3>3, <3>4
  <2>6. CASE q > Len(a) + 1
    <3>. DEFINE x == q - Len(a) - 1
    <3>1. x \in 1..Len(b) /\ Len(a) + 1 + x = q /\ Len(b) # 0
      BY <2>1, <2>2, <2>3, <2>6
    <3>. HIDE DEF x
    <3>2. b[x] = ":"
      BY <2>1, <2>2, <3>1
    <3>3. Solid(b)
      BY <1>1, <1>7, <3>1, EmptySeq
    <3>4. x \in 2..Len(b) - 1 /\ b[x + 1] \in Numerals
      BY <1>3, <3>1, <3>2, <3>3 DEF Solid
    <3>5. x + 1 \in 1..Len(b) /\ Len(a) + 1 + (x + 1) = q + 1
      BY <2>3, <3>1, <3>4
    <3>6. r[q + 1] = b[x + 1]
      BY <2>2, <3>5
    <3>. QED BY <1>3, <2>1, <3>4, <3>6
  <2>. QED BY <2>1, <2>3, <2>4, <2>5, <2>6
<1>9. r # <<>> /\ IsList(r, TRUE) /\ Len(List(r)) = N
  <2>1. ~(\E x : Gaps(r) = {x})
    BY <1>8
  <2>. QED BY <1>8, <2>1, Ipv6Cases
<1>10. a # <<>> /\ b # <<>>
  <2>1. Solid(r)
    BY <1>9, SolidList
  <2>2. p \in 2..Len(r) - 1
    BY <1>3, <1>5, <2>1 DEF Solid
  <2>3. Len(a) # 0 /\ Len(b) # 0
    BY <1>1, <2>2
  <2>. QED BY <2>3, EmptySeq
<1>. DEFINE x == Len(Fields(a, ":"))
            y == Len(Fields(b, ":"))
            z == IF IsSegment(Fields(b, ":")[y]) THEN 1 ELSE 2
<1>11. Len(List(a)) = x /\ x \in Nat \ {0}
  <2>1. /\ x \in Nat \ {0}
        /\ Len(List(a)) = x - 1 + (IF IsSegment(Fields(a, ":")[x]) THEN 1 ELSE 2)
    BY <1>1, <1>10, ListLength
  <2>2. DOMAIN Fields(a, ":") = 1..x /\ x \in 1..x
    BY <1>1, <2>1, FieldsAre
  <2>3. IsSegment(Fields(a, ":")[x])
    BY <1>2, <1>10, <2>2 DEF IsList
  <2>. HIDE DEF x
  <2>4. Len(List(a)) = x - 1 + 1
    BY <2>1, <2>3
  <2>. QED BY <2>1, <2>4
<1>12. Len(List(b)) = y - 1 + z /\ y \in Nat \ {0}
  BY <1>1, <1>10, ListLength
<1>13. Len(Fields(r, ":")) = x + y /\ Fields(r, ":")[x + y] = Fields(b, ":")[y]
  <2>1. PICK n \in Nat \ {0} : \E e : Cut(a, ":", n, e)
    BY <1>1, CutExists
  <2>2. PICK e : Cut(a, ":", n, e)
    BY <2>1
  <2>3. PICK m \in Nat \ {0} : \E f : Cut(b, ":", m, f)
    BY <1>1, CutExists
  <2>4. PICK f : Cut(b, ":", m, f)
    BY <2>3
  <2>5. x = n /\ y = m
    BY <1>1, <2>2, <2>4, FieldCount
  <2>. HIDE DEF x, y
  <2>6. a \in Seq(Tokens) /\ b \in Seq(Tokens)
    BY <1>1
  <2>7. Len(Fields(r, ":")) = n + m /\ Fields(r, ":")[n + m] = Fields(b, ":")[m]
    BY <1>4, <2>2, <2>4, <2>6, FieldsJoined
  <2>. QED BY <2>5, <2>7
<1>14. Len(List(r)) = (x + y) - 1 + z
  <2>. DEFINE k == Len(Fields(r, ":"))
  <2>1. Len(List(r)) = k - 1 + (IF IsSegment(Fields(r, ":")[k]) THEN 1 ELSE 2)
    BY <1>9, ListLength
  <2>2. k = x + y /\ Fields(r, ":")[k] = Fields(b, ":")[y]
    BY <1>13
  <2>. HIDE DEF k, x, y
  <2>. QED BY <2>1, <2>2
<1>15. z \in Nat
  OBVIOUS
<1>. HIDE DEF x, y, z
<1>16. N = x + y - 1 + z /\ ~(N - x - (y - 1 + z) < 1)
  BY <1>2, <1>9, <1>11, <1>12, <1>14
<1>. QED BY <1>11, <1>12, <1>15, <1>16

\* Without what is not a numeral it is no IPv6 address, or no text.
LEMMA Ipv6Removed ==
  ASSUME NEW t \in Seq(Tokens), InetPton(t).ok, NEW p \in 1..Len(t),
         t[p] \notin Numerals, IsText(RemoveAt(t, p))
  PROVE  ~InetPton(RemoveAt(t, p)).ok
<1>0. Len(t) \in Nat
  BY TextTypes
<1>1. ~(p \in 2..Len(t) - 1 /\ t[p - 1] \in Numerals /\ t[p + 1] \in Numerals)
  BY SideBySide
<1>2. ASSUME t # <<>>, IsList(t, TRUE) PROVE FALSE
  <2>1. Solid(t)
    BY <1>2, SolidList
  <2>. QED BY <1>1, <2>1 DEF Solid
<1>3. ASSUME NEW m, Gaps(t) = {m}, IsList(Left(t, m), FALSE), IsList(Right(t, m), TRUE),
             ~(N - Len(List(Left(t, m))) - Len(List(Right(t, m))) < 1)
      PROVE  ~InetPton(RemoveAt(t, p)).ok
  <2>. DEFINE a == Left(t, m)
              b == Right(t, m)
              r == RemoveAt(t, p)
  <2>1. /\ m \in 1..Len(t) - 1 /\ t[m] = ":" /\ t[m + 1] = ":"
        /\ a \in Seq(Tokens) /\ Len(a) = m - 1
        /\ \A q \in 1..m - 1 : a[q] = t[q]
        /\ b \in Seq(Tokens) /\ Len(b) = Len(t) - m - 1
        /\ \A q \in 1..Len(t) - m - 1 : b[q] = t[m + 1 + q]
    <3>1. m \in Gaps(t)
      BY <1>3
    <3>. QED BY <3>1, Sides
  <2>2. IsList(a, FALSE) /\ IsList(b, TRUE)
    BY <1>3
  <2>. HIDE DEF a, b
  <2>3. CASE p < m
    <3>1. p \in 1..Len(a) /\ Len(a) # 0
      BY <1>0, <2>1, <2>3
    <3>2. Solid(a)
      BY <2>1, <2>2, <3>1, SolidList, EmptySeq
    <3>3. p \in 2..Len(a) - 1 /\ a[p - 1] \in Numerals /\ a[p + 1] \in Numerals
      BY <2>1, <3>1, <3>2 DEF Solid
    <3>4. p \in 2..Len(t) - 1 /\ p - 1 \in 1..m - 1 /\ p + 1 \in 1..m - 1
      BY <1>0, <2>1, <3>3
    <3>. QED BY <1>1, <2>1, <3>3, <3>4
  <2>4. CASE p > m + 1
    <3>. DEFINE q == p - m - 1
    <3>1. q \in 1..Len(b) /\ m + 1 + q = p /\ Len(b) # 0
      BY <1>0, <2>1, <2>4
    <3>. HIDE DEF q
    <3>2. Solid(b)
      BY <2>1, <2>2, <3>1, SolidList, EmptySeq
    <3>3. b[q] = t[p]
      BY <2>1, <3>1
    <3>4. q \in 2..Len(b) - 1 /\ b[q - 1] \in Numerals /\ b[q + 1] \in Numerals
      BY <3>1, <3>2, <3>3 DEF Solid
    <3>5. p \in 2..Len(t) - 1 /\ q - 1 \in 1..Len(t) - m - 1 /\ q + 1 \in 1..Len(t) - m - 1
          /\ m + 1 + (q - 1) = p - 1 /\ m + 1 + (q + 1) = p + 1
      BY <1>0, <2>1, <3>1, <3>4
    <3>6. b[q - 1] = t[m + 1 + (q - 1)] /\ b[q + 1] = t[m + 1 + (q + 1)]
      BY <2>1, <3>5
    <3>. QED BY <1>1, <3>4, <3>5, <3>6
  <2>5. CASE p = m \/ p = m + 1
    <3>1. /\ r \in Seq(Tokens) /\ Len(r) = Len(t) - 1
          /\ \A q \in 1..p - 1 : r[q] = t[q]
          /\ \A q \in p..Len(t) - 1 : r[q] = t[q + 1]
      BY RemovedIs
    <3>. HIDE DEF r
    <3>2. \A q \in 1..m : r[q] = t[q]
      <4>1. CASE p = m + 1
        BY <2>1, <3>1, <4>1
      <4>2. CASE p = m
        <5>1. r[m] = t[m + 1]
          BY <1>0, <2>1, <3>1, <4>2
        <5>2. \A q \in 1..m - 1 : r[q] = t[q]
          BY <3>1, <4>2
        <5>. QED BY <2>1, <5>1, <5>2
      <4>. QED BY <2>5, <4>1, <4>2
    <3>3. \A q \in m + 1..Len(t) - 1 : r[q] = t[q + 1]
      BY <1>0, <2>1, <2>5, <3>1
    <3>4. ~InetPton(r).ok
      BY <1>3, <3>1, <3>2, <3>3, GapClosed
    <3>. QED BY <3>4 DEF r
  <2>. QED BY <1>0, <2>1, <2>3, <2>4, <2>5
<1>4. CASE t # <<>> /\ IsList(t, TRUE)
  BY <1>2, <1>4
<1>. QED BY <1>3, <1>4, Ipv6Cases

\* What is accepted ends with a numeral or a colon.
LEMMA Ipv6Last ==
  ASSUME NEW t \in Seq(Tokens), InetPton(t).ok
  PROVE  t[Len(t)] \in Numerals \/ t[Len(t)] = ":"
<1>1. CASE t # <<>> /\ IsList(t, TRUE)
  <2>1. Solid(t)
    BY <1>1, SolidList
  <2>. QED BY <2>1, SolidEnds
<1>2. ASSUME NEW p, Gaps(t) = {p}, IsList(Right(t, p), TRUE)
      PROVE  t[Len(t)] \in Numerals \/ t[Len(t)] = ":"
  <2>. DEFINE b == Right(t, p)
  <2>1. /\ p \in 1..Len(t) - 1 /\ Len(t) \in Nat /\ t[p + 1] = ":"
        /\ b \in Seq(Tokens) /\ Len(b) = Len(t) - p - 1
        /\ \A q \in 1..Len(t) - p - 1 : b[q] = t[p + 1 + q]
    <3>1. p \in Gaps(t)
      BY <1>2
    <3>. QED BY <3>1, Sides
  <2>2. IsList(b, TRUE)
    BY <1>2
  <2>. HIDE DEF b
  <2>3. CASE p + 1 = Len(t)
    BY <2>1, <2>3
  <2>4. CASE p + 1 # Len(t)
    <3>. DEFINE l == Len(t) - p - 1
    <3>1. l \in 1..Len(t) - p - 1 /\ p + 1 + l = Len(t) /\ Len(b) # 0
      BY <2>1, <2>4
    <3>2. b[Len(b)] \in Numerals
      <4>1. Solid(b)
        BY <2>1, <2>2, <3>1, SolidList, EmptySeq
      <4>. QED BY <2>1, <4>1, SolidEnds
    <3>3. b[l] = t[p + 1 + l] /\ Len(b) = l
      BY <2>1, <3>1
    <3>. HIDE DEF l
    <3>. QED BY <3>1, <3>2, <3>3
  <2>. QED BY <2>3, <2>4
<1>. QED BY <1>1, <1>2, Ipv6Cases

\* The same of a text that may have a character 0 in it, in what is before it.
LEMMA Ipv6ParseRemoved ==
  ASSUME NEW t \in Seq(Tokens), Ipv6Parse(t).ok, NEW p \in 1..Len(t), p \notin CutOff(t),
         t[p] \notin Numerals, IsText(RemoveAt(t, p))
  PROVE  ~Ipv6Parse(RemoveAt(t, p)).ok
<1>. DEFINE c == CString(t)
            n == Len(c)
            d == RemoveAt(c, p)
            r == RemoveAt(t, p)
<1>1. IsBeforeNul(c, t) /\ InetPton(c).ok
  BY CStringOf DEF Ipv6Parse
<1>. HIDE DEF c
<1>2. /\ c \in Seq(Tokens) /\ n \in Nat /\ n <= Len(t) /\ Len(t) \in Nat
      /\ \A q \in 1..n : c[q] = t[q] /\ c[q] # Nul
      /\ n < Len(t) => t[n + 1] = Nul
  BY <1>1, TextTypes DEF IsBeforeNul, Plain
<1>. HIDE DEF n
<1>3. p \in 1..n
  <2>. SUFFICES ASSUME ~(p \in 1..n) PROVE FALSE
    OBVIOUS
  <2>1. n + 1 \in 1..p /\ n < Len(t) /\ p \in DOMAIN t
    BY <1>2, TextTypes
  <2>. QED BY <1>2, <2>1 DEF CutOff
<1>4. /\ d \in Seq(Tokens) /\ Len(d) = n - 1
      /\ \A q \in 1..p - 1 : d[q] = c[q]
      /\ \A q \in p..n - 1 : d[q] = c[q + 1]
  <2>1. p \in 1..Len(c)
    BY <1>3 DEF n
  <2>. QED BY <1>2, <2>1, RemovedIs DEF n
<1>5. /\ r \in Seq(Tokens) /\ Len(r) = Len(t) - 1
      /\ \A q \in 1..p - 1 : r[q] = t[q]
      /\ \A q \in p..Len(t) - 1 : r[q] = t[q + 1]
  BY RemovedIs
<1>6. IsText(r)
  OBVIOUS
<1>. HIDE DEF d, r
<1>7. ASSUME NEW q \in 1..n - 1 PROVE d[q] = r[q] /\ d[q] # Nul
  <2>1. CASE q < p
    <3>1. q \in 1..p - 1 /\ q \in 1..n
      BY <1>2, <1>3, <2>1
    <3>. QED BY <1>2, <1>4, <1>5, <3>1
  <2>2. CASE q >= p
    <3>1. q \in p..n - 1 /\ q \in p..Len(t) - 1 /\ q + 1 \in 1..n
      BY <1>2, <1>3, <2>2
    <3>2. d[q] = c[q + 1] /\ r[q] = t[q + 1] /\ c[q + 1] = t[q + 1] /\ c[q + 1] # Nul
      BY <1>2, <1>4, <1>5, <3>1
    <3>. QED BY <3>2
  <2>. QED BY <1>2, <1>3, <2>1, <2>2
<1>8. IsBeforeNul(d, r)
  <2>1. Plain(d) /\ \A q \in 1..Len(d) : d[q] = r[q]
    BY <1>4, <1>7 DEF Plain
  <2>2. Len(d) <= Len(r)
    BY <1>2, <1>4, <1>5
  <2>3. ASSUME Len(d) < Len(r) PROVE r[Len(d) + 1] = Nul
    <3>1. n < Len(t) /\ n \in p..Len(t) - 1 /\ Len(d) + 1 = n
      BY <1>2, <1>3, <1>4, <1>5, <2>3
    <3>. QED BY <1>2, <1>5, <3>1
  <2>. QED BY <1>4, <2>1, <2>2, <2>3 DEF IsBeforeNul
<1>9. CString(r) = d
  BY <1>5, <1>8, CStringIs
<1>10. IsText(d)
  <2>. SUFFICES ASSUME NEW q \in 1..Len(d) - 1, d[q] \in Numerals, d[q + 1] \in Numerals PROVE FALSE
    BY DEF IsText
  <2>1. q \in 1..n - 1 /\ q + 1 \in 1..n - 1 /\ q \in 1..Len(r) - 1
    BY <1>2, <1>4, <1>5
  <2>2. r[q] \in Numerals /\ r[q + 1] \in Numerals
    BY <1>7, <2>1
  <2>. QED BY <1>6, <2>1, <2>2 DEF IsText
<1>11. ~InetPton(d).ok
  <2>1. p \in 1..Len(c) /\ c[p] \notin Numerals
    BY <1>2, <1>3 DEF n
  <2>. QED BY <1>1, <1>2, <1>10, <2>1, Ipv6Removed DEF d
<1>. QED BY <1>9, <1>11 DEF Ipv6Parse, r

-----------------------------------------------------------------------------
(* No mark of a socket address is idle. *)

LEMMA ColonIsNoNumeral == ":" \notin Numerals /\ "[" \notin Numerals /\ "]" \notin Numerals
<1>1. Numerals \cap Marks = {}
  BY NumeralAssumption, Zenon
<1>. QED BY <1>1 DEF Marks

\* A port is one token: the last colon stands right before it.
LEMMA PortLast ==
  ASSUME NEW t \in Seq(Tokens), Splits(t), IsPort(Port(t))
  PROVE  /\ Len(t) \in Nat /\ LastColon(t) = Len(t) - 1 /\ Len(t) >= 3
         /\ t[Len(t) - 1] = ":" /\ t[Len(t)] \in Numerals
         /\ Host(t) \in Seq(Tokens) /\ Len(Host(t)) = Len(t) - 2
         /\ \A p \in 1..Len(t) - 2 : Host(t)[p] = t[p]
<1>. DEFINE c == LastColon(t)
            f == Port(t)
            h == Host(t)
<1>1. /\ Len(t) \in Nat /\ c \in 2..Len(t) - 1 /\ t[c] = ":"
      /\ f \in Seq(Tokens) /\ Len(f) = Len(t) - c /\ \A p \in 1..Len(t) - c : f[p] = t[c + p]
      /\ h \in Seq(Tokens) /\ Len(h) = c - 1 /\ \A p \in 1..c - 1 : h[p] = t[p]
  BY HostAndPort, TextTypes
<1>2. StartsWithNumber(f, MaxWord) /\ Len(f) = 1
  BY DEF IsPort, IsAllNumber
<1>. HIDE DEF c, f, h
<1>3. f[1] \in DOMAIN Dec
  BY <1>1, <1>2, FirstToken
<1>4. c = Len(t) - 1 /\ c + 1 = Len(t) /\ 1 \in 1..Len(t) - c
  <2>1. Len(t) \in Nat /\ c \in Int
    BY <1>1
  <2>2. Len(f) = Len(t) - c
    BY <1>1
  <2>3. Len(f) = 1
    BY <1>2
  <2>4. Len(t) - c = 1
    BY <2>2, <2>3, Zenon
  <2>. QED BY <2>1, <2>4
<1>5. f[1] = t[Len(t)]
  BY <1>1, <1>4
<1>6. t[Len(t)] \in Numerals
  BY <1>3, <1>5 DEF Numerals
<1>7. Len(t) >= 3 /\ t[Len(t) - 1] = ":"
  BY <1>1, <1>4
<1>8. c - 1 = Len(t) - 2
  BY <1>1, <1>4
<1>. QED BY <1>1, <1>4, <1>6, <1>7, <1>8 DEF c, h

\* Without a token of its host a text has its colon one place before.
LEMMA HostRemoved ==
  ASSUME NEW t \in Seq(Tokens), Splits(t), IsPort(Port(t)), NEW p \in 1..Len(t) - 2,
         Splits(RemoveAt(t, p))
  PROVE  Host(RemoveAt(t, p)) = RemoveAt(Host(t), p)
<1>. DEFINE r == RemoveAt(t, p)
            h == Host(t)
            g == RemoveAt(h, p)
            k == Host(r)
            c == Len(t) - 2
<1>1. /\ Len(t) \in Nat /\ Len(t) >= 3 /\ t[Len(t) - 1] = ":" /\ t[Len(t)] \in Numerals
      /\ h \in Seq(Tokens) /\ Len(h) = Len(t) - 2
      /\ \A q \in 1..Len(t) - 2 : h[q] = t[q]
  BY PortLast
<1>2. p \in 1..Len(t) /\ p \in 1..Len(h)
  BY <1>1
<1>. HIDE DEF h
<1>3. /\ r \in Seq(Tokens) /\ Len(r) = Len(t) - 1
      /\ \A q \in 1..p - 1 : r[q] = t[q]
      /\ \A q \in p..Len(t) - 1 : r[q] = t[q + 1]
  BY <1>2, RemovedIs
<1>4. /\ g \in Seq(Tokens) /\ Len(g) = Len(h) - 1
      /\ \A q \in 1..p - 1 : g[q] = h[q]
      /\ \A q \in p..Len(h) - 1 : g[q] = h[q + 1]
  BY <1>1, <1>2, RemovedIs
<1>5. Splits(r)
  OBVIOUS
<1>. HIDE DEF r, g
<1>6. r[c] = ":" /\ r[c + 1] # ":" /\ c \in 1..Len(r) /\ Len(r) = c + 1 /\ c \in Nat
  <2>1. r[c] = t[c + 1] /\ r[c + 1] = t[(c + 1) + 1] /\ c + 1 = Len(t) - 1 /\ (c + 1) + 1 = Len(t)
    BY <1>1, <1>3
  <2>2. r[c] = ":" /\ r[c + 1] \in Numerals
    <3>. HIDE DEF c
    <3>. QED BY <1>1, <2>1
  <2>3. c \in 1..Len(r) /\ Len(r) = c + 1 /\ c \in Nat
    BY <1>1, <1>3
  <2>. HIDE DEF c
  <2>. QED BY <2>2, <2>3, ColonIsNoNumeral
<1>7. LastColon(r) = c
  <2>. HIDE DEF c
  <2>1. \A q \in 1..Len(r) : r[q] = ":" => q <= c
    <3>. SUFFICES ASSUME NEW q \in 1..Len(r), r[q] = ":", ~(q <= c) PROVE FALSE
      OBVIOUS
    <3>1. q = c + 1
      BY <1>6
    <3>. QED BY <1>6, <3>1
  <2>. QED BY <1>3, <1>6, <2>1, LastColonIs
<1>8. k \in Seq(Tokens) /\ Len(k) = c - 1 /\ \A q \in 1..c - 1 : k[q] = r[q]
  <2>. DEFINE d == LastColon(r)
  <2>1. k \in Seq(Tokens) /\ Len(k) = d - 1 /\ \A q \in 1..d - 1 : k[q] = r[q]
    BY <1>3, <1>5, HostAndPort
  <2>. HIDE DEF k, c
  <2>. QED BY <1>7, <2>1
<1>. HIDE DEF k
<1>9. Len(k) = Len(g)
  BY <1>1, <1>4, <1>8
<1>10. \A q \in 1..Len(k) : k[q] = g[q]
  <2>. SUFFICES ASSUME NEW q \in 1..Len(k) PROVE k[q] = g[q]
    OBVIOUS
  <2>1. k[q] = r[q] /\ q \in 1..c - 1 /\ Len(h) = c
    BY <1>1, <1>8
  <2>2. CASE q < p
    <3>1. q \in 1..p - 1 /\ q \in 1..Len(t) - 2
      BY <1>1, <1>2, <2>1, <2>2
    <3>. HIDE DEF c
    <3>. QED BY <1>1, <1>3, <1>4, <2>1, <3>1
  <2>3. CASE q >= p
    <3>1. q \in p..Len(h) - 1 /\ q \in p..Len(t) - 1 /\ q + 1 \in 1..Len(t) - 2
      BY <1>1, <1>2, <2>1, <2>3
    <3>. HIDE DEF c
    <3>2. r[q] = t[q + 1] /\ g[q] = h[q + 1] /\ h[q + 1] = t[q + 1]
      BY <1>1, <1>3, <1>4, <3>1
    <3>. QED BY <2>1, <3>2
  <2>. QED BY <1>1, <1>2, <2>1, <2>2, <2>3
<1>11. k = g
  BY <1>4, <1>8, <1>9, <1>10, SeqEqual
<1>. QED BY <1>11 DEF k, r, g, h

\* The mark before the port: what is then before the port is no colon.
LEMMA ColonRemoved ==
  ASSUME NEW t \in Seq(Tokens), Splits(t), IsPort(Port(t)),
         Host(t)[Len(t) - 2] # ":"
  PROVE  LET r == RemoveAt(t, Len(t) - 1) IN ~(Splits(r) /\ IsPort(Port(r)))
<1>. DEFINE p == Len(t) - 1
            r == RemoveAt(t, p)
<1>1. /\ Len(t) \in Nat /\ Len(t) >= 3
      /\ \A q \in 1..Len(t) - 2 : Host(t)[q] = t[q]
  BY PortLast
<1>2. p \in 1..Len(t)
  BY <1>1
<1>3. /\ r \in Seq(Tokens) /\ Len(r) = Len(t) - 1
      /\ \A q \in 1..p - 1 : r[q] = t[q]
  BY <1>2, RemovedIs
<1>. HIDE DEF r
<1>. SUFFICES ASSUME Splits(r), IsPort(Port(r)) PROVE FALSE
  BY DEF r, p
<1>4. r[Len(r) - 1] = ":"
  BY <1>3, PortLast
<1>5. Len(r) - 1 = Len(t) - 2 /\ Len(t) - 2 \in 1..p - 1 /\ Len(t) - 2 \in 1..Len(t) - 2
  BY <1>1, <1>3
<1>6. r[Len(t) - 2] = Host(t)[Len(t) - 2]
  BY <1>1, <1>3, <1>5
<1>. QED BY <1>4, <1>5, <1>6

\* A place of what is no numeral is the colon's, or the host's.
LEMMA NotThePort ==
  ASSUME NEW t \in Seq(Tokens), Splits(t), IsPort(Port(t)), NEW p \in 1..Len(t), t[p] \notin Numerals
  PROVE  p = Len(t) - 1 \/ p \in 1..Len(t) - 2
<1>1. Len(t) \in Nat /\ Len(t) >= 3 /\ t[Len(t)] \in Numerals
  BY PortLast
<1>2. p # Len(t)
  BY <1>1
<1>. QED BY <1>1, <1>2

\* What is between the brackets.
LEMMA BetweenBrackets ==
  ASSUME NEW h \in Seq(Tokens), Bracketed(h)
  PROVE  LET u == Unbracketed(h) IN
         /\ Len(h) \in Nat /\ Len(h) >= 2 /\ h[1] = "[" /\ h[Len(h)] = "]"
         /\ u \in Seq(Tokens) /\ Len(u) = Len(h) - 2
         /\ \A q \in 1..Len(h) - 2 : u[q] = h[q + 1]
<1>1. Len(h) \in Nat /\ Len(h) >= 2 /\ Head(h) = "[" /\ Last(h) = "]"
  BY TextTypes DEF Bracketed
<1>1a. Len(h) \in Nat /\ Len(h) >= 2
  BY <1>1
<1>2. h[1] = "[" /\ h[Len(h)] = "]"
  <2>1. Head(h) = h[1] /\ Last(h) = h[Len(h)]
    BY <1>1 DEF Last
  <2>. QED BY <1>1, <2>1
<1>. DEFINE m == Len(h) - 1
            x == 2
            u == SubSeq(h, x, m)
<1>3. u \in Seq(Tokens) /\ Len(u) = m - 1 /\ \A q \in 1..m - 1 : u[q] = h[q + 1]
  <2>1. x \in Int /\ m \in Int /\ \A q \in x..m : h[q] \in Tokens
    BY <1>1, TextTypes
  <2>2. m - x + 1 = m - 1 /\ (~(x <= m) => m - 1 = 0) /\ \A q \in 1..m - 1 : x + q - 1 = q + 1
    <3>1. m \in Nat \ {0}
      <4>. DEFINE n == Len(h)
      <4>1. n \in Nat /\ n >= 2 /\ m = n - 1
        BY <1>1a
      <4>. HIDE DEF n, m
      <4>. QED BY <4>1
    <3>. HIDE DEF m
    <3>. QED BY <3>1
  <2>. HIDE DEF x, m
  <2>3. /\ u \in Seq(Tokens) /\ Len(u) = IF x <= m THEN m - x + 1 ELSE 0
        /\ \A q \in 1..m - x + 1 : u[q] = h[x + q - 1]
    BY <2>1, SubSeqProperties
  <2>. HIDE DEF u
  <2>4. u \in Seq(Tokens) /\ Len(u) = m - 1 /\ \A q \in 1..m - 1 : u[q] = h[q + 1]
    BY <2>2, <2>3
  <2>. QED BY <2>4
<1>4. m - 1 = Len(h) - 2
  BY <1>1
<1>. HIDE DEF u
<1>5. Unbracketed(h) = u
  BY DEF Unbracketed, u, m, x
<1>. QED BY <1>1, <1>2, <1>3, <1>4, <1>5

\* Nor in the brackets of a socket address, nor the brackets themselves.
LEMMA SocketV6Removed ==
  ASSUME NEW t \in Seq(Tokens), SocketV6Parse(t).ok, NEW p \in 1..Len(t),
         t[p] \notin Numerals, IsText(RemoveAt(t, p)), p \in CutOff(t) => p >= LastColon(t)
  PROVE  ~SocketV6Parse(RemoveAt(t, p)).ok
<1>. DEFINE h == Host(t)
            r == RemoveAt(t, p)
            m == Len(t) - 2
            u == Unbracketed(h)
<1>1. Splits(t) /\ Bracketed(h) /\ Ipv6Parse(u).ok /\ IsPort(Port(t))
  BY SocketV6Accepts
<1>2. /\ Len(t) \in Nat /\ Len(t) >= 3 /\ LastColon(t) = Len(t) - 1
      /\ h \in Seq(Tokens) /\ Len(h) = m /\ \A q \in 1..m : h[q] = t[q]
  BY <1>1, PortLast
<1>3. p = Len(t) - 1 \/ p \in 1..m
  BY <1>1, NotThePort
<1>. SUFFICES ASSUME SocketV6Parse(r).ok PROVE FALSE
  OBVIOUS
<1>. DEFINE g == Host(r)
            v == Unbracketed(g)
<1>4. Splits(r) /\ Bracketed(g) /\ Ipv6Parse(v).ok /\ IsPort(Port(r))
  BY SocketV6Accepts
<1>. HIDE DEF h
<1>5. /\ Len(h) >= 2 /\ h[1] = "[" /\ h[Len(h)] = "]"
      /\ u \in Seq(Tokens) /\ Len(u) = Len(h) - 2
      /\ \A q \in 1..Len(h) - 2 : u[q] = h[q + 1]
  BY <1>1, <1>2, BetweenBrackets
<1>6. m \in Nat /\ m >= 2 /\ Len(t) = m + 2
  BY <1>2, <1>5
<1>. HIDE DEF m, u
<1>9. ASSUME p \in 1..m, NEW q \in 1..Len(u), u[q] = Nul PROVE p < q + 1
  <2>. SUFFICES ASSUME q + 1 <= p PROVE FALSE
    BY <1>9
  <2>1. q \in 1..Len(h) - 2 /\ q + 1 \in 1..m /\ q + 1 \in 1..p
    BY <1>2, <1>5, <1>6, <1>9
  <2>2. t[q + 1] = Nul
    BY <1>2, <1>5, <1>9, <2>1
  <2>3. p \in CutOff(t)
    BY <2>1, <2>2, TextTypes DEF CutOff
  <2>. QED BY <1>2, <1>6, <1>9, <2>3
<1>10. /\ InetPton(CString(u)).ok /\ CString(u) \in Seq(Tokens)
       /\ (Plain(u) => CString(u) = u)
       /\ \A q \in 1..Len(CString(u)) : CString(u)[q] = u[q]
  BY <1>1, <1>5, CStringOf DEF Ipv6Parse, IsBeforeNul
<1>7. CASE p = Len(t) - 1
  <2>1. h[Len(t) - 2] # ":"
    BY <1>2, <1>5 DEF m
  <2>2. ~(Splits(r) /\ IsPort(Port(r)))
    BY <1>1, <1>7, <2>1, ColonRemoved DEF h
  <2>. QED BY <1>4, <2>2
<1>8. CASE p \in 1..m
  <2>1. g = RemoveAt(h, p)
    BY <1>1, <1>4, <1>8, HostRemoved DEF m, h
  <2>2. /\ g \in Seq(Tokens) /\ Len(g) = m - 1
        /\ \A q \in 1..p - 1 : g[q] = h[q]
        /\ \A q \in p..m - 1 : g[q] = h[q + 1]
    <3>. DEFINE s == RemoveAt(h, p)
    <3>1. p \in 1..Len(h)
      BY <1>2, <1>8
    <3>2. /\ s \in Seq(Tokens) /\ Len(s) = Len(h) - 1
          /\ \A q \in 1..p - 1 : s[q] = h[q]
          /\ \A q \in p..Len(h) - 1 : s[q] = h[q + 1]
      BY <1>2, <3>1, RemovedIs
    <3>. HIDE DEF s, g
    <3>3. g = s /\ Len(h) = m
      BY <1>2, <2>1 DEF s
    <3>. QED BY <3>2, <3>3
  <2>. HIDE DEF r
  <2>. HIDE DEF g
  <2>3. /\ Len(g) >= 2 /\ g[1] = "[" /\ g[Len(g)] = "]"
        /\ v \in Seq(Tokens) /\ Len(v) = Len(g) - 2
        /\ \A q \in 1..Len(g) - 2 : v[q] = g[q + 1]
    BY <1>4, <2>2, BetweenBrackets
  <2>. HIDE DEF v
  <2>4. m >= 3
    BY <1>6, <2>2, <2>3
  <2>5. p # 1
    <3>. SUFFICES ASSUME p = 1 PROVE FALSE
      OBVIOUS
    <3>1. 1 \in p..m - 1 /\ 1 + 1 = 2 /\ 1 \in 1..m - 2
      BY <1>6, <2>4
    <3>2. g[1] = h[2]
      BY <2>2, <3>1
    <3>3. u[1] = h[2]
      BY <1>2, <1>5, <3>1
    <3>4. u[1] \in Numerals \/ u[1] = ":"
      <4>. DEFINE c == CString(u)
      <4>. HIDE DEF c
      <4>1. Len(c) \in Nat /\ Len(c) > 0 /\ (c[1] \in Numerals \/ c[1] = ":")
        BY <1>10, Ipv6Head, TextTypes DEF c
      <4>2. 1 \in 1..Len(c)
        BY <4>1
      <4>3. c[1] = u[1]
        BY <1>10, <4>2 DEF c
      <4>. QED BY <4>1, <4>3
    <3>. QED BY <2>3, <3>2, <3>3, <3>4, ColonIsNoNumeral
  <2>6. p # m
    <3>. SUFFICES ASSUME p = m PROVE FALSE
      OBVIOUS
    <3>1. m - 1 \in 1..p - 1 /\ m - 2 \in 1..m - 2 /\ (m - 2) + 1 = m - 1
      BY <1>6, <2>4
    <3>2. g[m - 1] = h[m - 1]
      BY <2>2, <3>1
    <3>3. u[m - 2] = h[m - 1]
      BY <1>2, <1>5, <3>1
    <3>6. Plain(u)
      <4>. SUFFICES ASSUME NEW q \in 1..Len(u), u[q] = Nul PROVE FALSE
        BY DEF Plain
      <4>1. p < q + 1
        BY <1>8, <1>9
      <4>. QED BY <1>2, <1>5, <1>6, <4>1
    <3>4. u[m - 2] \in Numerals \/ u[m - 2] = ":"
      <4>1. InetPton(u).ok
        BY <1>10, <3>6
      <4>2. u[Len(u)] \in Numerals \/ u[Len(u)] = ":"
        BY <1>5, <4>1, Ipv6Last
      <4>. QED BY <1>2, <1>5, <4>2
    <3>5. g[m - 1] = "]"
      BY <2>2, <2>3
    <3>. QED BY <3>2, <3>3, <3>4, <3>5, ColonIsNoNumeral
  <2>. DEFINE x == p - 1
              w == RemoveAt(u, x)
  <2>7. x \in 1..m - 2 /\ x + 1 = p
    BY <1>6, <1>8, <2>5, <2>6
  <2>. HIDE DEF x
  <2>8. x \in 1..Len(u) /\ u[x] \notin Numerals
    <3>1. u[x] = h[p] /\ h[p] = t[p]
      BY <1>2, <1>5, <1>8, <2>7
    <3>. QED BY <1>2, <1>5, <2>7, <3>1
  <2>9. /\ w \in Seq(Tokens) /\ Len(w) = m - 3
        /\ \A q \in 1..x - 1 : w[q] = u[q]
        /\ \A q \in x..m - 3 : w[q] = u[q + 1]
    <3>1. /\ w \in Seq(Tokens) /\ Len(w) = Len(u) - 1
          /\ \A q \in 1..x - 1 : w[q] = u[q]
          /\ \A q \in x..Len(u) - 1 : w[q] = u[q + 1]
      BY <1>5, <2>8, RemovedIs
    <3>2. Len(u) - 1 = m - 3
      BY <1>2, <1>5, <1>6
    <3>. QED BY <3>1, <3>2
  <2>. HIDE DEF w
  <2>10. Len(v) = m - 3 /\ \A q \in 1..m - 3 : v[q] = g[q + 1]
    <3>1. Len(g) - 2 = m - 3
      BY <1>6, <2>2
    <3>. QED BY <2>3, <3>1
  <2>11. \A q \in 1..m - 3 : v[q] = w[q]
    <3>. SUFFICES ASSUME NEW q \in 1..m - 3 PROVE v[q] = w[q]
      OBVIOUS
    <3>1. v[q] = g[q + 1]
      BY <2>10
    <3>2. CASE q < x
      <4>1. q \in 1..x - 1 /\ q + 1 \in 1..p - 1 /\ q \in 1..m - 2
        BY <1>6, <2>7, <3>2
      <4>2. g[q + 1] = h[q + 1] /\ w[q] = u[q] /\ u[q] = h[q + 1]
        BY <1>2, <1>5, <2>2, <2>9, <4>1
      <4>. QED BY <3>1, <4>2
    <3>3. CASE q >= x
      <4>1. q \in x..m - 3 /\ q + 1 \in p..m - 1 /\ q + 1 \in 1..m - 2
        BY <1>6, <2>7, <3>3
      <4>2. g[q + 1] = h[(q + 1) + 1] /\ w[q] = u[q + 1] /\ u[q + 1] = h[(q + 1) + 1]
        BY <1>2, <1>5, <2>2, <2>9, <4>1
      <4>. QED BY <3>1, <4>2
    <3>. QED BY <2>7, <3>2, <3>3
  <2>12. v = w
    <3>1. Len(v) = Len(w) /\ \A q \in 1..Len(v) : v[q] = w[q]
      BY <2>9, <2>10, <2>11
    <3>. QED BY <2>3, <2>9, <3>1, SeqEqual
  <2>13. IsText(w)
    <3>. SUFFICES ASSUME NEW q \in 1..Len(w) - 1, w[q] \in Numerals, w[q + 1] \in Numerals
                  PROVE  FALSE
      BY DEF IsText
    <3>1. q \in 1..m - 3 /\ q + 1 \in 1..m - 3 /\ q + 1 \in 1..m - 1 /\ (q + 1) + 1 \in 1..m - 1
      BY <1>6, <2>9
    <3>2. w[q] = g[q + 1] /\ w[q + 1] = g[(q + 1) + 1]
      BY <2>10, <2>12, <3>1
    <3>3. \A y \in 1..m - 1 : g[y] = r[y]
      <4>1. /\ Splits(r) /\ IsPort(Port(r))
        BY <1>4
      <4>2. /\ r \in Seq(Tokens) /\ Len(r) = Len(t) - 1
        BY RemovedIs DEF r
      <4>3. \A y \in 1..Len(r) - 2 : g[y] = r[y]
        BY <4>1, <4>2, PortLast DEF g
      <4>4. Len(r) - 2 = m - 1
        BY <1>6, <4>2
      <4>. QED BY <4>3, <4>4
    <3>4. r[q + 1] \in Numerals /\ r[(q + 1) + 1] \in Numerals
      BY <3>1, <3>2, <3>3
    <3>5. q + 1 \in 1..Len(r) - 1
      <4>1. Len(r) = m + 1
        BY <1>6, RemovedIs DEF r
      <4>. QED BY <1>6, <3>1, <4>1
    <3>6. IsText(r)
      BY DEF r
    <3>. QED BY <3>4, <3>5, <3>6 DEF IsText
  <2>15. x \notin CutOff(u)
    <3>. SUFFICES ASSUME NEW q \in 1..x, u[q] = Nul PROVE FALSE
      BY DEF CutOff
    <3>1. q \in 1..Len(u)
      BY <1>5, <2>8, TextTypes
    <3>2. p < q + 1
      BY <1>8, <1>9, <3>1
    <3>. QED BY <2>7, <3>2
  <2>14. ~Ipv6Parse(w).ok
    BY <1>1, <1>5, <2>8, <2>13, <2>15, Ipv6ParseRemoved DEF w
  <2>. QED BY <1>4, <2>12, <2>14
<1>. QED BY <1>3, <1>7, <1>8

LEMMA SocketRemoved ==
  ASSUME NEW t \in Seq(Tokens), SocketParse(t).ok, Bracketed(Host(t)), NEW p \in 1..Len(t),
         t[p] \notin Numerals, IsText(RemoveAt(t, p)), p \in CutOff(t) => p >= LastColon(t)
  PROVE  SocketParse(RemoveAt(t, p)) # SocketParse(t)
<1>. DEFINE r == RemoveAt(t, p)
            Of(x) == IF Bracketed(Host(x)) THEN "V6" ELSE "V4"
<1>1. ASSUME NEW x, SocketParse(x).ok
      PROVE  /\ SocketParse(x).value.family = Of(x)
             /\ Bracketed(Host(x)) => SocketV6Parse(x).ok
  <2>1. CASE Bracketed(Host(x))
    BY <1>1, <2>1, SocketAccepts, SocketV6Accepts DEF ParseOk, SocketAddress, V6
  <2>2. CASE ~Bracketed(Host(x))
    BY <1>1, <2>2, SocketAccepts, SocketV4Accepts DEF ParseOk, SocketAddress, V4
  <2>. QED BY <2>1, <2>2
<1>. SUFFICES ASSUME SocketParse(r) = SocketParse(t) PROVE FALSE
  OBVIOUS
<1>2. SocketParse(r).ok /\ Of(r) = Of(t)
  BY <1>1
<1>3. SocketV6Parse(t).ok /\ SocketV6Parse(r).ok
  BY <1>1, <1>2
<1>. QED BY <1>3, SocketV6Removed

LEMMA MarksCount == ASSUME TextInv PROVE EveryMarkCounts
<1>. SUFFICES ASSUME form # "none" PROVE EveryMarkCounts
  BY DEF EveryMarkCounts
<1>1. text \in Seq(Tokens) /\ DOMAIN text = 1..Len(text) /\ Len(text) \in Nat
  BY TextTypes DEF TextInv
<1>. DEFINE host == {p \in CutOff(text) : p < LastColon(text)}
<1>2. ReadsAll(Ipv6Parse, text, CutOff(text))
  <2>. SUFFICES ASSUME Ipv6Parse(text).ok, NEW p \in DOMAIN text, p \notin CutOff(text),
                       text[p] \notin Numerals, IsText(RemoveAt(text, p))
                PROVE  Ipv6Parse(RemoveAt(text, p)) # Ipv6Parse(text)
    BY DEF ReadsAll
  <2>1. ~Ipv6Parse(RemoveAt(text, p)).ok
    BY <1>1, Ipv6ParseRemoved
  <2>. QED BY <2>1
<1>3. ASSUME NEW p \in DOMAIN text, p \notin host, Splits(text)
      PROVE  p \in CutOff(text) => p >= LastColon(text)
  <2>1. LastColon(text) \in Int
    BY <1>1, <1>3, HostAndPort
  <2>. QED BY <1>1, <1>3, <2>1
<1>. HIDE DEF host
<1>4. ReadsAll(SocketV6Parse, text, host)
  <2>. SUFFICES ASSUME SocketV6Parse(text).ok, NEW p \in DOMAIN text, p \notin host,
                       text[p] \notin Numerals, IsText(RemoveAt(text, p))
                PROVE  SocketV6Parse(RemoveAt(text, p)) # SocketV6Parse(text)
    BY DEF ReadsAll
  <2>1. Splits(text)
    BY SocketV6Accepts
  <2>2. ~SocketV6Parse(RemoveAt(text, p)).ok
    BY <1>1, <1>3, <2>1, SocketV6Removed
  <2>. QED BY <2>2
<1>5. Bracketed(Host(text)) => ReadsAll(SocketParse, text, host)
  <2>. SUFFICES ASSUME Bracketed(Host(text)), SocketParse(text).ok, NEW p \in DOMAIN text,
                       p \notin host, text[p] \notin Numerals, IsText(RemoveAt(text, p))
                PROVE  SocketParse(RemoveAt(text, p)) # SocketParse(text)
    BY DEF ReadsAll
  <2>1. Splits(text)
    BY SocketAccepts
  <2>. QED BY <1>1, <1>3, <2>1, SocketRemoved
<1>. QED BY <1>2, <1>4, <1>5 DEF EveryMarkCounts, host
-----------------------------------------------------------------------------
(* What only a rest behind an octet makes ambiguous. *)

\* An IPv6 address has a colon.
LEMMA Ipv6HasColon ==
  ASSUME NEW t \in Seq(Tokens), InetPton(t).ok
  PROVE  \E p \in 1..Len(t) : t[p] = ":"
<1>1. CASE t # <<>> /\ Len(List(t)) = N
  <2>. DEFINE n == Len(Fields(t, ":"))
  <2>1. /\ n \in Nat \ {0}
        /\ Len(List(t)) = n - 1 + (IF IsSegment(Fields(t, ":")[n]) THEN 1 ELSE 2)
    BY <1>1, ListLength
  <2>. HIDE DEF n
  <2>2. n > 1
    BY <1>1, <2>1, SegmentsAssumption
  <2>3. PICK m \in Nat \ {0} : \E e : Cut(t, ":", m, e)
    BY CutExists
  <2>4. PICK e : Cut(t, ":", m, e)
    BY <2>3
  <2>5. n = m
    BY <2>4, FieldCount DEF n
  <2>6. 2 \in 2..m
    BY <2>2, <2>5
  <2>7. e[2] \in 1..Len(t)
    BY <2>4, <2>6, CutInside
  <2>8. t[e[2]] = ":"
    BY <2>4, <2>6, <2>7 DEF Cut
  <2>. QED BY <2>7, <2>8
<1>2. ASSUME NEW p, Gaps(t) = {p} PROVE \E q \in 1..Len(t) : t[q] = ":"
  <2>1. p \in Gaps(t)
    BY <1>2
  <2>2. p \in 1..Len(t) - 1 /\ t[p] = ":" /\ Len(t) \in Nat
    BY <2>1, Sides
  <2>. QED BY <2>2
<1>. QED BY <1>1, <1>2, Ipv6Cases

\* A text that both families read has a rest behind an octet.
LEMMA BothLeaveRest ==
  ASSUME NEW t \in Seq(Tokens), Ipv4Parse(t).ok, Ipv6Parse(t).ok
  PROVE  LeftBehind(t) # {}
<1>. SUFFICES ASSUME LeftBehind(t) = {} PROVE FALSE
  OBVIOUS
<1>1. PICK p \in 1..Len(t) : t[p] = ":"
  <2>. DEFINE c == CString(t)
  <2>1. IsBeforeNul(c, t) /\ InetPton(c).ok
    BY CStringOf DEF Ipv6Parse
  <2>. HIDE DEF c
  <2>2. PICK q \in 1..Len(c) : c[q] = ":"
    BY <2>1, Ipv6HasColon DEF IsBeforeNul
  <2>3. t[q] = ":" /\ q \in 1..Len(t)
    BY <2>1, <2>2, TextTypes DEF IsBeforeNul
  <2>. QED BY <2>3
<1>2. t[p] \notin Numerals
  BY <1>1, ColonIsNoNumeral
<1>3. p \notin LeftBehind(t)
  OBVIOUS
<1>4. t[p] = "."
  BY <1>2, <1>3, DotOrBehind
<1>. QED BY <1>1, <1>4

LEMMA WholeHostIsV6 == ASSUME TextInv, LeftBehind(text) = {} PROVE V6HostIsV6
<1>. SUFFICES ASSUME form # "none", Ipv6Parse(text).ok
              PROVE  Resolve([host |-> text, port |-> port])
                       = SocketAddress(V6(Ipv6Parse(text).value), port)
  BY DEF V6HostIsV6
<1>1. text \in Seq(Tokens)
  BY DEF TextInv
<1>2. ~Ipv4Parse(text).ok
  BY <1>1, BothLeaveRest
<1>3. Literal(text, TRUE) = ParseOk(V6(Ipv6Parse(text).value))
  BY <1>2 DEF Literal
<1>. DEFINE na == [host |-> text, port |-> port]
            v == V6(Ipv6Parse(text).value)
<1>4. na.host = text /\ na.port = port
  OBVIOUS
<1>5. ParseOk(v).ok /\ ParseOk(v).value = v
  BY DEF ParseOk
<1>. HIDE DEF na, v
<1>6. Resolve(na) = SocketAddress(v, port)
  BY <1>3, <1>4, <1>5 DEF Resolve, v
<1>. QED BY <1>6 DEF na, v
-----------------------------------------------------------------------------
(* What is accepted is an address. *)

LEMMA SegmentIsWord ==
  ASSUME NEW f, IsSegment(f)
  PROVE  Hex[f[1]] \in 0..MaxWord
<1>1. f[1] \in DOMAIN Hex
  BY DEF IsSegment
<1>2. Hex \in [DOMAIN Hex -> 0..MaxWord]
  BY NumeralAssumption, Zenon
<1>. QED BY <1>1, <1>2

LEMMA FieldIsOctet ==
  ASSUME NEW f \in Seq(Tokens), StartsWithNumber(f, 255)
  PROVE  NumberIn(f) \in 0..255
<1>1. f[1] \in DOMAIN Dec /\ Dec[f[1]] <= 255 /\ NumberIn(f) = Dec[f[1]]
  BY FirstToken
<1>2. Dec \in [DOMAIN Dec -> Nat]
  BY NumeralAssumption, Zenon
<1>. DEFINE d == Dec[f[1]]
<1>3. d \in Nat /\ d <= 255 /\ NumberIn(f) = d
  BY <1>1, <1>2
<1>. HIDE DEF d
<1>4. d \in 0..255
  BY <1>3
<1>. QED BY <1>3, <1>4

LEMMA TwoOctets ==
  ASSUME NEW x \in 0..255, NEW y \in 0..255
  PROVE  256*x + y \in 0..MaxWord
<1>1. 256*x + y \in Int /\ 0 <= 256*x + y /\ 256*x + y <= 256*255 + 255
  OBVIOUS
<1>. DEFINE z == 256*x + y
<1>2. z \in Int /\ 0 <= z /\ z <= 256*256 - 1
  BY <1>1
<1>. HIDE DEF z
<1>3. z <= MaxWord
  BY <1>2 DEF MaxWord
<1>4. MaxWord \in Int
  BY DEF MaxWord
<1>5. z \in 0..MaxWord
  BY <1>2, <1>3, <1>4
<1>. QED BY <1>5 DEF z

LEMMA OneOf ==
  ASSUME NEW S, NEW x \in S
  PROVE  <<x>> \in Seq(S)
OBVIOUS

LEMMA QuadIsWords ==
  ASSUME NEW f \in Seq(Tokens), IsQuad(f)
  PROVE  Quad(f) \in Seq(0..MaxWord)
<1>. DEFINE o(k) == Fields(f, ".")[k]
            v(k) == NumberIn(o(k))
<1>1. Len(Fields(f, ".")) = 4 /\ \A k \in 1..4 : StartsWithNumber(o(k), 255)
  BY DEF IsQuad
<1>2. \A k \in 1..4 : o(k) \in Seq(Tokens)
  BY <1>1, FieldsAre
<1>. HIDE DEF o
<1>3. \A k \in 1..4 : v(k) \in 0..255
  BY <1>1, <1>2, FieldIsOctet
<1>4. Quad(f) = <<256*v(1) + v(2), 256*v(3) + v(4)>>
  BY DEF Quad, o
<1>. HIDE DEF v
<1>5. v(1) \in 0..255 /\ v(2) \in 0..255 /\ v(3) \in 0..255 /\ v(4) \in 0..255
  BY <1>3
<1>6. 256*v(1) + v(2) \in 0..MaxWord /\ 256*v(3) + v(4) \in 0..MaxWord
  BY <1>5, TwoOctets
<1>. QED BY <1>4, <1>6

\* The segments of a list.
LEMMA ListIsWords ==
  ASSUME NEW t \in Seq(Tokens), NEW last \in BOOLEAN, IsList(t, last)
  PROVE  List(t) \in Seq(0..MaxWord)
<1>1. CASE t = <<>>
  BY <1>1 DEF List
<1>2. CASE t # <<>>
  <2>. DEFINE n == Len(Fields(t, ":"))
              F(k) == Fields(t, ":")[k]
              a == [k \in 1..n - 1 |-> Hex[F(k)[1]]]
              b == IF IsSegment(F(n)) THEN <<Hex[F(n)[1]]>> ELSE Quad(F(n))
              W == 0..MaxWord
  <2>1. n \in Nat \ {0} /\ DOMAIN Fields(t, ":") = 1..n /\ \A k \in 1..n : F(k) \in Seq(Tokens)
    BY FieldsAre
  <2>2. \A k \in 1..n : IsSegment(F(k)) \/ (k = n /\ IsQuad(F(k)))
    BY <1>2, <2>1 DEF IsList
  <2>3. List(t) = a \o b
    BY <1>2 DEF List
  <2>. HIDE DEF n, F
  <2>4. n - 1 \in Nat /\ n \in 1..n /\ \A k \in 1..n - 1 : k \in 1..n /\ k # n
    BY <2>1
  <2>5. \A k \in 1..n - 1 : Hex[F(k)[1]] \in W
    BY <2>2, <2>4, SegmentIsWord
  <2>6. b \in Seq(W)
    <3>1. CASE IsSegment(F(n))
      <4>1. Hex[F(n)[1]] \in W
        BY <3>1, SegmentIsWord
      <4>. HIDE DEF W
      <4>2. b = <<Hex[F(n)[1]]>>
        BY <3>1
      <4>3. <<Hex[F(n)[1]]>> \in Seq(W)
        BY <4>1, OneOf
      <4>. HIDE DEF b
      <4>. QED BY <4>2, <4>3
    <3>2. CASE ~IsSegment(F(n))
      <4>1. IsQuad(F(n)) /\ F(n) \in Seq(Tokens) /\ b = Quad(F(n))
        BY <2>1, <2>2, <2>4, <3>2
      <4>. QED BY <4>1, QuadIsWords
    <3>. QED BY <3>1, <3>2
  <2>7. a \in Seq(W)
    <3>. DEFINE m == n - 1
    <3>1. m \in Nat
      BY <2>4
    <3>. HIDE DEF m, W
    <3>2. a \in [1..m -> W]
      BY <2>5 DEF m
    <3>. QED BY <3>1, <3>2, FunctionIsSeq
  <2>. HIDE DEF a, b, W
  <2>8. a \o b \in Seq(W)
    BY <2>6, <2>7, Joined
  <2>. QED BY <2>3, <2>8 DEF W
<1>. QED BY <1>1, <1>2

IsV6Octets(o) == o \in [1..2*N -> 0..255]

LEMMA WordsAreOctets ==
  ASSUME NEW s \in Seq(0..MaxWord), Len(s) = N
  PROVE  IsV6Octets(fromSegments(s))
<1>. USE SegmentsAssumption
<1>1. \A k \in 1..N : s[k] \in 0..MaxWord
  BY ElementOfSeq
<1>2. ASSUME NEW p \in 1..2*N
      PROVE  Stored(byteswap(Word16(s[(p + 1) \div 2])))[2 - (p % 2)] \in 0..255
  <2>. DEFINE w == s[(p + 1) \div 2]
              j == 2 - (p % 2)
  <2>1. (p + 1) \div 2 \in 1..N /\ j \in {1, 2}
    OBVIOUS
  <2>2. w \in 0..MaxWord
    BY <1>1, <2>1
  <2>. HIDE DEF w, j
  <2>3. Stored(byteswap(Word16(w))) = <<w \div 256, w % 256>>
    BY TwiceReversed DEF Stored, byteswap, Word16
  <2>4. w \div 256 \in 0..255 /\ w % 256 \in 0..255
    BY <2>2, WordParts
  <2>5. <<w \div 256, w % 256>>[j] \in 0..255
    BY <2>1, <2>4
  <2>. QED BY <2>3, <2>5 DEF w, j
<1>. QED BY <1>2 DEF IsV6Octets, fromSegments

\* The octets that Ipv4Address::parse and Ipv6Address::parse hand out.
LEMMA Ipv4Value ==
  ASSUME NEW t \in Seq(Tokens), Ipv4Parse(t).ok
  PROVE  Ipv4Parse(t).value \in [1..4 -> 0..255]
<1>. DEFINE v(k) == NumberIn(Fields(t, ".")[k])
<1>1. Len(Fields(t, ".")) = 4 /\ \A k \in 1..4 : StartsWithNumber(Fields(t, ".")[k], 255)
  BY Ipv4Accepts
<1>2. \A k \in 1..4 : Fields(t, ".")[k] \in Seq(Tokens)
  BY <1>1, FieldsAre
<1>3. \A k \in 1..4 : v(k) \in 0..255
  BY <1>1, <1>2, FieldIsOctet
<1>4. Ipv4Parse(t) = ParseOk([k \in 1..4 |-> v(k)])
  BY Ipv4Accepts
<1>. HIDE DEF v
<1>5. Ipv4Parse(t).value = [k \in 1..4 |-> v(k)]
  BY <1>4 DEF ParseOk
<1>. QED BY <1>3, <1>5

LEMMA PtonValue ==
  ASSUME NEW t \in Seq(Tokens), InetPton(t).ok
  PROVE  IsV6Octets(InetPton(t).value)
<1>1. ASSUME NEW s \in Seq(0..MaxWord), Len(s) = N, InetPton(t) = ParseOk(fromSegments(s))
      PROVE  IsV6Octets(InetPton(t).value)
  BY <1>1, WordsAreOctets DEF ParseOk
<1>2. CASE Gaps(t) = {}
  <2>1. ~(\E p : Gaps(t) = {p})
    BY <1>2
  <2>2. IsList(t, TRUE) /\ Len(List(t)) = N /\ InetPton(t) = ParseOk(fromSegments(List(t)))
    BY <2>1, Ipv6Cases
  <2>3. List(t) \in Seq(0..MaxWord)
    BY <2>2, ListIsWords
  <2>. QED BY <1>1, <2>2, <2>3
<1>3. ASSUME NEW p, Gaps(t) = {p} PROVE IsV6Octets(InetPton(t).value)
  <2>. DEFINE a == List(Left(t, p))
              b == List(Right(t, p))
              z == N - Len(a) - Len(b)
              zeros == [k \in 1..z |-> 0]
              W == 0..MaxWord
  <2>1. ~ParseErr("Unspecified").ok
    BY DEF ParseErr
  <2>2. InetPton(t) =
          IF IsList(Left(t, p), FALSE) /\ IsList(Right(t, p), TRUE) /\ ~(z < 1)
            THEN ParseOk(fromSegments(a \o zeros \o b)) ELSE ParseErr("Unspecified")
    BY <1>3, Ipv6Accepts
  <2>3. p \in Gaps(t)
    BY <1>3
  <2>4. Left(t, p) \in Seq(Tokens) /\ Right(t, p) \in Seq(Tokens)
    BY <2>3, Sides
  <2>. HIDE DEF a, b, z, zeros
  <2>5. /\ IsList(Left(t, p), FALSE) /\ IsList(Right(t, p), TRUE) /\ ~(z < 1)
        /\ InetPton(t) = ParseOk(fromSegments(a \o zeros \o b))
    BY <2>1, <2>2, Zenon
  <2>6. a \in Seq(W) /\ b \in Seq(W)
    BY <2>4, <2>5, ListIsWords DEF a, b
  <2>7. Len(a) \in Nat /\ Len(b) \in Nat
    BY <2>6, LenProperties
  <2>8. z \in Nat /\ Len(a) + z + Len(b) = N
    BY <2>5, <2>7, SegmentsAssumption DEF z
  <2>9. 0 \in W
    BY DEF MaxWord
  <2>. HIDE DEF W
  <2>10. zeros \in Seq(W) /\ Len(zeros) = z
    <3>1. zeros \in [1..z -> W]
      BY <2>9 DEF zeros
    <3>. QED BY <2>8, <3>1, FunctionIsSeq
  <2>11. a \o zeros \in Seq(W) /\ Len(a \o zeros) = Len(a) + z
    BY <2>6, <2>10, Joined
  <2>. DEFINE c == a \o zeros
              s == c \o b
  <2>. HIDE DEF c
  <2>12. s \in Seq(W) /\ Len(s) = Len(c) + Len(b)
    BY <2>6, <2>11, Joined DEF c
  <2>. HIDE DEF s
  <2>13. Len(s) = N
    BY <2>8, <2>11, <2>12 DEF c
  <2>14. InetPton(t) = ParseOk(fromSegments(s))
    BY <2>5 DEF s, c
  <2>. QED BY <1>1, <2>12, <2>13, <2>14 DEF W
<1>. QED BY <1>2, <1>3, Ipv6Cases

LEMMA Ipv6Value ==
  ASSUME NEW t \in Seq(Tokens), Ipv6Parse(t).ok
  PROVE  IsV6Octets(Ipv6Parse(t).value)
BY CStringOf, PtonValue DEF Ipv6Parse, IsBeforeNul

\* A SocketAddress with the octets and the port its classes can hold, that a
\* sockaddr gives back.
IsSocketAddress(a) ==
  /\ a.port \in 0..MaxWord
  /\ \/ a.family = "V4" /\ a.octets \in [1..4 -> 0..255]
     \/ a.family = "V6" /\ IsV6Octets(a.octets)
  /\ fromSockAddr(toSockAddr([family |-> a.family, octets |-> a.octets], a.port)) = a

\* Whatever SocketAddress::parse, a parse of one family or a literal host
\* makes of a text is a socket address that survives the kernel.
AcceptedSurvives ==
  /\ SocketParse(text).ok   => IsSocketAddress(SocketParse(text).value)
  /\ SocketV4Parse(text).ok => IsSocketAddress(SocketV4Parse(text).value)
  /\ SocketV6Parse(text).ok => IsSocketAddress(SocketV6Parse(text).value)
  /\ NetworkParse(text).ok  =>
       LET na == NetworkParse(text).value IN
       Literal(na.host, TRUE).ok => IsSocketAddress(Resolve(na))

LEMMA MadeSocketAddress ==
  ASSUME NEW addr, NEW p \in 0..MaxWord,
         \/ \E o \in [1..4 -> 0..255] : addr = V4(o)
         \/ \E o : IsV6Octets(o) /\ addr = V6(o)
  PROVE  IsSocketAddress(SocketAddress(addr, p))
<1>. DEFINE a == SocketAddress(addr, p)
<1>1. a.family = addr.family /\ a.octets = addr.octets /\ a.port = p
  BY DEF SocketAddress
<1>2. \/ addr.family = "V4" /\ addr.octets \in [1..4 -> 0..255]
      \/ addr.family = "V6" /\ IsV6Octets(addr.octets)
  BY DEF V4, V6
<1>3. [family |-> addr.family, octets |-> addr.octets] = addr
  BY DEF V4, V6
<1>4. InMemory(addr, p)
  BY <1>2, MemoryKeeps
<1>5. fromSockAddr(toSockAddr(addr, p)) = a
  BY <1>4 DEF InMemory
<1>. HIDE DEF a
<1>6. fromSockAddr(toSockAddr([family |-> a.family, octets |-> a.octets], a.port)) = a
  BY <1>1, <1>3, <1>5
<1>7. IsSocketAddress(a)
  BY <1>1, <1>2, <1>6 DEF IsSocketAddress
<1>. QED BY <1>7 DEF a

\* The number of a port fits in its 16 bits.
LEMMA PortValue ==
  ASSUME NEW f \in Seq(Tokens), IsPort(f)
  PROVE  NumberIn(f) \in 0..MaxWord
<1>. DEFINE d == Dec[f[1]]
<1>1. f[1] \in DOMAIN Dec /\ d <= MaxWord /\ NumberIn(f) = d
  BY FirstToken DEF IsPort
<1>2. Dec \in [DOMAIN Dec -> Nat]
  BY NumeralAssumption, Zenon
<1>3. d \in Nat
  BY <1>1, <1>2
<1>4. MaxWord \in Int
  BY DEF MaxWord
<1>. HIDE DEF d
<1>5. d \in 0..MaxWord
  BY <1>1, <1>3, <1>4
<1>. QED BY <1>1, <1>5

LEMMA AllSurvive == ASSUME TextInv PROVE AcceptedSurvives
<1>. DEFINE t == text
            h == Host(t)
            p == NumberIn(Port(t))
            u == Unbracketed(h)
            A == SocketAddress(V4(Ipv4Parse(h).value), p)
            B == SocketAddress(V6(Ipv6Parse(u).value), p)
<1>1. t \in Seq(Tokens)
  BY DEF TextInv
<1>2. ASSUME Splits(t), IsPort(Port(t)) PROVE h \in Seq(Tokens) /\ p \in 0..MaxWord
  <2>1. h \in Seq(Tokens) /\ Port(t) \in Seq(Tokens)
    BY <1>1, <1>2, HostAndPort
  <2>. QED BY <1>2, <2>1, PortValue
<1>3. ASSUME Splits(t), IsPort(Port(t)), Ipv4Parse(h).ok PROVE IsSocketAddress(A)
  <2>1. h \in Seq(Tokens) /\ p \in 0..MaxWord
    BY <1>2, <1>3
  <2>. HIDE DEF h, p
  <2>2. Ipv4Parse(h).value \in [1..4 -> 0..255]
    BY <1>3, <2>1, Ipv4Value
  <2>. QED BY <2>1, <2>2, MadeSocketAddress
<1>4. ASSUME Splits(t), IsPort(Port(t)), NEW x \in Seq(Tokens), Ipv6Parse(x).ok
      PROVE  IsSocketAddress(SocketAddress(V6(Ipv6Parse(x).value), p))
  <2>1. p \in 0..MaxWord
    BY <1>2, <1>4
  <2>. HIDE DEF p
  <2>2. IsV6Octets(Ipv6Parse(x).value)
    BY <1>4, Ipv6Value
  <2>. QED BY <2>1, <2>2, MadeSocketAddress
<1>5. ASSUME Splits(t), Bracketed(h) PROVE u \in Seq(Tokens)
  <2>1. h \in Seq(Tokens)
    BY <1>1, <1>5, HostAndPort
  <2>. HIDE DEF h
  <2>. QED BY <1>5, <2>1, BetweenBrackets
<1>6. ASSUME Splits(t), IsPort(Port(t)), Bracketed(h), Ipv6Parse(u).ok PROVE IsSocketAddress(B)
  BY <1>4, <1>5, <1>6
<1>7. \A a : ParseOk(a).ok /\ ParseOk(a).value = a
  BY DEF ParseOk
<1>. HIDE DEF h, p, u, A, B
<1>8. SocketV4Parse(t).ok => IsSocketAddress(SocketV4Parse(t).value)
  BY <1>3, <1>7, SocketV4Accepts DEF A, h, p
<1>9. SocketV6Parse(t).ok => IsSocketAddress(SocketV6Parse(t).value)
  BY <1>6, <1>7, SocketV6Accepts DEF B, h, p, u
<1>10. SocketParse(t).ok => IsSocketAddress(SocketParse(t).value)
  BY <1>3, <1>6, <1>7, SocketAccepts DEF A, B, h, p, u
<1>11. NetworkParse(t).ok =>
         LET na == NetworkParse(t).value IN
         Literal(na.host, TRUE).ok => IsSocketAddress(Resolve(na))
  <2>. DEFINE na == [host |-> h, port |-> p]
  <2>. HAVE NetworkParse(t).ok
  <2>1. Splits(t) /\ IsPort(Port(t)) /\ NetworkParse(t).value = na
    BY DEF NetworkParse, ParseOk, ParseErr, h, p
  <2>2. na.host = h /\ na.port = p
    OBVIOUS
  <2>3. h \in Seq(Tokens)
    BY <1>2, <2>1
  <2>. HIDE DEF na
  <2>4. CASE Ipv4Parse(h).ok
    <3>. DEFINE v == V4(Ipv4Parse(h).value)
    <3>1. Literal(h, TRUE) = ParseOk(v) /\ A = SocketAddress(v, p)
      BY <2>4 DEF Literal, A
    <3>. HIDE DEF v
    <3>2. Resolve(na) = A
      BY <1>7, <2>2, <3>1 DEF Resolve
    <3>3. IsSocketAddress(Resolve(na))
      BY <1>3, <2>1, <2>4, <3>2
    <3>. QED BY <2>1, <3>3
  <2>5. CASE ~Ipv4Parse(h).ok /\ Ipv6Parse(h).ok
    <3>. DEFINE v == V6(Ipv6Parse(h).value)
    <3>1. Literal(h, TRUE) = ParseOk(v)
      BY <2>5 DEF Literal
    <3>2. IsSocketAddress(SocketAddress(v, p))
      BY <1>4, <2>1, <2>3, <2>5
    <3>. HIDE DEF v
    <3>3. IsSocketAddress(Resolve(na))
      BY <1>7, <2>2, <3>1, <3>2 DEF Resolve
    <3>. QED BY <2>1, <3>3
  <2>6. CASE ~Ipv4Parse(h).ok /\ ~Ipv6Parse(h).ok
    BY <2>1, <2>2, <2>6 DEF Literal, ParseErr
  <2>. QED BY <2>4, <2>5, <2>6
<1>. QED BY <1>8, <1>9, <1>10, <1>11 DEF AcceptedSurvives
-----------------------------------------------------------------------------
(* The theorems. *)

\* What every state of the program that writes, edits and reads satisfies.
THEOREM TextInvariant == SpecText => []TextInv
<1>1. InitText => TextInv
  BY TextInitially
<1>2. TextInv /\ [NextText]_varsText => TextInv'
  BY TextKept
<1>. QED BY <1>1, <1>2, PTL DEF SpecText

\* What is written is read again as the address it was written from, by every
\* class that wrote it but SocketAddressV6, and by SocketAddressV6 when
\* SocketAddress wrote it; and it lies in memory as it is: toString, parse,
\* toSockAddr and fromSockAddr.
THEOREM WhatIsWrittenIsTheAddress == SpecText => []ReadsBack
BY TextInvariant, AddressReadsBack, PTL

\* A host that an address wrote is never asked of the resolver; a host in the
\* brackets of a SocketAddress is not spoken of.
THEOREM WhatIsWrittenIsLiteral == SpecText => []LiteralHosts
BY TextInvariant, AddressIsLiteral, PTL

\* SocketAddress::parse takes what the parsers of the two families take, as
\* they take it, and nothing else, whatever the text.
THEOREM ParsersAlwaysAgree == SpecText => []ParsersAgree
BY TextInvariant, AllAgree, PTL

\* Whatever is written and edited, no mark or character of a text that is taken
\* for an IPv6 address can be taken out without another answer of its parse, but
\* for what c_str() cuts off behind a character 0.
THEOREM MarksAreRead == SpecText => []EveryMarkCounts
BY TextInvariant, MarksCount, PTL

\* The loop of toString finds the first longest run, of every address.
THEOREM WrittenRunIsFound == SpecText => []FirstLongestRun
<1>1. TextInv => FirstLongestRun
  BY ScanFinds DEF TextInv, WriteInv
<1>. QED BY <1>1, TextInvariant, PTL

\* An IPv6 host resolves to itself unless something is left behind one of the
\* octets of its IPv4 tail: NetworkAddress::resolve tries IPv4 first, and
\* confuses no other text.
THEOREM OnlyARestConfuses == SpecText => [](LeftBehind(text) = {} => V6HostIsV6)
<1>1. TextInv => (LeftBehind(text) = {} => V6HostIsV6)
  BY WholeHostIsV6
<1>. QED BY <1>1, TextInvariant, PTL

\* What the parsers make of a text, written or edited, is an address: octets of
\* eight bits and as many as the family has, a port of sixteen, and it comes
\* back from a sockaddr as it is.
THEOREM AcceptedAddressesSurvive == SpecText => []AcceptedSurvives
BY TextInvariant, AllSurvive, PTL
=============================================================================
