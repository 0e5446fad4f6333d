--------------------------- MODULE Ipv6TextProofs ---------------------------
(***************************************************************************)
(* Texts of IPv4 and IPv6 addresses, proved for every text and for every   *)
(* address of any number of segments: what the fields of a text are, what  *)
(* the parsers accept, the search of Ipv6Address::toString for the longest *)
(* run of zero segments, and that parse reads what toString writes.        *)
(***************************************************************************)
EXTENDS Ipv6Text, SequenceTheorems, FunctionTheorems, FiniteSetTheorems, TLAPS

-----------------------------------------------------------------------------
(* Positions and their ranks. *)

\* A set of numbers that is not empty has a least one ...
LEMMA LeastOf ==
  ASSUME NEW S, S \subseteq Nat, S # {}
  PROVE  \E m \in S : \A n \in S : m <= n
<1>1. PICK m \in S : \A n \in S : ~(<<n, m>> \in OpToRel(<, Nat))
  BY NatLessThanWellFounded, WFMin, Zenon
<1>2. \A n \in S : ~(n < m)
  BY <1>1 DEF OpToRel
<1>. QED BY <1>2

\* ... and a greatest one if it has a bound.
LEMMA GreatestOf ==
  ASSUME NEW S, NEW n \in Nat, S \subseteq 0..n, S # {}
  PROVE  \E m \in S : \A k \in S : k <= m
<1> DEFINE T == {n - k : k \in S}
<1>1. T \subseteq Nat /\ T # {}
  <2>1. \A k \in S : n - k \in Nat
    OBVIOUS
  <2>2. PICK k \in S : TRUE
    OBVIOUS
  <2>3. n - k \in T
    BY <2>2
  <2>. QED BY <2>1, <2>3
<1>. HIDE DEF T
<1>2. PICK d \in T : \A c \in T : d <= c
  BY <1>1, LeastOf
<1>3. PICK m \in S : d = n - m
  BY <1>2 DEF T
<1>4. \A k \in S : n - m <= n - k
  BY <1>2, <1>3 DEF T
<1>. QED BY <1>3, <1>4

Rising(e, m) == \A x, j \in 1..m : x < j => e[x] < e[j]

\* e lists the elements of a set in their order.
Lists(e, m, at) ==
  /\ e \in [1..m -> Int] /\ Rising(e, m)
  /\ at = {e[x] : x \in 1..m}

\* A rising list has as many elements as it is long.
LEMMA RisingCounts ==
  ASSUME NEW m \in Nat, NEW e, NEW at, Lists(e, m, at)
  PROVE  IsFiniteSet(at) /\ Cardinality(at) = m
<1>1. e \in [1..m -> at]
  BY DEF Lists
<1>2. \A x, j \in 1..m : e[x] = e[j] => x = j
  <2> SUFFICES ASSUME NEW x \in 1..m, NEW j \in 1..m, e[x] = e[j], x # j PROVE FALSE
    OBVIOUS
  <2>1. x < j \/ j < x
    OBVIOUS
  <2>2. e[x] \in Int /\ e[j] \in Int /\ (e[x] < e[j] \/ e[j] < e[x])
    BY <2>1 DEF Lists, Rising
  <2>. QED BY <2>2
<1>3. e \in Injection(1..m, at)
  BY <1>1, <1>2, Fun_IsInj
<1>4. e \in Surjection(1..m, at)
  <2>1. \A t \in at : \E s \in 1..m : e[s] = t
    BY DEF Lists
  <2>. QED BY <1>1, <2>1, Fun_IsSurj
<1>5. ExistsBijection(1..m, at)
  BY <1>3, <1>4 DEF ExistsBijection, Bijection
<1>. QED BY <1>5, FS_CountingElements, FS_NatBijection

\* Its k-th element is the one of rank k.
LEMMA RankOf ==
  ASSUME NEW m \in Nat, NEW e, NEW at, Lists(e, m, at), NEW k \in 1..m
  PROVE  Nth(at, k) = e[k]
<1>1. ASSUME NEW j \in 1..m PROVE Cardinality({q \in at : q <= e[j]}) = j
  <2> DEFINE f == [x \in 1..j |-> e[x]]
  <2>1. \A x \in 1..m : e[x] <= e[j] <=> x <= j
    <3> SUFFICES ASSUME NEW x \in 1..m PROVE e[x] <= e[j] <=> x <= j
      OBVIOUS
    <3>1. /\ e[x] \in Int /\ e[j] \in Int
          /\ x < j => e[x] < e[j]
          /\ j < x => e[j] < e[x]
      BY DEF Lists, Rising
    <3>2. x < j \/ x = j \/ j < x
      OBVIOUS
    <3>. QED BY <3>1, <3>2
  <2>2. {q \in at : q <= e[j]} = {e[x] : x \in 1..j}
    BY <2>1 DEF Lists
  <2>3. {e[x] : x \in 1..j} = {f[x] : x \in 1..j}
    OBVIOUS
  <2>4. f \in [1..j -> Int] /\ Rising(f, j)
    BY DEF Lists, Rising
  <2>5. Lists(f, j, {e[x] : x \in 1..j})
    BY <2>3, <2>4 DEF Lists
  <2>6. Cardinality({e[x] : x \in 1..j}) = j
    BY <2>5, RisingCounts, j \in Nat
  <2>. QED BY <2>2, <2>6
<1>2. e[k] \in at
  BY DEF Lists
<1>3. ASSUME NEW p \in at, Cardinality({q \in at : q <= p}) = k PROVE p = e[k]
  <2>1. PICK j \in 1..m : p = e[j]
    BY DEF Lists
  <2>. QED BY <1>1, <1>3, <2>1
<1>. QED BY <1>1, <1>2, <1>3 DEF Nth

\* Every bounded set of numbers can be listed.
LEMMA Listable ==
  ASSUME NEW n \in Nat, NEW at \in SUBSET (0..n)
  PROVE  \E m \in Nat : \E e : Lists(e, m, at)
<1> DEFINE Can(S) == \E m \in Nat : \E e : Lists(e, m, S)
           Bad == {b \in Nat : \E S \in SUBSET (0..b) : ~Can(S)}
<1>1. Can({})
  <2>1. Lists([x \in 1..0 |-> 0], 0, {})
    BY DEF Lists, Rising
  <2>. QED BY <2>1
<1>2. ASSUME NEW b \in Nat, NEW S \in SUBSET (0..b), NEW c \in S,
             \A s \in S : s <= c, Can(S \ {c})
      PROVE  Can(S)
  <2>1. PICK m \in Nat : \E e : Lists(e, m, S \ {c})
    BY <1>2
  <2>2. PICK e : Lists(e, m, S \ {c})
    BY <2>1
  <2> DEFINE f == [x \in 1..m + 1 |-> IF x = m + 1 THEN c ELSE e[x]]
  <2>3. \A x \in 1..m : e[x] \in S /\ e[x] # c /\ e[x] < c
    BY <1>2, <2>2 DEF Lists
  <2>. c \in Int
    OBVIOUS
  <2>4. f \in [1..m + 1 -> Int]
    BY <2>2 DEF Lists
  <2>5. Rising(f, m + 1)
    BY <2>2, <2>3, <2>4 DEF Lists, Rising
  <2>6. S = {f[x] : x \in 1..m + 1}
    <3>1. \A x \in 1..m + 1 : f[x] \in S
      BY <2>3
    <3>2. ASSUME NEW s \in S PROVE \E x \in 1..m + 1 : f[x] = s
      <4>1. CASE s = c
        BY <4>1
      <4>2. CASE s # c
        <5>1. PICK x \in 1..m : s = e[x]
          BY <2>2, <4>2 DEF Lists
        <5>2. x \in 1..m + 1 /\ f[x] = s
          BY <5>1
        <5>. QED BY <5>2
      <4>. QED BY <4>1, <4>2
    <3>. QED BY <3>1, <3>2
  <2>7. Lists(f, m + 1, S)
    BY <2>4, <2>5, <2>6 DEF Lists
  <2>. QED BY <2>7
<1>. HIDE DEF Can
<1>3. Bad = {}
  <2> SUFFICES ASSUME Bad # {} PROVE FALSE
    OBVIOUS
  <2>1. PICK b \in Bad : \A c \in Bad : b <= c
    BY LeastOf
  <2>2. PICK S \in SUBSET (0..b) : ~Can(S)
    BY <2>1
  <2>3. S # {} /\ b \in Nat
    BY <1>1, <2>2
  <2>4. PICK c \in S : \A s \in S : s <= c
    BY <2>2, <2>3, GreatestOf
  <2>5. CASE c = 0
    <3>1. S \ {c} = {}
      BY <2>2, <2>4, <2>5
    <3>. QED BY <1>1, <1>2, <2>2, <2>3, <2>4, <3>1
  <2>6. CASE c # 0
    <3>1. c - 1 \in Nat /\ c - 1 < b /\ S \ {c} \in SUBSET (0..c - 1)
      BY <2>2, <2>4, <2>6
    <3>2. c - 1 \notin Bad
      BY <2>1, <3>1
    <3>3. Can(S \ {c})
      BY <3>1, <3>2
    <3>. QED BY <1>2, <2>2, <2>3, <2>4, <3>3
  <2>. QED BY <2>5, <2>6
<1>. QED BY <1>3 DEF Can

-----------------------------------------------------------------------------
(* Fields. *)

\* e lists where the n fields of a text end: a mark, or the edge of the text.
Cut(t, mark, n, e) ==
  /\ n \in Nat \ {0}
  /\ e \in [1..n + 1 -> 0..Len(t) + 1] /\ Rising(e, n + 1)
  /\ e[1] = 0 /\ e[n + 1] = Len(t) + 1
  /\ \A p \in 1..Len(t) : t[p] = mark <=> \E k \in 2..n : e[k] = p

Edges(t, mark) == {0, Len(t) + 1} \cup {p \in DOMAIN t : t[p] = mark}

LEMMA TextTypes ==
  ASSUME NEW t \in Seq(Tokens)
  PROVE  /\ Len(t) \in Nat /\ DOMAIN t = 1..Len(t)
         /\ \A p \in 1..Len(t) : t[p] \in Tokens
BY LenProperties, ElementOfSeq

\* Between two edges there is a place.
LEMMA CutInside ==
  ASSUME NEW t \in Seq(Tokens), NEW mark, NEW n, NEW e, Cut(t, mark, n, e),
         NEW k \in 2..n
  PROVE  e[k] \in 1..Len(t)
<1>1. e[k] \in Int /\ e[1] < e[k] /\ e[k] < e[n + 1]
  BY DEF Cut, Rising
<1>. QED BY <1>1, TextTypes DEF Cut

LEMMA CutLists ==
  ASSUME NEW t \in Seq(Tokens), NEW mark, NEW n, NEW e, Cut(t, mark, n, e)
  PROVE  Lists(e, n + 1, Edges(t, mark))
<1>1. e \in [1..n + 1 -> Int] /\ Rising(e, n + 1)
  BY TextTypes DEF Cut
<1>2. ASSUME NEW p \in Edges(t, mark) PROVE \E k \in 1..n + 1 : e[k] = p
  BY TextTypes DEF Edges, Cut
<1>3. ASSUME NEW k \in 1..n + 1 PROVE e[k] \in Edges(t, mark)
  <2>1. CASE k = 1 \/ k = n + 1
    BY <2>1 DEF Edges, Cut
  <2>2. CASE k \in 2..n
    <3>1. e[k] \in 1..Len(t)
      BY <2>2, CutInside
    <3>2. t[e[k]] = mark
      BY <2>2, <3>1 DEF Cut
    <3>. QED BY <3>1, <3>2, TextTypes DEF Edges
  <2>. QED BY <2>1, <2>2 DEF Cut
<1>. QED BY <1>1, <1>2, <1>3 DEF Lists

\* The fields of a text that is cut in this way.
LEMMA FieldsOf ==
  ASSUME NEW t \in Seq(Tokens), NEW mark, NEW n, NEW e, Cut(t, mark, n, e)
  PROVE  Fields(t, mark) = [k \in 1..n |-> SubSeq(t, e[k] + 1, e[k + 1] - 1)]
<1>1. n \in Nat /\ n + 1 \in Nat
  BY DEF Cut
<1>2. Cardinality(Edges(t, mark)) - 1 = n
  BY <1>1, CutLists, RisingCounts
<1>3. \A k \in 1..n + 1 : Nth(Edges(t, mark), k) = e[k]
  BY <1>1, CutLists, RankOf
<1>4. \A k \in 1..n : Nth(Edges(t, mark), k) = e[k] /\ Nth(Edges(t, mark), k + 1) = e[k + 1]
  BY <1>1, <1>3
<1>5. Fields(t, mark) =
        [k \in 1..Cardinality(Edges(t, mark)) - 1 |->
           SubSeq(t, Nth(Edges(t, mark), k) + 1, Nth(Edges(t, mark), k + 1) - 1)]
  BY DEF Fields, Edges
<1>. QED BY <1>2, <1>4, <1>5

\* How long the piece between two edges is.
LEMMA SpanLength ==
  ASSUME NEW x \in Int, NEW y \in Int, x < y
  PROVE  /\ (IF x + 1 <= y - 1 THEN (y - 1) - (x + 1) + 1 ELSE 0) = y - x - 1
         /\ \A p \in 1..y - x - 1 : p \in 1..(y - 1) - (x + 1) + 1 /\ (x + 1) + p - 1 = x + p
<1>1. (y - 1) - (x + 1) + 1 = y - x - 1
  OBVIOUS
<1>2. \A p \in Int : (x + 1) + p - 1 = x + p
  OBVIOUS
<1>3. ~(x + 1 <= y - 1) => y - x - 1 = 0
  OBVIOUS
<1>. QED BY <1>1, <1>2, <1>3

\* One field and what is in it.
LEMMA FieldAt ==
  ASSUME NEW t \in Seq(Tokens), NEW mark, NEW n, NEW e, Cut(t, mark, n, e),
         NEW k \in 1..n
  PROVE  /\ e[k] \in 0..Len(t) /\ e[k + 1] \in 1..Len(t) + 1 /\ e[k] < e[k + 1]
         /\ Fields(t, mark)[k] = SubSeq(t, e[k] + 1, e[k + 1] - 1)
         /\ Fields(t, mark)[k] \in Seq(Tokens)
         /\ Len(Fields(t, mark)[k]) = e[k + 1] - e[k] - 1
         /\ \A p \in 1..e[k + 1] - e[k] - 1 :
              Fields(t, mark)[k][p] = t[e[k] + p] /\ t[e[k] + p] # mark
<1>. DEFINE l == e[k] + 1
            r == e[k + 1] - 1
<1>1. k \in 1..n + 1 /\ k + 1 \in 1..n + 1 /\ n \in Nat /\ 1 \in 1..n + 1 /\ n + 1 \in 1..n + 1
  BY DEF Cut
<1>2. e[k] \in 0..Len(t) + 1 /\ e[k + 1] \in 0..Len(t) + 1 /\ e[k] < e[k + 1] /\ Len(t) \in Nat
  BY <1>1, TextTypes DEF Cut, Rising
<1>3. Fields(t, mark)[k] = SubSeq(t, l, r)
  <2>1. Fields(t, mark) = [j \in 1..n |-> SubSeq(t, e[j] + 1, e[j + 1] - 1)]
    BY FieldsOf
  <2>. QED BY <2>1
<1>4. \A p \in l..r : p \in 1..Len(t) /\ t[p] \in Tokens
  BY <1>2, TextTypes
<1>5. /\ SubSeq(t, l, r) \in Seq(Tokens)
      /\ Len(SubSeq(t, l, r)) = IF l <= r THEN r - l + 1 ELSE 0
      /\ \A p \in 1..r - l + 1 : SubSeq(t, l, r)[p] = t[l + p - 1]
  <2>1. l \in Int /\ r \in Int /\ \A p \in l..r : t[p] \in Tokens
    BY <1>2, <1>4
  <2>. HIDE DEF l, r
  <2>. QED BY <2>1, SubSeqProperties
<1>6. ASSUME NEW p \in 1..e[k + 1] - e[k] - 1 PROVE t[e[k] + p] # mark
  <2>1. e[k] + p \in 1..Len(t) /\ e[k] < e[k] + p /\ e[k] + p < e[k + 1]
    BY <1>2
  <2>2. SUFFICES ASSUME NEW j \in 2..n, e[j] = e[k] + p PROVE FALSE
    BY <2>1 DEF Cut
  <2>3. j \in 1..n + 1 /\ (j < k \/ j = k \/ j = k + 1 \/ k + 1 < j)
    BY <1>1
  <2>4. j < k => e[j] < e[k]
    BY <1>1, <2>3 DEF Cut, Rising
  <2>5. k + 1 < j => e[k + 1] < e[j]
    BY <1>1, <2>3 DEF Cut, Rising
  <2>. QED BY <1>2, <2>1, <2>2, <2>3, <2>4, <2>5
<1>7. /\ (IF l <= r THEN r - l + 1 ELSE 0) = e[k + 1] - e[k] - 1
      /\ \A p \in 1..e[k + 1] - e[k] - 1 : p \in 1..r - l + 1 /\ l + p - 1 = e[k] + p
  <2>1. e[k] \in Int /\ e[k + 1] \in Int /\ e[k] < e[k + 1]
    BY <1>2
  <2>. QED BY <2>1, SpanLength
<1>8. e[k] \in 0..Len(t) /\ e[k + 1] \in 1..Len(t) + 1
  BY <1>2
<1>. HIDE DEF l, r
<1>9. /\ Fields(t, mark)[k] \in Seq(Tokens)
      /\ Len(Fields(t, mark)[k]) = e[k + 1] - e[k] - 1
      /\ \A p \in 1..e[k + 1] - e[k] - 1 : Fields(t, mark)[k][p] = t[e[k] + p]
  BY <1>3, <1>5, <1>7
<1>. USE DEF l, r
<1>. QED BY <1>2, <1>3, <1>6, <1>8, <1>9

\* A field of one token.
LEMMA TokenField ==
  ASSUME NEW t \in Seq(Tokens), NEW mark, NEW n, NEW e, Cut(t, mark, n, e),
         NEW k \in 1..n
  PROVE  \A p \in Int : e[k] = p - 1 /\ e[k + 1] = p + 1 =>
           /\ Fields(t, mark)[k] \in Seq(Tokens)
           /\ Len(Fields(t, mark)[k]) = 1 /\ Fields(t, mark)[k][1] = t[p]
<1>1. /\ Fields(t, mark)[k] \in Seq(Tokens)
      /\ Len(Fields(t, mark)[k]) = e[k + 1] - e[k] - 1
      /\ \A q \in 1..e[k + 1] - e[k] - 1 : Fields(t, mark)[k][q] = t[e[k] + q]
  BY FieldAt
<1>2. SUFFICES ASSUME NEW p \in Int, e[k] = p - 1, e[k + 1] = p + 1
               PROVE  Len(Fields(t, mark)[k]) = 1 /\ Fields(t, mark)[k][1] = t[p]
  BY <1>1
<1>3. e[k + 1] - e[k] - 1 = 1 /\ e[k] + 1 = p
  BY <1>2
<1>. QED BY <1>1, <1>3

\* Every text is cut in one way.
LEMMA CutExists ==
  ASSUME NEW t \in Seq(Tokens), NEW mark
  PROVE  \E n \in Nat \ {0} : \E e : Cut(t, mark, n, e)
<1>. DEFINE E == Edges(t, mark)
            L == Len(t) + 1
<1>1. E \in SUBSET (0..L) /\ 0 \in E /\ L \in E /\ L \in Nat \ {0} /\ DOMAIN t = 1..Len(t)
      /\ \A p \in 1..Len(t) : p \in E <=> t[p] = mark
  BY TextTypes DEF Edges
<1>2. PICK m \in Nat : \E e : Lists(e, m, E)
  BY <1>1, Listable
<1>3. PICK e : Lists(e, m, E)
  BY <1>2
<1>. HIDE DEF E, L
<1>4. PICK a \in 1..m : e[a] = 0
  BY <1>1, <1>3 DEF Lists
<1>5. PICK b \in 1..m : e[b] = L
  BY <1>1, <1>3 DEF Lists
<1>6. \A x \in 1..m : e[x] \in 0..L
  BY <1>1, <1>3 DEF Lists
<1>7. a = 1
  <2>1. a > 1 => e[1] < e[a] /\ e[1] \in 0..L
    BY <1>3, <1>6 DEF Lists, Rising
  <2>. QED BY <1>1, <1>4, <2>1
<1>8. b = m
  <2>1. b < m => e[b] < e[m] /\ e[m] \in 0..L
    BY <1>3, <1>6 DEF Lists, Rising
  <2>. QED BY <1>1, <1>5, <2>1
<1>9. m > 1
  BY <1>1, <1>4, <1>5, <1>7, <1>8
<1>10. \A p \in 1..Len(t) : t[p] = mark <=> \E k \in 2..m - 1 : e[k] = p
  <2> SUFFICES ASSUME NEW p \in 1..Len(t)
               PROVE  p \in E <=> \E k \in 2..m - 1 : e[k] = p
    BY <1>1
  <2>1. p \in E <=> \E k \in 1..m : e[k] = p
    BY <1>3 DEF Lists
  <2>2. e[1] # p /\ e[m] # p
    BY <1>4, <1>5, <1>7, <1>8, TextTypes DEF L
  <2>. QED BY <2>1, <2>2
<1>11. Cut(t, mark, m - 1, e)
  <2>1. m - 1 \in Nat \ {0} /\ (m - 1) + 1 = m
    BY <1>9
  <2>2. e \in [1..m -> 0..L] /\ Rising(e, m) /\ e[1] = 0 /\ e[m] = L
    BY <1>3, <1>4, <1>5, <1>6, <1>7, <1>8 DEF Lists
  <2>. QED BY <2>1, <2>2, <1>10 DEF Cut, L
<1>12. m - 1 \in Nat \ {0}
  BY <1>9
<1>. QED BY <1>11, <1>12

\* Every place of a text is a mark or in a field.
LEMMA MarkOrField ==
  ASSUME NEW t \in Seq(Tokens), NEW mark, NEW n, NEW e, Cut(t, mark, n, e),
         NEW p \in 1..Len(t), t[p] # mark
  PROVE  \E k \in 1..n : e[k] < p /\ p < e[k + 1]
<1>. DEFINE B == {k \in 1..n + 1 : e[k] < p}
<1>1. n \in Nat \ {0} /\ Len(t) \in Nat /\ e[1] = 0 /\ e[n + 1] = Len(t) + 1
      /\ \A k \in 1..n + 1 : e[k] \in 0..Len(t) + 1
  BY TextTypes DEF Cut
<1>2. 1 \in B /\ B \subseteq 0..n + 1 /\ n + 1 \in Nat
  BY <1>1
<1>3. PICK k \in B : \A j \in B : j <= k
  BY <1>2, GreatestOf, Zenon
<1>4. k \in 1..n
  BY <1>1, <1>3
<1>5. k + 1 \in 1..n + 1 /\ k + 1 \notin B
  BY <1>1, <1>3, <1>4
<1>6. e[k + 1] # p
  <2>1. CASE k = n
    BY <1>1, <2>1
  <2>2. CASE k < n
    <3>1. k + 1 \in 2..n
      BY <1>1, <1>4, <2>2
    <3>. QED BY <3>1 DEF Cut
  <2>. QED BY <1>1, <1>4, <2>1, <2>2
<1>. QED BY <1>1, <1>3, <1>4, <1>5, <1>6

\* A function from 1..n is a sequence.
LEMMA FunctionIsSeq ==
  ASSUME NEW S, NEW n \in Nat, NEW f \in [1..n -> S]
  PROVE  f \in Seq(S) /\ Len(f) = n
<1>1. f \in UNION {[1..m -> S] : m \in Nat}
  OBVIOUS
<1>2. f \in Seq(S)
  BY <1>1, SeqDef
<1>3. DOMAIN f = 1..n /\ DOMAIN f = 1..Len(f) /\ Len(f) \in Nat
  BY <1>2, LenProperties
<1>. QED BY <1>2, <1>3

\* A text has a field at least, and as many as it is cut into.
LEMMA FieldCount ==
  ASSUME NEW t \in Seq(Tokens), NEW mark, NEW n, NEW e, Cut(t, mark, n, e)
  PROVE  /\ Fields(t, mark) \in Seq(Seq(Tokens))
         /\ Len(Fields(t, mark)) = n /\ DOMAIN Fields(t, mark) = 1..n
<1>1. n \in Nat
  BY DEF Cut
<1>2. Fields(t, mark) = [k \in 1..n |-> SubSeq(t, e[k] + 1, e[k + 1] - 1)]
  BY FieldsOf
<1>3. \A k \in 1..n : Fields(t, mark)[k] \in Seq(Tokens)
  BY FieldAt
<1>4. Fields(t, mark) \in [1..n -> Seq(Tokens)]
  BY <1>2, <1>3
<1>. QED BY <1>1, <1>4, FunctionIsSeq

LEMMA FieldsAre ==
  ASSUME NEW t \in Seq(Tokens), NEW mark
  PROVE  /\ Fields(t, mark) \in Seq(Seq(Tokens))
         /\ Len(Fields(t, mark)) \in Nat \ {0}
         /\ DOMAIN Fields(t, mark) = 1..Len(Fields(t, mark))
         /\ \A k \in 1..Len(Fields(t, mark)) : Fields(t, mark)[k] \in Seq(Tokens)
<1>1. PICK n \in Nat \ {0} : \E e : Cut(t, mark, n, e)
  BY CutExists
<1>2. PICK e : Cut(t, mark, n, e)
  BY <1>1
<1>. QED BY <1>1, <1>2, FieldCount, FieldAt

-----------------------------------------------------------------------------
(* Ipv4Address::parse *)

LEMMA FirstToken ==
  ASSUME NEW f \in Seq(Tokens), NEW max, StartsWithNumber(f, max)
  PROVE  /\ Len(f) \in Nat \ {0} /\ f[1] \in DOMAIN Dec /\ Dec[f[1]] <= max
         /\ NumberIn(f) = Dec[f[1]]
<1>1. f # <<>> /\ Head(f) \in DOMAIN Dec /\ Dec[Head(f)] <= max
  BY DEF StartsWithNumber
<1>2. Len(f) \in Nat \ {0} /\ Head(f) = f[1]
  BY <1>1, EmptySeq
<1>. QED BY <1>1, <1>2 DEF NumberIn

LEMMA ANumber ==
  ASSUME NEW f \in Seq(Tokens), Len(f) # 0, NEW max, f[1] \in DOMAIN Dec, Dec[f[1]] <= max
  PROVE  StartsWithNumber(f, max) /\ NumberIn(f) = Dec[f[1]]
<1>1. f # <<>> /\ Head(f) = f[1]
  BY EmptySeq
<1>. QED BY <1>1 DEF StartsWithNumber, NumberIn

\* What parse accepts: four fields that begin with an octet.
LEMMA Ipv4Accepts ==
  ASSUME NEW t \in Seq(Tokens)
  PROVE  /\ Ipv4Parse(t).ok <=> /\ Len(Fields(t, ".")) = 4
                                /\ \A k \in 1..4 : StartsWithNumber(Fields(t, ".")[k], 255)
         /\ Ipv4Parse(t).ok =>
              Ipv4Parse(t) = ParseOk([k \in 1..4 |-> NumberIn(Fields(t, ".")[k])])
<1>. DEFINE fields == Fields(t, ".")
            dots   == Len(fields) - 1
            rounds == IF dots < 3 THEN 1..dots ELSE 1..4
            good   == ParseOk([k \in 1..4 |-> NumberIn(fields[k])])
            Number(k) == StartsWithNumber(fields[k], 255)
<1>1. Ipv4Parse(t) =
        CASE \E k \in rounds : ~Number(k) -> ParseErr("InvalidOctet")
          [] dots < 3 /\ \A k \in rounds : Number(k) -> ParseErr("MissingOctets")
          [] dots > 3 /\ \A k \in rounds : Number(k) -> ParseErr("TrailingData")
          [] OTHER -> good
  BY DEF Ipv4Parse
<1>2. dots \in Nat /\ (Len(fields) = 4 <=> dots = 3) /\ (dots = 3 => rounds = 1..4)
      /\ (dots > 3 => rounds = 1..4)
  <2>1. Len(fields) \in Nat \ {0}
    BY FieldsAre
  <2>2. dots = Len(fields) - 1 /\ rounds = IF dots < 3 THEN 1..dots ELSE 1..4
    OBVIOUS
  <2>. HIDE DEF rounds, dots, fields
  <2>3. dots \in Nat /\ (Len(fields) = 4 <=> dots = 3)
    BY <2>1, <2>2
  <2>4. ~(dots < 3) => rounds = 1..4
    BY <2>2, Zenon
  <2>5. dots = 3 \/ dots > 3 => ~(dots < 3)
    BY <2>3
  <2>. QED BY <2>3, <2>4, <2>5
<1>3. good.ok /\ \A err : ~ParseErr(err).ok
  BY DEF ParseOk, ParseErr
<1>. SUFFICES /\ Ipv4Parse(t).ok <=> Len(fields) = 4 /\ \A k \in 1..4 : Number(k)
              /\ Ipv4Parse(t).ok => Ipv4Parse(t) = good
  OBVIOUS
<1>. HIDE DEF good, Number, rounds, dots, fields
<1>4. CASE \E k \in rounds : ~Number(k)
  <2>1. Ipv4Parse(t) = ParseErr("InvalidOctet")
    BY <1>1, <1>4, <1>2
  <2>. QED BY <1>2, <1>3, <1>4, <2>1
<1>5. CASE \A k \in rounds : Number(k)
  <2>1. CASE dots < 3
    <3>1. Ipv4Parse(t) = ParseErr("MissingOctets")
      BY <1>1, <1>2, <1>5, <2>1
    <3>. QED BY <1>2, <1>3, <2>1, <3>1
  <2>2. CASE dots > 3
    <3>1. Ipv4Parse(t) = ParseErr("TrailingData")
      BY <1>1, <1>2, <1>5, <2>2
    <3>. QED BY <1>2, <1>3, <2>2, <3>1
  <2>3. CASE dots = 3
    <3>1. Ipv4Parse(t) = good
      BY <1>1, <1>2, <1>5, <2>3
    <3>. QED BY <1>2, <1>3, <1>5, <2>3, <3>1
  <2>. QED BY <1>2, <2>1, <2>2, <2>3
<1>. QED BY <1>4, <1>5

\* The text of an IPv4 address begins with a number.
LEMMA Ipv4Head ==
  ASSUME NEW t \in Seq(Tokens), Ipv4Parse(t).ok
  PROVE  Len(t) \in Nat \ {0} /\ t[1] \in DOMAIN Dec
<1>1. Len(Fields(t, ".")) = 4 /\ \A k \in 1..4 : StartsWithNumber(Fields(t, ".")[k], 255)
  BY Ipv4Accepts
<1>2. PICK n \in Nat \ {0} : \E e : Cut(t, ".", n, e)
  BY CutExists
<1>3. PICK e : Cut(t, ".", n, e)
  BY <1>2
<1>4. n = 4 /\ e[1] = 0
  <2>1. Len(Fields(t, ".")) = n
    BY <1>3, FieldCount
  <2>. QED BY <1>1, <1>3, <2>1 DEF Cut
<1>5. /\ Fields(t, ".")[1] \in Seq(Tokens)
      /\ Len(Fields(t, ".")[1]) = e[2] - 1 /\ e[2] \in 1..Len(t) + 1
      /\ \A p \in 1..e[2] - 1 : Fields(t, ".")[1][p] = t[p]
  <2>1. 1 \in 1..n /\ 1 + 1 = 2
    BY <1>4
  <2>2. /\ e[1 + 1] \in 1..Len(t) + 1
        /\ Fields(t, ".")[1] \in Seq(Tokens)
        /\ Len(Fields(t, ".")[1]) = e[1 + 1] - e[1] - 1
        /\ \A p \in 1..e[1 + 1] - e[1] - 1 : Fields(t, ".")[1][p] = t[e[1] + p]
    BY <1>3, <2>1, FieldAt
  <2>3. Len(t) \in Nat
    BY TextTypes
  <2>. QED BY <1>4, <2>1, <2>2, <2>3
<1>6. /\ Len(Fields(t, ".")[1]) \in Nat \ {0}
      /\ Fields(t, ".")[1][1] \in DOMAIN Dec
  <2>1. StartsWithNumber(Fields(t, ".")[1], 255)
    BY <1>1
  <2>. QED BY <1>5, <2>1, FirstToken
<1>. QED BY <1>5, <1>6, TextTypes

-----------------------------------------------------------------------------
(* Writing an IPv4 address and reading it again. *)

LEMMA DecNumeralOf ==
  ASSUME NEW v \in DecValues
  PROVE  /\ DecNumeral(v) \in DOMAIN Dec /\ Dec[DecNumeral(v)] = v
         /\ DecNumeral(v) \in Numerals /\ DecNumeral(v) \in Tokens \ Marks
<1>1. \E n \in DOMAIN Dec : Dec[n] = v
  BY DEF DecValues
<1>2. DecNumeral(v) \in DOMAIN Dec /\ Dec[DecNumeral(v)] = v
  BY <1>1 DEF DecNumeral
<1>3. DecNumeral(v) \in Numerals
  BY <1>2 DEF Numerals
<1>4. DecNumeral(v) \notin Marks
  BY <1>3, NumeralAssumption, Zenon
<1>. QED BY <1>2, <1>3, <1>4 DEF Tokens

LEMMA HexNumeralOf ==
  ASSUME NEW v \in HexValues
  PROVE  /\ HexNumeral(v) \in DOMAIN Hex /\ Hex[HexNumeral(v)] = v
         /\ HexNumeral(v) \in Numerals /\ HexNumeral(v) \in Tokens \ Marks
<1>1. \E n \in DOMAIN Hex : Hex[n] = v
  BY DEF HexValues
<1>2. HexNumeral(v) \in DOMAIN Hex /\ Hex[HexNumeral(v)] = v
  BY <1>1 DEF HexNumeral
<1>3. HexNumeral(v) \in Numerals
  BY <1>2 DEF Numerals
<1>4. HexNumeral(v) \notin Marks
  BY <1>3, NumeralAssumption, Zenon
<1>. QED BY <1>2, <1>3, <1>4 DEF Tokens

\* Octets that can be written.
IsOctets(o) == o \in [1..4 -> 0..255] /\ \A k \in 1..4 : o[k] \in DecValues

LEMMA Ipv4Tokens ==
  ASSUME NEW o, IsOctets(o)
  PROVE  /\ Ipv4ToString(o) \in Seq(Tokens) /\ Len(Ipv4ToString(o)) = 7
         /\ \A k \in 1..4 : Ipv4ToString(o)[2*k - 1] = DecNumeral(o[k])
         /\ \A k \in 1..3 : Ipv4ToString(o)[2*k] = "."
<1>. DEFINE t == Ipv4ToString(o)
<1>1. t = [p \in 1..7 |-> IF p % 2 = 1 THEN DecNumeral(o[(p + 1) \div 2]) ELSE "."]
  BY DEF Ipv4ToString
<1>2. \A p \in 1..7 : (p + 1) \div 2 \in 1..4
  OBVIOUS
<1>3. \A p \in 1..7 : DecNumeral(o[(p + 1) \div 2]) \in Tokens
  BY <1>2, DecNumeralOf DEF IsOctets
<1>4. "." \in Tokens
  BY DEF Tokens, Marks
<1>. HIDE DEF t
<1>5. t \in [1..7 -> Tokens]
  BY <1>1, <1>3, <1>4
<1>6. \A k \in 1..4 : 2*k - 1 \in 1..7 /\ (2*k - 1) % 2 = 1 /\ ((2*k - 1) + 1) \div 2 = k
  OBVIOUS
<1>7. \A k \in 1..3 : 2*k \in 1..7 /\ (2*k) % 2 = 0
  OBVIOUS
<1>8. t \in Seq(Tokens) /\ Len(t) = 7
  BY <1>5, FunctionIsSeq
<1>9. \A k \in 1..4 : t[2*k - 1] = DecNumeral(o[k])
  BY <1>1, <1>6
<1>10. \A k \in 1..3 : t[2*k] = "."
  BY <1>1, <1>7
<1>. QED BY <1>8, <1>9, <1>10 DEF t

\* Its fields are its numerals.
LEMMA Ipv4Fields ==
  ASSUME NEW o, IsOctets(o)
  PROVE  /\ Len(Fields(Ipv4ToString(o), ".")) = 4
         /\ \A k \in 1..4 : LET f == Fields(Ipv4ToString(o), ".")[k] IN
              /\ f \in Seq(Tokens) /\ Len(f) = 1 /\ f[1] = DecNumeral(o[k])
              /\ StartsWithNumber(f, 255) /\ NumberIn(f) = o[k]
<1>. DEFINE t == Ipv4ToString(o)
            e == [k \in 1..5 |-> 2*(k - 1)]
<1>1. /\ t \in Seq(Tokens) /\ Len(t) = 7
      /\ \A k \in 1..4 : t[2*k - 1] = DecNumeral(o[k])
      /\ \A k \in 1..3 : t[2*k] = "."
  BY Ipv4Tokens
<1>2. \A k \in 1..4 : /\ DecNumeral(o[k]) \in DOMAIN Dec /\ Dec[DecNumeral(o[k])] = o[k]
                      /\ DecNumeral(o[k]) # "." /\ o[k] <= 255
  BY DecNumeralOf DEF IsOctets, Marks
<1>. HIDE DEF t
<1>3. \A p \in 1..Len(t) : t[p] = "." <=> \E k \in 2..4 : e[k] = p
  <2> SUFFICES ASSUME NEW p \in 1..7 PROVE t[p] = "." <=> \E k \in 2..4 : e[k] = p
    BY <1>1
  <2>1. CASE \E k \in 1..4 : p = 2*k - 1
    BY <1>1, <1>2, <2>1
  <2>2. CASE \E k \in 1..3 : p = 2*k
    <3>1. PICK k \in 1..3 : p = 2*k
      BY <2>2
    <3>2. k + 1 \in 2..4 /\ e[k + 1] = p
      BY <3>1
    <3>. QED BY <1>1, <3>1, <3>2
  <2>3. (\E k \in 1..4 : p = 2*k - 1) \/ (\E k \in 1..3 : p = 2*k)
    <3>1. (p = 2*1 - 1 \/ p = 2*2 - 1 \/ p = 2*3 - 1 \/ p = 2*4 - 1) \/ (p = 2*1 \/ p = 2*2 \/ p = 2*3)
      OBVIOUS
    <3>. QED BY <3>1
  <2>. QED BY <2>1, <2>2, <2>3
<1>4. Cut(t, ".", 4, e)
  <2>1. e \in [1..4 + 1 -> 0..Len(t) + 1] /\ Rising(e, 4 + 1) /\ e[1] = 0 /\ e[4 + 1] = Len(t) + 1
    BY <1>1 DEF Rising
  <2>. HIDE DEF e
  <2>. QED BY <1>3, <2>1 DEF Cut
<1>5. \A k \in 1..4 : 2*k - 1 \in Int /\ e[k] = (2*k - 1) - 1 /\ e[k + 1] = (2*k - 1) + 1
  OBVIOUS
<1>. HIDE DEF e
<1>6. Len(Fields(t, ".")) = 4
  BY <1>1, <1>4, FieldCount
<1>7. ASSUME NEW k \in 1..4
      PROVE  LET f == Fields(t, ".")[k] IN
             /\ f \in Seq(Tokens) /\ Len(f) = 1 /\ f[1] = DecNumeral(o[k])
             /\ StartsWithNumber(f, 255) /\ NumberIn(f) = o[k]
  <2>. DEFINE f == Fields(t, ".")[k]
  <2>1. ASSUME NEW n, Cut(t, ".", n, e), k \in 1..n
        PROVE  f \in Seq(Tokens) /\ Len(f) = 1 /\ f[1] = t[2*k - 1]
    BY <1>1, <1>5, <2>1, TokenField
  <2>. HIDE DEF f
  <2>3. f \in Seq(Tokens) /\ Len(f) = 1 /\ f[1] = DecNumeral(o[k])
    BY <1>1, <1>4, <2>1
  <2>4. StartsWithNumber(f, 255) /\ NumberIn(f) = o[k]
    BY <1>2, <2>3, ANumber
  <2>. QED BY <2>3, <2>4 DEF f
<1>. QED BY <1>6, <1>7 DEF t

\* Ipv4Address::parse reads what Ipv4Address::toString writes.
LEMMA Ipv4ReadsBack ==
  ASSUME NEW o, IsOctets(o)
  PROVE  Ipv4Parse(Ipv4ToString(o)) = ParseOk(o)
<1>1. Ipv4Parse(Ipv4ToString(o)).ok
  <2>1. Ipv4ToString(o) \in Seq(Tokens)
    BY Ipv4Tokens
  <2>2. /\ Len(Fields(Ipv4ToString(o), ".")) = 4
        /\ \A k \in 1..4 : StartsWithNumber(Fields(Ipv4ToString(o), ".")[k], 255)
    BY Ipv4Fields
  <2>. QED BY <2>1, <2>2, Ipv4Accepts
<1>2. Ipv4Parse(Ipv4ToString(o)) =
        ParseOk([k \in 1..4 |-> NumberIn(Fields(Ipv4ToString(o), ".")[k])])
  BY <1>1, Ipv4Tokens, Ipv4Accepts
<1>3. [k \in 1..4 |-> NumberIn(Fields(Ipv4ToString(o), ".")[k])] = o
  BY Ipv4Fields DEF IsOctets
<1>. QED BY <1>2, <1>3

\* It is also what inet_pton takes for the last two segments.
LEMMA QuadOfText ==
  ASSUME NEW o, IsOctets(o)
  PROVE  /\ IsQuad(Ipv4ToString(o))
         /\ Quad(Ipv4ToString(o)) = <<256*o[1] + o[2], 256*o[3] + o[4]>>
BY Ipv4Fields DEF IsQuad, Quad, IsAllNumber
-----------------------------------------------------------------------------
(* Writing segments and reading them again. *)

\* The text of n segments: a numeral, a colon, a numeral, ...
Groups(n, s) ==
  [p \in 1..2*n - 1 |-> IF p % 2 = 1 THEN HexNumeral(s[(p + 1) \div 2]) ELSE ":"]

LEMMA OddOrEven ==
  ASSUME NEW n \in Nat, NEW p \in 1..2*n - 1
  PROVE  \/ \E k \in 1..n : p = 2*k - 1 /\ p % 2 = 1 /\ (p + 1) \div 2 = k
         \/ \E k \in 1..n - 1 : p = 2*k /\ p % 2 = 0
<1>1. CASE p % 2 = 1
  <2>1. (p + 1) \div 2 \in 1..n /\ p = 2*((p + 1) \div 2) - 1
    BY <1>1
  <2>. QED BY <1>1, <2>1
<1>2. CASE p % 2 = 0
  <2>1. p \div 2 \in 1..n - 1 /\ p = 2*(p \div 2)
    BY <1>2
  <2>. QED BY <1>2, <2>1
<1>. QED BY <1>1, <1>2

LEMMA GroupsAre ==
  ASSUME NEW n \in Nat, NEW s \in [1..n -> HexValues]
  PROVE  /\ Groups(n, s) \in Seq(Tokens)
         /\ Len(Groups(n, s)) = IF n = 0 THEN 0 ELSE 2*n - 1
         /\ \A k \in 1..n : Groups(n, s)[2*k - 1] = HexNumeral(s[k])
         /\ \A k \in 1..n - 1 : Groups(n, s)[2*k] = ":"
<1>. DEFINE t == Groups(n, s)
            m == IF n = 0 THEN 0 ELSE 2*n - 1
<1>1. m \in Nat /\ 1..2*n - 1 = 1..m
  OBVIOUS
<1>2. t = [p \in 1..2*n - 1 |-> IF p % 2 = 1 THEN HexNumeral(s[(p + 1) \div 2]) ELSE ":"]
  BY DEF Groups
<1>. HIDE DEF t
<1>3. ASSUME NEW p \in 1..2*n - 1 PROVE t[p] \in Tokens
  <2>1. CASE \E k \in 1..n : p = 2*k - 1 /\ p % 2 = 1 /\ (p + 1) \div 2 = k
    BY <1>2, <2>1, HexNumeralOf
  <2>2. CASE \E k \in 1..n - 1 : p = 2*k /\ p % 2 = 0
    BY <1>2, <2>2 DEF Tokens, Marks
  <2>. QED BY <2>1, <2>2, OddOrEven
<1>. HIDE DEF m
<1>4. t \in [1..m -> Tokens]
  BY <1>1, <1>2, <1>3
<1>5. t \in Seq(Tokens) /\ Len(t) = m
  BY <1>1, <1>4, FunctionIsSeq
<1>6. \A k \in 1..n : 2*k - 1 \in 1..2*n - 1 /\ (2*k - 1) % 2 = 1 /\ ((2*k - 1) + 1) \div 2 = k
  OBVIOUS
<1>7. \A k \in 1..n - 1 : 2*k \in 1..2*n - 1 /\ (2*k) % 2 = 0
  OBVIOUS
<1>8. \A k \in 1..n : t[2*k - 1] = HexNumeral(s[k])
  BY <1>2, <1>6
<1>9. \A k \in 1..n - 1 : t[2*k] = ":"
  BY <1>2, <1>7
<1>. QED BY <1>5, <1>8, <1>9 DEF t, m

\* Its fields are its numerals.
LEMMA GroupFields ==
  ASSUME NEW n \in Nat \ {0}, NEW s \in [1..n -> HexValues]
  PROVE  /\ Fields(Groups(n, s), ":") \in Seq(Seq(Tokens))
         /\ Len(Fields(Groups(n, s), ":")) = n /\ DOMAIN Fields(Groups(n, s), ":") = 1..n
         /\ \A k \in 1..n : LET f == Fields(Groups(n, s), ":")[k] IN
              IsSegment(f) /\ Hex[f[1]] = s[k]
<1>. DEFINE t == Groups(n, s)
            e == [k \in 1..n + 1 |-> 2*(k - 1)]
<1>1. /\ t \in Seq(Tokens) /\ Len(t) = 2*n - 1
      /\ \A k \in 1..n : t[2*k - 1] = HexNumeral(s[k])
      /\ \A k \in 1..n - 1 : t[2*k] = ":"
  BY GroupsAre
<1>2. \A k \in 1..n : /\ HexNumeral(s[k]) \in DOMAIN Hex /\ Hex[HexNumeral(s[k])] = s[k]
                      /\ HexNumeral(s[k]) # ":"
  BY HexNumeralOf DEF Marks
<1>. HIDE DEF t
<1>3. \A k \in 1..n : k \in 1..n + 1 /\ k + 1 \in 1..n + 1 /\ e[k] = 2*k - 2 /\ e[k + 1] = 2*k
  OBVIOUS
<1>4. \A p \in 1..Len(t) : t[p] = ":" <=> \E k \in 2..n : e[k] = p
  <2> SUFFICES ASSUME NEW p \in 1..2*n - 1 PROVE t[p] = ":" <=> \E k \in 2..n : e[k] = p
    BY <1>1
  <2>1. CASE \E k \in 1..n : p = 2*k - 1
    <3>1. \A k \in 2..n : e[k] = 2*(k - 1)
      OBVIOUS
    <3>. HIDE DEF e
    <3>2. ~ \E k \in 2..n : e[k] = p
      BY <3>1, <2>1
    <3>. QED BY <1>1, <1>2, <2>1, <3>2
  <2>2. CASE \E k \in 1..n - 1 : p = 2*k
    <3>1. PICK k \in 1..n - 1 : p = 2*k
      BY <2>2
    <3>2. k + 1 \in 2..n /\ e[k + 1] = p
      BY <3>1
    <3>. QED BY <1>1, <3>1, <3>2
  <2>. QED BY <2>1, <2>2, OddOrEven
<1>5. Cut(t, ":", n, e)
  <2>1. e \in [1..n + 1 -> 0..Len(t) + 1] /\ Rising(e, n + 1) /\ e[1] = 0 /\ e[n + 1] = Len(t) + 1
    BY <1>1 DEF Rising
  <2>. HIDE DEF e
  <2>. QED BY <1>4, <2>1 DEF Cut
<1>. HIDE DEF e
<1>6. /\ Fields(t, ":") \in Seq(Seq(Tokens))
      /\ Len(Fields(t, ":")) = n /\ DOMAIN Fields(t, ":") = 1..n
  BY <1>1, <1>5, FieldCount
<1>7. ASSUME NEW k \in 1..n
      PROVE  IsSegment(Fields(t, ":")[k]) /\ Hex[Fields(t, ":")[k][1]] = s[k]
  <2>1. 2*k - 1 \in Int /\ e[k] = (2*k - 1) - 1 /\ e[k + 1] = (2*k - 1) + 1
    <3>1. e[k] = 2*k - 2 /\ e[k + 1] = 2*k
      BY <1>3
    <3>2. (2*k - 1) - 1 = 2*k - 2 /\ (2*k - 1) + 1 = 2*k
      OBVIOUS
    <3>. QED BY <3>1, <3>2
  <2>2. Len(Fields(t, ":")[k]) = 1 /\ Fields(t, ":")[k][1] = t[2*k - 1]
    BY <1>1, <1>5, <2>1, TokenField
  <2>3. Len(Fields(t, ":")[k]) = 1 /\ Fields(t, ":")[k][1] = HexNumeral(s[k])
    BY <1>1, <2>2
  <2>. QED BY <1>2, <2>3 DEF IsSegment
<1>. QED BY <1>6, <1>7 DEF t

\* The list of fields that are all segments.
LEMMA ListOfSegments ==
  ASSUME NEW t \in Seq(Tokens), t # <<>>, NEW n \in Nat \ {0},
         Len(Fields(t, ":")) = n, \A k \in 1..n : IsSegment(Fields(t, ":")[k])
  PROVE  List(t) = [k \in 1..n |-> Hex[Fields(t, ":")[k][1]]]
<1>. DEFINE h(k) == Hex[Fields(t, ":")[k][1]]
            a == [k \in 1..n - 1 |-> h(k)]
            b == <<h(n)>>
            c == [k \in 1..n |-> h(k)]
            V == {h(k) : k \in 1..n}
<1>1. List(t) = a \o b
  BY DEF List
<1>2. n - 1 \in Nat /\ \A k \in 1..n : h(k) \in V
  OBVIOUS
<1>. HIDE DEF h, V
<1>3. a \in [1..n - 1 -> V] /\ c \in [1..n -> V]
  BY <1>2
<1>3a. b \in Seq(V) /\ Len(b) = 1 /\ b[1] = h(n)
  BY <1>2
<1>4. \A k \in 1..n - 1 : a[k] = h(k)
  OBVIOUS
<1>5. \A k \in 1..n : c[k] = h(k)
  OBVIOUS
<1>. HIDE DEF a, b, c
<1>6. a \in Seq(V) /\ Len(a) = n - 1 /\ c \in Seq(V) /\ Len(c) = n
  BY <1>2, <1>3, FunctionIsSeq
<1>7. /\ a \o b \in Seq(V) /\ Len(a \o b) = (n - 1) + 1
      /\ \A k \in 1..(n - 1) + 1 : (a \o b)[k] = IF k <= n - 1 THEN a[k] ELSE b[k - (n - 1)]
  <2>1. /\ a \o b \in Seq(V) /\ Len(a \o b) = Len(a) + Len(b)
        /\ \A k \in 1..Len(a) + Len(b) :
             (a \o b)[k] = IF k <= Len(a) THEN a[k] ELSE b[k - Len(a)]
    <3>1. a \in Seq(V) /\ b \in Seq(V)
      BY <1>3a, <1>6
    <3>. QED BY <3>1, ConcatProperties
  <2>2. Len(a) = n - 1 /\ Len(b) = 1
    BY <1>3a, <1>6
  <2>. QED BY <2>1, <2>2
<1>8. \A k \in 1..n : (a \o b)[k] = c[k]
  <2> SUFFICES ASSUME NEW k \in 1..n PROVE (a \o b)[k] = c[k]
    OBVIOUS
  <2>1. k \in 1..(n - 1) + 1
    OBVIOUS
  <2>2. CASE k <= n - 1
    <3>1. k \in 1..n - 1
      BY <2>2
    <3>. QED BY <1>4, <1>5, <1>7, <2>1, <2>2, <3>1
  <2>3. CASE ~(k <= n - 1)
    <3>1. k = n /\ k - (n - 1) = 1
      BY <2>3
    <3>2. (a \o b)[k] = b[k - (n - 1)]
      BY <1>7, <2>1, <2>3
    <3>. QED BY <1>3a, <1>5, <3>1, <3>2
  <2>. QED BY <2>2, <2>3
<1>9. a \o b = c
  <2>1. Len(a \o b) = n
    BY <1>7
  <2>. QED BY <1>6, <1>7, <1>8, <2>1, SeqEqual
<1>. QED BY <1>1, <1>9 DEF c, h

\* inet_pton reads the segments that were written.
LEMMA GroupsReadBack ==
  ASSUME NEW n \in Nat, NEW s \in [1..n -> HexValues], NEW last
  PROVE  IsList(Groups(n, s), last) /\ List(Groups(n, s)) = s
<1>1. CASE n = 0
  <2>1. Groups(n, s) = <<>>
    BY <1>1 DEF Groups
  <2>2. s = <<>>
    BY <1>1
  <2>. QED BY <2>1, <2>2 DEF IsList, List
<1>2. CASE n # 0
  <2>1. n \in Nat \ {0}
    BY <1>2
  <2>2. /\ Len(Fields(Groups(n, s), ":")) = n /\ DOMAIN Fields(Groups(n, s), ":") = 1..n
        /\ \A k \in 1..n : IsSegment(Fields(Groups(n, s), ":")[k])
                           /\ Hex[Fields(Groups(n, s), ":")[k][1]] = s[k]
    BY <2>1, GroupFields
  <2>3. Groups(n, s) \in Seq(Tokens) /\ Groups(n, s) # <<>>
    BY <2>1, GroupsAre, EmptySeq
  <2>4. List(Groups(n, s)) = [k \in 1..n |-> Hex[Fields(Groups(n, s), ":")[k][1]]]
    BY <2>1, <2>2, <2>3, ListOfSegments
  <2>5. List(Groups(n, s)) = s
    BY <2>2, <2>4
  <2>. QED BY <2>2, <2>5 DEF IsList
<1>. QED BY <1>1, <1>2
-----------------------------------------------------------------------------
(* The gap. *)

\* The elements of a concatenation.
LEMMA Joined ==
  ASSUME NEW S, NEW a \in Seq(S), NEW b \in Seq(S)
  PROVE  /\ a \o b \in Seq(S) /\ Len(a \o b) = Len(a) + Len(b)
         /\ Len(a) \in Nat /\ Len(b) \in Nat
         /\ \A p \in 1..Len(a) : (a \o b)[p] = a[p]
         /\ \A p \in 1..Len(b) : (a \o b)[Len(a) + p] = b[p]
<1>1. /\ a \o b \in Seq(S) /\ Len(a \o b) = Len(a) + Len(b)
      /\ \A p \in 1..Len(a) + Len(b) : (a \o b)[p] = IF p <= Len(a) THEN a[p] ELSE b[p - Len(a)]
  BY ConcatProperties
<1>2. Len(a) \in Nat /\ Len(b) \in Nat
  BY LenProperties
<1>3. \A p \in 1..Len(a) : p \in 1..Len(a) + Len(b) /\ p <= Len(a)
  BY <1>2
<1>4. \A p \in 1..Len(b) : /\ Len(a) + p \in 1..Len(a) + Len(b) /\ ~(Len(a) + p <= Len(a))
                           /\ (Len(a) + p) - Len(a) = p
  BY <1>2
<1>. QED BY <1>1, <1>2, <1>3, <1>4

Gaps(t) == {p \in 1..Len(t) - 1 : t[p] = ":" /\ t[p + 1] = ":"}
Left(t, p)  == SubSeq(t, 1, p - 1)
Right(t, p) == SubSeq(t, p + 2, Len(t))

\* A text without a gap in it or at its ends.
Closed(t) == Gaps(t) = {} /\ (Len(t) > 0 => t[1] # ":" /\ t[Len(t)] # ":")

\* What inet_pton does with a gap and without.
LEMMA Ipv6Accepts ==
  ASSUME NEW t
  PROVE  /\ Gaps(t) = {} => InetPton(t) =
              IF t # <<>> /\ IsList(t, TRUE) /\ Len(List(t)) = N
                THEN ParseOk(fromSegments(List(t))) ELSE ParseErr("Unspecified")
         /\ \A p : Gaps(t) = {p} => InetPton(t) =
              IF /\ IsList(Left(t, p), FALSE) /\ IsList(Right(t, p), TRUE)
                 /\ ~(N - Len(List(Left(t, p))) - Len(List(Right(t, p))) < 1)
                THEN ParseOk(fromSegments(
                       List(Left(t, p))
                         \o [k \in 1..N - Len(List(Left(t, p))) - Len(List(Right(t, p))) |-> 0]
                         \o List(Right(t, p))))
                ELSE ParseErr("Unspecified")
         /\ Gaps(t) # {} /\ (\A p : Gaps(t) # {p}) => InetPton(t) = ParseErr("Unspecified")
<1>. DEFINE gaps  == Gaps(t)
            gap   == CHOOSE p \in gaps : TRUE
            left  == SubSeq(t, 1, gap - 1)
            right == SubSeq(t, gap + 2, Len(t))
            zeros == N - Len(List(left)) - Len(List(right))
            Is(segments) == ParseOk(fromSegments(segments))
            No    == ParseErr("Unspecified")
            One   == IF ~IsList(left, FALSE) \/ ~IsList(right, TRUE) THEN No
                     ELSE IF zeros < 1 THEN No
                     ELSE Is(List(left) \o [k \in 1..zeros |-> 0] \o List(right))
            None  == IF t # <<>> /\ IsList(t, TRUE) /\ Len(List(t)) = N THEN Is(List(t)) ELSE No
<1>1. InetPton(t) = CASE gaps = {} -> None
                       [] \E p \in gaps : gaps = {p} -> One
                       [] OTHER -> No
  BY DEF InetPton, Gaps
<1>2. ASSUME NEW p, gaps = {p}
      PROVE  One = IF /\ IsList(Left(t, p), FALSE) /\ IsList(Right(t, p), TRUE)
                      /\ ~(N - Len(List(Left(t, p))) - Len(List(Right(t, p))) < 1)
                     THEN Is(List(Left(t, p))
                               \o [k \in 1..N - Len(List(Left(t, p))) - Len(List(Right(t, p))) |-> 0]
                               \o List(Right(t, p)))
                     ELSE No
  <2>1. gap = p
    BY <1>2
  <2>2. left = Left(t, p) /\ right = Right(t, p)
    BY <2>1 DEF Left, Right
  <2>. HIDE DEF left, right, Is, No
  <2>. QED BY <2>2
<1>. HIDE DEF gaps, One, None
<1>3. gaps = {} => InetPton(t) = None
  BY <1>1
<1>4. ASSUME NEW p, gaps = {p} PROVE InetPton(t) = One
  <2>1. gaps # {} /\ p \in gaps
    BY <1>4
  <2>2. \E q \in gaps : gaps = {q}
    BY <1>4, <2>1
  <2>. QED BY <1>1, <2>1, <2>2
<1>5. gaps # {} /\ (\A p : gaps # {p}) => InetPton(t) = No
  BY <1>1
<1>. QED BY <1>2, <1>3, <1>4, <1>5 DEF gaps, None

\* Two texts with a gap between them.
LEMMA GapText ==
  ASSUME NEW a \in Seq(Tokens), NEW b \in Seq(Tokens), Closed(a), Closed(b)
  PROVE  LET t == a \o <<":", ":">> \o b IN
         /\ t \in Seq(Tokens) /\ Len(t) = Len(a) + 2 + Len(b)
         /\ Gaps(t) = {Len(a) + 1}
         /\ Left(t, Len(a) + 1) = a /\ Right(t, Len(a) + 1) = b
<1>. DEFINE m == <<":", ":">>
            u == a \o m
            t == u \o b
<1>1. Len(m) = 2 /\ m[1] = ":" /\ m[2] = ":"
  OBVIOUS
<1>. m \in Seq(Tokens)
  BY DEF Tokens, Marks
<1>. HIDE DEF m
<1>2. /\ u \in Seq(Tokens) /\ Len(u) = Len(a) + Len(m) /\ Len(a) \in Nat
      /\ \A p \in 1..Len(a) : u[p] = a[p]
      /\ \A p \in 1..Len(m) : u[Len(a) + p] = m[p]
  BY Joined
<1>. u \in Seq(Tokens)
  BY <1>2
<1>. HIDE DEF u
<1>3. /\ t \in Seq(Tokens) /\ Len(t) = Len(u) + Len(b) /\ Len(b) \in Nat
      /\ \A p \in 1..Len(u) : t[p] = u[p]
      /\ \A p \in 1..Len(b) : t[Len(u) + p] = b[p]
  BY Joined
<1>. HIDE DEF t
<1>4. Len(u) = Len(a) + 2 /\ Len(t) = Len(a) + 2 + Len(b)
  BY <1>1, <1>2, <1>3
<1>5. /\ \A p \in 1..Len(a) : t[p] = a[p]
      /\ t[Len(a) + 1] = ":" /\ t[Len(a) + 2] = ":"
      /\ \A p \in 1..Len(b) : t[Len(a) + 2 + p] = b[p]
  <2>1. \A p \in 1..Len(a) : p \in 1..Len(u)
    BY <1>2, <1>4
  <2>2. 1 \in 1..Len(m) /\ 2 \in 1..Len(m) /\ Len(a) + 1 \in 1..Len(u) /\ Len(a) + 2 \in 1..Len(u)
    BY <1>1, <1>2, <1>4
  <2>3. u[Len(a) + 1] = ":" /\ u[Len(a) + 2] = ":"
    BY <1>1, <1>2, <2>2
  <2>. QED BY <1>2, <1>3, <1>4, <2>1, <2>2, <2>3
<1>6. Gaps(t) = {Len(a) + 1}
  <2>1. Len(a) + 1 \in 1..Len(t) - 1 /\ (Len(a) + 1) + 1 = Len(a) + 2
    BY <1>2, <1>3, <1>4
  <2>2. Len(a) + 1 \in Gaps(t)
    BY <1>5, <2>1 DEF Gaps
  <2>3. ASSUME NEW p \in Gaps(t), p # Len(a) + 1 PROVE FALSE
    <3>1. p \in 1..Len(a) + 2 + Len(b) - 1 /\ t[p] = ":" /\ t[p + 1] = ":"
      BY <1>4 DEF Gaps
    <3>2. CASE p \in 1..Len(a) - 1
      <4>1. p \in 1..Len(a) /\ p + 1 \in 1..Len(a)
        BY <1>2, <3>2
      <4>2. p \in Gaps(a)
        BY <1>5, <3>1, <3>2, <4>1 DEF Gaps
      <4>. QED BY <4>2 DEF Closed
    <3>3. CASE p = Len(a)
      <4>1. Len(a) > 0 /\ Len(a) \in 1..Len(a)
        BY <3>1, <3>3
      <4>2. a[Len(a)] = ":"
        BY <1>5, <3>1, <3>3, <4>1
      <4>. QED BY <4>1, <4>2 DEF Closed
    <3>4. CASE p = Len(a) + 2
      <4>1. Len(b) > 0 /\ 1 \in 1..Len(b) /\ p + 1 = Len(a) + 2 + 1
        BY <1>2, <1>3, <3>1, <3>4
      <4>2. b[1] = ":"
        BY <1>5, <3>1, <4>1
      <4>. QED BY <4>1, <4>2 DEF Closed
    <3>5. CASE p > Len(a) + 2
      <4>. DEFINE q == p - (Len(a) + 2)
      <4>1. /\ q \in 1..Len(b) - 1 /\ q \in 1..Len(b) /\ q + 1 \in 1..Len(b)
            /\ Len(a) + 2 + q = p /\ Len(a) + 2 + (q + 1) = p + 1
        BY <1>2, <1>3, <3>1, <3>5
      <4>. HIDE DEF q
      <4>2. b[q] = ":" /\ b[q + 1] = ":"
        BY <1>5, <3>1, <4>1
      <4>3. q \in Gaps(b)
        BY <4>1, <4>2 DEF Gaps
      <4>. QED BY <4>3 DEF Closed
    <3>. QED BY <1>2, <2>3, <3>1, <3>2, <3>3, <3>4, <3>5
  <2>. QED BY <2>2, <2>3
<1>7. Left(t, Len(a) + 1) = a
  <2>1. (Len(a) + 1) - 1 = Len(a)
    BY <1>2
  <2>. DEFINE l == SubSeq(t, 1, Len(a))
  <2>2. \A p \in 1..Len(a) : t[p] \in Tokens
    BY <1>5, TextTypes
  <2>3. l \in Seq(Tokens) /\ Len(l) = (IF 1 <= Len(a) THEN Len(a) - 1 + 1 ELSE 0)
        /\ \A p \in 1..Len(a) - 1 + 1 : l[p] = t[1 + p - 1]
    BY <1>2, <2>2, SubSeqProperties
  <2>. HIDE DEF l
  <2>4. Len(l) = Len(a) /\ \A p \in 1..Len(a) : l[p] = a[p]
    <3>1. (IF 1 <= Len(a) THEN Len(a) - 1 + 1 ELSE 0) = Len(a) /\ Len(a) - 1 + 1 = Len(a)
          /\ \A p \in 1..Len(a) : 1 + p - 1 = p
      BY <1>2
    <3>. QED BY <1>5, <2>3, <3>1
  <2>5. l = a
    BY <2>3, <2>4, SeqEqual
  <2>. QED BY <2>1, <2>5 DEF Left, l
<1>8. Right(t, Len(a) + 1) = b
  <2>1. (Len(a) + 1) + 2 = Len(a) + 3
    BY <1>2
  <2>. DEFINE x == Len(a) + 3
              y == Len(t)
              r == SubSeq(t, x, y)
  <2>2. x \in Int /\ y \in Int /\ \A p \in x..y : t[p] \in Tokens
    BY <1>2, <1>3, TextTypes
  <2>3. /\ y - x + 1 = Len(b) /\ (IF x <= y THEN y - x + 1 ELSE 0) = Len(b)
        /\ \A p \in 1..Len(b) : x + p - 1 = Len(a) + 2 + p
    <3>1. y = Len(a) + 2 + Len(b) /\ Len(a) \in Nat /\ Len(b) \in Nat
      BY <1>2, <1>3, <1>4
    <3>2. x \in Int /\ x = Len(a) + 3 /\ y \in Int
      BY <3>1
    <3>. HIDE DEF x, y
    <3>3. y - x + 1 = Len(b)
      BY <3>1, <3>2
    <3>4. ~(x <= y) => Len(b) = 0
      BY <3>1, <3>2
    <3>5. \A p \in 1..Len(b) : x + p - 1 = Len(a) + 2 + p
      BY <3>1, <3>2
    <3>. QED BY <3>3, <3>4, <3>5
  <2>. HIDE DEF x, y
  <2>4. /\ r \in Seq(Tokens) /\ Len(r) = IF x <= y THEN y - x + 1 ELSE 0
        /\ \A p \in 1..y - x + 1 : r[p] = t[x + p - 1]
    BY <2>2, SubSeqProperties
  <2>. HIDE DEF r
  <2>5. Len(r) = Len(b) /\ \A p \in 1..Len(b) : r[p] = b[p]
    BY <1>5, <2>3, <2>4
  <2>6. r = b
    BY <2>4, <2>5, SeqEqual
  <2>. QED BY <2>1, <2>6 DEF Right, r, x, y
<1>. QED BY <1>3, <1>4, <1>6, <1>7, <1>8 DEF t, u, m
\* What was written with a gap is put together again.
LEMMA ThreeParts ==
  ASSUME NEW n \in Nat, NEW s \in [1..n -> Int], NEW x \in Nat, NEW y \in Nat, x + y <= n,
         \A k \in x + 1..x + y : s[k] = 0
  PROVE  [k \in 1..x |-> s[k]] \o [k \in 1..y |-> 0] \o [k \in 1..n - (x + y) |-> s[x + y + k]] = s
<1>. DEFINE w == n - (x + y)
            a == [k \in 1..x |-> s[k]]
            z == [k \in 1..y |-> 0]
            b == [k \in 1..w |-> s[x + y + k]]
            u == a \o z
            t == u \o b
<1>1. w \in Nat /\ x + y + w = n
  OBVIOUS
<1>2. /\ a \in [1..x -> Int] /\ \A k \in 1..x : a[k] = s[k]
      /\ z \in [1..y -> Int] /\ \A k \in 1..y : z[k] = 0
  OBVIOUS
<1>. HIDE DEF w
<1>3. b \in [1..w -> Int] /\ \A k \in 1..w : b[k] = s[x + y + k]
  <2>1. \A k \in 1..w : x + y + k \in 1..n
    BY <1>1
  <2>. QED BY <2>1
<1>. HIDE DEF a, z, b
<1>4. a \in Seq(Int) /\ z \in Seq(Int) /\ b \in Seq(Int) /\ s \in Seq(Int)
  BY <1>1, <1>2, <1>3, FunctionIsSeq
<1>5. Len(a) = x /\ Len(z) = y /\ Len(b) = w /\ Len(s) = n
  BY <1>1, <1>2, <1>3, FunctionIsSeq
<1>6. /\ u \in Seq(Int) /\ Len(u) = Len(a) + Len(z)
      /\ \A k \in 1..Len(a) : u[k] = a[k]
      /\ \A k \in 1..Len(z) : u[Len(a) + k] = z[k]
  BY <1>4, Joined
<1>. HIDE DEF u
<1>7. /\ t \in Seq(Int) /\ Len(t) = Len(u) + Len(b)
      /\ \A k \in 1..Len(u) : t[k] = u[k]
      /\ \A k \in 1..Len(b) : t[Len(u) + k] = b[k]
  <2>1. u \in Seq(Int) /\ b \in Seq(Int)
    BY <1>4, <1>6
  <2>. QED BY <2>1, Joined
<1>. HIDE DEF t
<1>8. Len(u) = x + y /\ Len(t) = n
  BY <1>1, <1>5, <1>6, <1>7
<1>9. ASSUME NEW k \in 1..n PROVE t[k] = s[k]
  <2>1. CASE k <= x
    <3>1. k \in 1..x /\ k \in 1..x + y
      BY <2>1
    <3>. QED BY <1>2, <1>5, <1>6, <1>7, <1>8, <3>1
  <2>2. CASE x < k /\ k <= x + y
    <3>1. k - x \in 1..y /\ x + (k - x) = k /\ k \in 1..x + y /\ k \in x + 1..x + y
      BY <2>2
    <3>2. u[k] = 0
      BY <1>2, <1>5, <1>6, <3>1
    <3>. QED BY <1>7, <1>8, <3>1, <3>2
  <2>3. CASE x + y < k
    <3>. DEFINE j == k - (x + y)
    <3>1. j \in 1..w /\ x + y + j = k
      BY <1>1, <2>3
    <3>. HIDE DEF j
    <3>2. t[x + y + j] = b[j]
      BY <1>5, <1>7, <1>8, <3>1
    <3>. QED BY <1>3, <3>1, <3>2
  <2>. QED BY <2>1, <2>2, <2>3
<1>10. t = s
  BY <1>4, <1>5, <1>7, <1>8, <1>9, SeqEqual
<1>. QED BY <1>10 DEF t, u, a, z, b, w

-----------------------------------------------------------------------------
(* The segments of an address. *)

LEMMA TwiceReversed ==
  ASSUME NEW a, NEW b
  PROVE  Reverse(Reverse(<<a, b>>)) = <<a, b>>
<1>1. Reverse(<<a, b>>) = <<b, a>>
  BY DEF Reverse
<1>2. Reverse(<<b, a>>) = <<a, b>>
  BY DEF Reverse
<1>. QED BY <1>1, <1>2

LEMMA WordParts ==
  ASSUME NEW v \in 0..MaxWord
  PROVE  /\ v \div 256 \in 0..255 /\ v % 256 \in 0..255
         /\ 256*(v \div 256) + (v % 256) = v
BY DEF MaxWord

\* The octets of an address are the bytes of its segments.
LEMMA OctetsOf ==
  ASSUME NEW s \in Addresses, NEW k \in 1..N
  PROVE  /\ fromSegments(s)[2*k - 1] = s[k] \div 256
         /\ fromSegments(s)[2*k] = s[k] % 256
<1>. USE SegmentsAssumption
<1>1. /\ 2*k - 1 \in 1..2*N /\ 2*k \in 1..2*N
      /\ \A p \in 1..2*N : p = 2*k - 1 => (p + 1) \div 2 = k /\ 2 - (p % 2) = 1
      /\ \A p \in 1..2*N : p = 2*k => (p + 1) \div 2 = k /\ 2 - (p % 2) = 2
  OBVIOUS
<1>2. Stored(byteswap(Word16(s[k]))) = <<s[k] \div 256, s[k] % 256>>
  BY TwiceReversed DEF Stored, byteswap, Word16
<1>3. \A p \in 1..2*N :
        fromSegments(s)[p] = Stored(byteswap(Word16(s[(p + 1) \div 2])))[2 - (p % 2)]
  BY DEF fromSegments
<1>4. ASSUME NEW p \in 1..2*N, (p + 1) \div 2 = k
      PROVE  fromSegments(s)[p] = <<s[k] \div 256, s[k] % 256>>[2 - (p % 2)]
  BY <1>2, <1>3, <1>4
<1>5. \A p \in 1..2*N : p = 2*k - 1 =>
        fromSegments(s)[p] = <<s[k] \div 256, s[k] % 256>>[1]
  BY <1>1, <1>4
<1>6. \A p \in 1..2*N : p = 2*k =>
        fromSegments(s)[p] = <<s[k] \div 256, s[k] % 256>>[2]
  BY <1>1, <1>4
<1>. QED BY <1>1, <1>5, <1>6

LEMMA SegmentsOf ==
  ASSUME NEW s \in Addresses
  PROVE  /\ s \in [1..N -> 0..MaxWord] /\ s \in [1..N -> HexValues] /\ s \in [1..N -> Int]
         /\ \A k \in 1..N : /\ s[k] \div 256 \in 0..255 /\ s[k] % 256 \in 0..255
                            /\ s[k] \div 256 \in DecValues /\ s[k] % 256 \in DecValues
                            /\ s[k] = 256*(s[k] \div 256) + (s[k] % 256)
<1>1. s \in [1..N -> 0..MaxWord] /\ \A k \in 1..N : s[k] \in HexValues
  BY AddressesAssumption
<1>2. \A k \in 1..N : s[k] \in 0..MaxWord
  BY <1>1
<1>3. \A v \in 0..MaxWord : v \in Int
  BY DEF MaxWord
<1>4. s \in [1..N -> HexValues] /\ s \in [1..N -> Int]
  BY <1>1, <1>2, <1>3
<1>5. \A k \in 1..N : s[k] \div 256 \in DecValues /\ s[k] % 256 \in DecValues
  BY AddressesAssumption
<1>6. \A k \in 1..N : /\ s[k] \div 256 \in 0..255 /\ s[k] % 256 \in 0..255
                      /\ s[k] = 256*(s[k] \div 256) + (s[k] % 256)
  <2>1. ASSUME NEW k \in 1..N
        PROVE  /\ s[k] \div 256 \in 0..255 /\ s[k] % 256 \in 0..255
               /\ s[k] = 256*(s[k] \div 256) + (s[k] % 256)
    <3>. DEFINE v == s[k]
    <3>1. v \in 0..MaxWord
      BY <1>2
    <3>. HIDE DEF v
    <3>2. /\ v \div 256 \in 0..255 /\ v % 256 \in 0..255
          /\ 256*(v \div 256) + (v % 256) = v
      BY <3>1, WordParts, Zenon
    <3>. QED BY <3>2, Zenon DEF v
  <2>. QED BY <2>1, Zenon
<1>. QED BY <1>1, <1>4, <1>5, <1>6

LEMMA SegmentOf ==
  ASSUME NEW s \in Addresses, octets = fromSegments(s)
  PROVE  \A k \in 0..N - 1 : segment(k) = s[k + 1]
<1>. USE SegmentsAssumption
<1>. SUFFICES ASSUME NEW k \in 0..N - 1 PROVE segment(k) = s[k + 1]
  OBVIOUS
<1>1. k + 1 \in 1..N /\ 2*k + 1 = 2*(k + 1) - 1 /\ 2*k + 2 = 2*(k + 1)
  OBVIOUS
<1>2. octets[2*k + 1] = s[k + 1] \div 256 /\ octets[2*k + 2] = s[k + 1] % 256
  BY <1>1, OctetsOf
<1>3. segment(k) = 256*(s[k + 1] \div 256) + (s[k + 1] % 256)
  BY <1>2, TwiceReversed DEF segment, Number16, byteswap, Loaded
<1>. QED BY <1>1, <1>3, SegmentsOf
LEMMA GroupsClosed ==
  ASSUME NEW n \in Nat, NEW s \in [1..n -> HexValues]
  PROVE  Closed(Groups(n, s))
<1>. DEFINE t == Groups(n, s)
<1>1. /\ t \in Seq(Tokens) /\ Len(t) = IF n = 0 THEN 0 ELSE 2*n - 1
      /\ \A k \in 1..n : t[2*k - 1] = HexNumeral(s[k])
  BY GroupsAre
<1>2. \A k \in 1..n : HexNumeral(s[k]) # ":"
  BY HexNumeralOf DEF Marks
<1>. HIDE DEF t
<1>3. ASSUME NEW p \in Int, \E k \in 1..n : p = 2*k - 1 PROVE t[p] # ":"
  BY <1>1, <1>2, <1>3
<1>4. ASSUME NEW p \in Gaps(t) PROVE FALSE
  <2>1. n \in Nat \ {0} /\ p \in 1..2*n - 1 /\ p + 1 \in 1..2*n - 1 /\ t[p] = ":" /\ t[p + 1] = ":"
    BY <1>1 DEF Gaps
  <2>2. CASE \E k \in 1..n : p = 2*k - 1 /\ p % 2 = 1 /\ (p + 1) \div 2 = k
    BY <1>3, <2>1, <2>2
  <2>3. CASE \E k \in 1..n - 1 : p = 2*k /\ p % 2 = 0
    <3>1. PICK k \in 1..n - 1 : p = 2*k
      BY <2>3
    <3>2. k + 1 \in 1..n /\ p + 1 = 2*(k + 1) - 1 /\ p + 1 \in Int
      BY <3>1
    <3>3. \E j \in 1..n : p + 1 = 2*j - 1
      BY <3>2
    <3>4. t[p + 1] # ":"
      BY <1>3, <3>2, <3>3
    <3>. QED BY <2>1, <3>4
  <2>. QED BY <2>1, <2>2, <2>3, OddOrEven
<1>5. ASSUME Len(t) > 0 PROVE t[1] # ":" /\ t[Len(t)] # ":"
  <2>1. n \in Nat \ {0} /\ Len(t) = 2*n - 1 /\ 1 \in 1..n /\ n \in 1..n /\ 1 = 2*1 - 1
    BY <1>1, <1>5
  <2>2. \E k \in 1..n : 1 = 2*k - 1
    BY <2>1
  <2>3. \E k \in 1..n : Len(t) = 2*k - 1
    BY <2>1
  <2>4. Len(t) \in Int /\ 1 \in Int
    BY <2>1
  <2>. QED BY <1>3, <2>2, <2>3, <2>4
<1>. QED BY <1>4, <1>5 DEF Closed, t

LEMMA SliceIs ==
  ASSUME NEW s \in Addresses, octets = fromSegments(s),
         NEW start \in Nat, NEW count \in Nat, start + count <= N
  PROVE  /\ writeSubslice(start, count) = Groups(count, [k \in 1..count |-> s[start + k]])
         /\ [k \in 1..count |-> s[start + k]] \in [1..count -> HexValues]
<1>. USE SegmentsAssumption
<1>. DEFINE a == [k \in 1..count |-> s[start + k]]
<1>1. a \in [1..count -> HexValues] /\ \A k \in 1..count : a[k] = s[start + k]
  <2>1. \A k \in 1..count : start + k \in 1..N
    OBVIOUS
  <2>. QED BY <2>1, SegmentsOf
<1>. HIDE DEF a
<1>2. \A k \in 1..count : segment(start + (k - 1)) = a[k]
  <2>. SUFFICES ASSUME NEW k \in 1..count PROVE segment(start + (k - 1)) = s[start + k]
    BY <1>1
  <2>1. start + (k - 1) \in 0..N - 1 /\ (start + (k - 1)) + 1 = start + k
    OBVIOUS
  <2>. QED BY <2>1, SegmentOf
<1>3. \A p \in 1..2*count - 1 : p % 2 = 1 =>
        (p + 1) \div 2 \in 1..count /\ (p - 1) \div 2 = (p + 1) \div 2 - 1
  OBVIOUS
<1>4. \A p \in 1..2*count - 1 :
        (IF p % 2 = 1 THEN HexNumeral(segment(start + (p - 1) \div 2)) ELSE ":")
          = (IF p % 2 = 1 THEN HexNumeral(a[(p + 1) \div 2]) ELSE ":")
  BY <1>2, <1>3
<1>5. writeSubslice(start, count) = Groups(count, a)
  BY <1>4 DEF writeSubslice, Groups
<1>. QED BY <1>1, <1>5 DEF a

LEMMA OctetBytes ==
  ASSUME NEW s \in Addresses, NEW p \in 1..2*N
  PROVE  fromSegments(s)[p] \in 0..255 /\ fromSegments(s)[p] \in DecValues
<1>. USE SegmentsAssumption
<1>1. \E k \in 1..N : p = 2*k - 1 \/ p = 2*k
  <2>1. (p + 1) \div 2 \in 1..N /\ (p = 2*((p + 1) \div 2) - 1 \/ p = 2*((p + 1) \div 2))
    OBVIOUS
  <2>. QED BY <2>1
<1>2. PICK k \in 1..N : p = 2*k - 1 \/ p = 2*k
  BY <1>1
<1>3. /\ fromSegments(s)[2*k - 1] = s[k] \div 256 /\ fromSegments(s)[2*k] = s[k] % 256
      /\ s[k] \div 256 \in 0..255 /\ s[k] % 256 \in 0..255
      /\ s[k] \div 256 \in DecValues /\ s[k] % 256 \in DecValues
  BY OctetsOf, SegmentsOf
<1>. QED BY <1>2, <1>3

\* The segments of a mapped address.
LEMMA MappedIs ==
  ASSUME NEW s \in Addresses, octets = fromSegments(s), IsIpv4Mapped
  PROVE  /\ \A k \in 1..N - 3 : s[k] = 0
         /\ s[N - 2] = MaxWord
         /\ IsOctets(toIpv4Mapped)
         /\ s[N - 1] = 256*toIpv4Mapped[1] + toIpv4Mapped[2]
         /\ s[N] = 256*toIpv4Mapped[3] + toIpv4Mapped[4]
         /\ \A j \in 1..4 : toIpv4Mapped[j] = octets[2*N - 4 + j]
<1>. USE SegmentsAssumption
<1>1. /\ \A p \in 1..2*N - 6 : octets[p] = 0
      /\ octets[2*N - 5] = 255 /\ octets[2*N - 4] = 255
  BY DEF IsIpv4Mapped
<1>2. \A k \in 1..N : /\ octets[2*k - 1] = s[k] \div 256 /\ octets[2*k] = s[k] % 256
                      /\ s[k] = 256*octets[2*k - 1] + octets[2*k]
                      /\ octets[2*k - 1] \in 0..255 /\ octets[2*k] \in 0..255
                      /\ octets[2*k - 1] \in DecValues /\ octets[2*k] \in DecValues
  <2>. SUFFICES ASSUME NEW k \in 1..N
                PROVE  /\ octets[2*k - 1] = s[k] \div 256 /\ octets[2*k] = s[k] % 256
                       /\ s[k] = 256*octets[2*k - 1] + octets[2*k]
                       /\ octets[2*k - 1] \in 0..255 /\ octets[2*k] \in 0..255
                       /\ octets[2*k - 1] \in DecValues /\ octets[2*k] \in DecValues
    OBVIOUS
  <2>1. octets[2*k - 1] = s[k] \div 256 /\ octets[2*k] = s[k] % 256
    BY OctetsOf
  <2>2. /\ s[k] \div 256 \in 0..255 /\ s[k] % 256 \in 0..255
        /\ s[k] \div 256 \in DecValues /\ s[k] % 256 \in DecValues
        /\ s[k] = 256*(s[k] \div 256) + (s[k] % 256)
    BY SegmentsOf
  <2>. QED BY <2>1, <2>2
<1>3. ASSUME NEW k \in 1..N - 3 PROVE s[k] = 0
  <2>1. 2*k - 1 \in 1..2*N - 6 /\ 2*k \in 1..2*N - 6 /\ k \in 1..N
    OBVIOUS
  <2>2. octets[2*k - 1] = 0 /\ octets[2*k] = 0
    BY <1>1, <2>1
  <2>3. s[k] = 256*octets[2*k - 1] + octets[2*k]
    BY <1>2, <2>1
  <2>. QED BY <2>2, <2>3
<1>4. s[N - 2] = MaxWord
  <2>1. N - 2 \in 1..N /\ 2*(N - 2) - 1 = 2*N - 5 /\ 2*(N - 2) = 2*N - 4
    OBVIOUS
  <2>2. s[N - 2] = 256*octets[2*(N - 2) - 1] + octets[2*(N - 2)]
    BY <1>2, <2>1
  <2>3. s[N - 2] = 256*255 + 255
    BY <1>1, <2>1, <2>2
  <2>. QED BY <2>3 DEF MaxWord
<1>. DEFINE x == 2*N - 3
            y == 2*N
            o == SubSeq(octets, x, y)
<1>5. /\ N - 1 \in 1..N /\ 2*(N - 1) - 1 = 2*N - 4 + 1 /\ 2*(N - 1) = 2*N - 4 + 2
      /\ N \in 1..N /\ 2*N - 1 = 2*N - 4 + 3 /\ 2*N = 2*N - 4 + 4
  OBVIOUS
<1>6. \A j \in 1..4 : octets[2*N - 4 + j] \in 0..255 /\ octets[2*N - 4 + j] \in DecValues
  <2>1. \A j \in 1..4 : 2*N - 4 + j \in 1..2*N
    OBVIOUS
  <2>. QED BY <2>1, OctetBytes
<1>7. x \in Int /\ y \in Int /\ y - x + 1 = 4 /\ x <= y /\ \A j \in 1..4 : x + j - 1 = 2*N - 4 + j
      /\ \A p \in x..y : p - (2*N - 4) \in 1..4 /\ 2*N - 4 + (p - (2*N - 4)) = p
  OBVIOUS
<1>. HIDE DEF x, y
<1>8. \A p \in x..y : octets[p] \in 0..255
  <2>. SUFFICES ASSUME NEW p \in x..y, NEW j \in 1..4, 2*N - 4 + j = p PROVE octets[p] \in 0..255
    BY <1>7
  <2>. QED BY <1>6
<1>9. /\ o \in Seq(0..255) /\ Len(o) = IF x <= y THEN y - x + 1 ELSE 0
      /\ \A j \in 1..y - x + 1 : o[j] = octets[x + j - 1]
  BY <1>7, <1>8, SubSeqProperties
<1>. HIDE DEF o
<1>10. Len(o) = 4 /\ \A j \in 1..4 : o[j] = octets[2*N - 4 + j]
  BY <1>7, <1>9
<1>11. o \in [1..4 -> 0..255]
  <2>1. o \in [1..Len(o) -> 0..255]
    BY <1>9, LenProperties
  <2>. QED BY <1>10, <2>1
<1>12. toIpv4Mapped = o
  BY DEF toIpv4Mapped, o, x, y
<1>13. s[N - 1] = 256*o[1] + o[2] /\ s[N] = 256*o[3] + o[4]
  <2>1. /\ s[N - 1] = 256*octets[2*(N - 1) - 1] + octets[2*(N - 1)]
        /\ s[N] = 256*octets[2*N - 1] + octets[2*N]
    BY <1>2, <1>5
  <2>2. /\ o[1] = octets[2*N - 4 + 1] /\ o[2] = octets[2*N - 4 + 2]
        /\ o[3] = octets[2*N - 4 + 3] /\ o[4] = octets[2*N - 4 + 4]
    BY <1>10
  <2>. QED BY <1>5, <2>1, <2>2
<1>. QED BY <1>3, <1>4, <1>6, <1>10, <1>11, <1>12, <1>13 DEF IsOctets
-----------------------------------------------------------------------------
(* parse reads what toString writes. *)

\* The text of an address when it is written.
Expression ==
  IF IsIpv4Mapped THEN <<":", ":", HexNumeral(MaxWord), ":">> \o Ipv4ToString(toIpv4Mapped)
  ELSE IF longest.length > 1
    THEN writeSubslice(0, longest.start) \o <<":", ":">> \o AfterGap(longest)
  ELSE writeSubslice(0, N)

LongestIsZero ==
  /\ longest.start \in Nat /\ longest.length \in Nat
  /\ longest.length > 0 =>
       /\ longest.start + longest.length <= N
       /\ \A k \in longest.start..longest.start + longest.length - 1 : segment(k) = 0

LEMMA OneAndTwo == ASSUME NEW x, NEW y, NEW z PROVE <<x>> \o <<y, z>> = <<x, y, z>>
<1>. DEFINE S == {x, y, z}
            a == <<x>>
            b == <<y, z>>
            c == <<x, y, z>>
<1>1. Len(a) = 1 /\ a[1] = x /\ Len(b) = 2 /\ b[1] = y /\ b[2] = z
      /\ Len(c) = 3 /\ c[1] = x /\ c[2] = y /\ c[3] = z
  OBVIOUS
<1>. a \in Seq(S) /\ b \in Seq(S) /\ c \in Seq(S)
  OBVIOUS
<1>. HIDE DEF S, a, b, c
<1>2. /\ a \o b \in Seq(S) /\ Len(a \o b) = Len(a) + Len(b)
      /\ \A p \in 1..Len(a) : (a \o b)[p] = a[p]
      /\ \A p \in 1..Len(b) : (a \o b)[Len(a) + p] = b[p]
  BY Joined
<1>3. Len(a \o b) = Len(c) /\ (a \o b)[1] = c[1] /\ (a \o b)[2] = c[2] /\ (a \o b)[3] = c[3]
  <2>1. 1 \in 1..1 /\ 1 \in 1..2 /\ 2 \in 1..2 /\ 1 + 1 = 2 /\ 1 + 2 = 3
    OBVIOUS
  <2>. QED BY <1>1, <1>2, <2>1
<1>4. \A p \in 1..Len(a \o b) : p = 1 \/ p = 2 \/ p = 3
  BY <1>1, <1>3
<1>5. a \o b = c
  BY <1>2, <1>3, <1>4, SeqEqual
<1>. QED BY <1>5 DEF a, b, c

LEMMA TwoAndTwo == ASSUME NEW x, NEW y, NEW z, NEW w PROVE <<x, y>> \o <<z, w>> = <<x, y, z, w>>
<1>. DEFINE S == {x, y, z, w}
            a == <<x, y>>
            b == <<z, w>>
            c == <<x, y, z, w>>
<1>1. Len(a) = 2 /\ a[1] = x /\ a[2] = y /\ Len(b) = 2 /\ b[1] = z /\ b[2] = w
      /\ Len(c) = 4 /\ c[1] = x /\ c[2] = y /\ c[3] = z /\ c[4] = w
  OBVIOUS
<1>. a \in Seq(S) /\ b \in Seq(S) /\ c \in Seq(S)
  OBVIOUS
<1>. HIDE DEF S, a, b, c
<1>2. /\ a \o b \in Seq(S) /\ Len(a \o b) = Len(a) + Len(b)
      /\ \A p \in 1..Len(a) : (a \o b)[p] = a[p]
      /\ \A p \in 1..Len(b) : (a \o b)[Len(a) + p] = b[p]
  BY Joined
<1>3. Len(a \o b) = Len(c) /\ (a \o b)[1] = c[1] /\ (a \o b)[2] = c[2] /\ (a \o b)[3] = c[3]
      /\ (a \o b)[4] = c[4]
  <2>1. 1 \in 1..2 /\ 2 \in 1..2 /\ 2 + 1 = 3 /\ 2 + 2 = 4
    OBVIOUS
  <2>. QED BY <1>1, <1>2, <2>1
<1>4. \A p \in 1..Len(a \o b) : p = 1 \/ p = 2 \/ p = 3 \/ p = 4
  BY <1>1, <1>3
<1>5. a \o b = c
  BY <1>2, <1>3, <1>4, SeqEqual
<1>. QED BY <1>5 DEF a, b, c

\* What follows the gap of a mapped address: one segment and four octets.
LEMMA MappedTail ==
  ASSUME NEW o, IsOctets(o), MaxWord \in HexValues
  PROVE  LET b == <<HexNumeral(MaxWord), ":">> \o Ipv4ToString(o) IN
         /\ b \in Seq(Tokens) /\ Len(b) = 9 /\ Closed(b)
         /\ b[1] = HexNumeral(MaxWord) /\ b[2] = ":" /\ \A p \in 1..7 : b[2 + p] = Ipv4ToString(o)[p]
         /\ IsList(b, TRUE)
         /\ List(b) = <<MaxWord, 256*o[1] + o[2], 256*o[3] + o[4]>>
<1>. DEFINE h == HexNumeral(MaxWord)
            m == <<h, ":">>
            q == Ipv4ToString(o)
            b == m \o q
            e == [k \in 1..3 |-> IF k = 1 THEN 0 ELSE IF k = 2 THEN 2 ELSE 10]
<1>1. h \in Tokens /\ h # ":" /\ h \in DOMAIN Hex /\ Hex[h] = MaxWord
  BY HexNumeralOf DEF Marks
<1>. HIDE DEF h
<1>2. Len(m) = 2 /\ m[1] = h /\ m[2] = ":"
  OBVIOUS
<1>3. m \in Seq(Tokens)
  BY <1>1 DEF Tokens, Marks
<1>. HIDE DEF m
<1>4. /\ q \in Seq(Tokens) /\ Len(q) = 7
      /\ \A k \in 1..4 : q[2*k - 1] = DecNumeral(o[k])
      /\ \A k \in 1..3 : q[2*k] = "."
  BY Ipv4Tokens
<1>5. \A p \in 1..7 : q[p] # ":"
  <2>1. \A k \in 1..4 : DecNumeral(o[k]) # ":"
    BY DecNumeralOf DEF IsOctets, Marks
  <2>2. /\ q[2*1 - 1] # ":" /\ q[2*2 - 1] # ":" /\ q[2*3 - 1] # ":" /\ q[2*4 - 1] # ":"
        /\ q[2*1] # ":" /\ q[2*2] # ":" /\ q[2*3] # ":"
    BY <1>4, <2>1
  <2>3. \A p \in 1..7 : \/ p = 2*1 - 1 \/ p = 2*2 - 1 \/ p = 2*3 - 1 \/ p = 2*4 - 1
                        \/ p = 2*1 \/ p = 2*2 \/ p = 2*3
    OBVIOUS
  <2>. QED BY <2>2, <2>3
<1>. HIDE DEF q
<1>6. /\ b \in Seq(Tokens) /\ Len(b) = Len(m) + Len(q)
      /\ \A p \in 1..Len(m) : b[p] = m[p]
      /\ \A p \in 1..Len(q) : b[Len(m) + p] = q[p]
  <2>1. q \in Seq(Tokens)
    BY <1>4
  <2>. QED BY <1>3, <2>1, Joined
<1>. HIDE DEF b
<1>7. Len(b) = 9 /\ b[1] = h /\ b[2] = ":" /\ \A p \in 1..7 : b[2 + p] = q[p]
  <2>1. 1 \in 1..Len(m) /\ 2 \in 1..Len(m)
    BY <1>2
  <2>. QED BY <1>2, <1>4, <1>6, <2>1
<1>8. \A p \in 3..9 : p - 2 \in 1..7 /\ 2 + (p - 2) = p
  OBVIOUS
<1>9. \A p \in 3..9 : b[p] # ":"
  BY <1>5, <1>7, <1>8
<1>10. Closed(b)
  <2>1. \A p \in 1..8 : p = 1 \/ (p + 1 \in 3..9)
    OBVIOUS
  <2>. QED BY <1>1, <1>7, <1>9, <2>1 DEF Closed, Gaps
<1>11. Cut(b, ":", 2, e)
  <2>1. e \in [1..2 + 1 -> 0..9 + 1] /\ Rising(e, 2 + 1) /\ e[1] = 0 /\ e[2] = 2 /\ e[2 + 1] = 9 + 1
    BY DEF Rising
  <2>. HIDE DEF e
  <2>2. \A p \in 1..9 : b[p] = ":" <=> \E k \in 2..2 : e[k] = p
    <3>1. \A p \in 1..9 : p = 1 \/ p = 2 \/ p \in 3..9
      OBVIOUS
    <3>2. \A p \in 1..9 : b[p] = ":" <=> p = 2
      BY <1>1, <1>7, <1>9, <3>1
    <3>. QED BY <2>1, <3>2
  <2>. QED BY <1>7, <2>1, <2>2 DEF Cut
<1>12. e[1] = 1 - 1 /\ e[1 + 1] = 1 + 1 /\ e[2] = 2 /\ e[2 + 1] = 10
  OBVIOUS
<1>. HIDE DEF e
<1>. b \in Seq(Tokens)
  BY <1>6
<1>12a. ASSUME NEW n, Cut(b, ":", n, e), NEW k \in 1..n
        PROVE  /\ Fields(b, ":")[k] \in Seq(Tokens)
               /\ Len(Fields(b, ":")[k]) = e[k + 1] - e[k] - 1
               /\ \A p \in 1..e[k + 1] - e[k] - 1 : Fields(b, ":")[k][p] = b[e[k] + p]
  BY <1>12a, FieldAt
<1>13. ASSUME NEW n, Cut(b, ":", n, e), 1 \in 1..n, 2 \in 1..n
       PROVE  /\ Len(Fields(b, ":")) = n
              /\ Len(Fields(b, ":")[1]) = 1 /\ Fields(b, ":")[1][1] = b[1]
              /\ Fields(b, ":")[2] = q
  <2>1. Len(Fields(b, ":")) = n
    BY <1>6, <1>13, FieldCount
  <2>2. Len(Fields(b, ":")[1]) = 1 /\ Fields(b, ":")[1][1] = b[1]
    BY <1>6, <1>12, <1>13, TokenField
  <2>. DEFINE f == Fields(b, ":")[2]
  <2>. HIDE DEF f
  <2>3. /\ f \in Seq(Tokens) /\ Len(f) = e[2 + 1] - e[2] - 1
        /\ \A p \in 1..e[2 + 1] - e[2] - 1 : f[p] = b[e[2] + p]
    <3>. QED BY <1>13, <1>12a DEF f
  <2>4. Len(f) = Len(q) /\ \A p \in 1..Len(f) : f[p] = q[p]
    BY <1>4, <1>7, <1>12, <2>3
  <2>5. f = q
    BY <1>4, <2>3, <2>4, SeqEqual
  <2>. QED BY <2>1, <2>2, <2>5 DEF f
<1>14. /\ Len(Fields(b, ":")) = 2 /\ DOMAIN Fields(b, ":") = 1..2
       /\ Len(Fields(b, ":")[1]) = 1 /\ Fields(b, ":")[1][1] = h
       /\ Fields(b, ":")[2] = q
  <2>1. Len(Fields(b, ":")) = 2 /\ Len(Fields(b, ":")[1]) = 1
        /\ Fields(b, ":")[1][1] = b[1] /\ Fields(b, ":")[2] = q
    <3>1. 1 \in 1..2 /\ 2 \in 1..2
      OBVIOUS
    <3>. QED BY <1>11, <1>13, <3>1
  <2>2. DOMAIN Fields(b, ":") = 1..Len(Fields(b, ":"))
    BY <1>6, FieldsAre
  <2>. QED BY <1>7, <2>1, <2>2
<1>15. IsQuad(q) /\ Quad(q) = <<256*o[1] + o[2], 256*o[3] + o[4]>> /\ ~IsSegment(q)
  BY <1>4, QuadOfText DEF q, IsSegment
<1>16. IsList(b, TRUE)
  <2>. DEFINE field == Fields(b, ":")
  <2>1. \A k \in 1..2 : k = 1 \/ k = 2
    OBVIOUS
  <2>2. IsSegment(field[1])
    BY <1>1, <1>14 DEF IsSegment
  <2>3. Len(field) = 2 /\ DOMAIN field = 1..2 /\ IsQuad(field[2])
    BY <1>14, <1>15
  <2>. HIDE DEF field
  <2>4. \A k \in DOMAIN field : IsSegment(field[k]) \/ (TRUE /\ k = Len(field) /\ IsQuad(field[k]))
    BY <2>1, <2>2, <2>3
  <2>. QED BY <2>4 DEF IsList, field
<1>17. List(b) = <<MaxWord, 256*o[1] + o[2], 256*o[3] + o[4]>>
  <2>1. b # <<>>
    BY <1>6, <1>7, EmptySeq
  <2>2. List(b) = [k \in 1..2 - 1 |-> Hex[Fields(b, ":")[k][1]]] \o Quad(q)
    BY <1>14, <1>15, <2>1 DEF List
  <2>3. [k \in 1..2 - 1 |-> Hex[Fields(b, ":")[k][1]]] = <<MaxWord>>
    BY <1>1, <1>14
  <2>. QED BY <1>15, <2>2, <2>3, OneAndTwo
<1>. QED BY <1>6, <1>7, <1>10, <1>16, <1>17 DEF b, m, q, h
LEMMA ZeroGroups ==
  ASSUME NEW s
  PROVE  Groups(0, s) = <<>>
BY DEF Groups

\* Places of a text with a gap.
LEMMA GapTokens ==
  ASSUME NEW a \in Seq(Tokens), NEW b \in Seq(Tokens), NEW x, x # ":",
         \A p \in 1..Len(a) : a[p] # x, \A p \in 1..Len(b) : b[p] # x
  PROVE  LET t == a \o <<":", ":">> \o b IN \A p \in 1..Len(t) : t[p] # x
<1>. DEFINE m == <<":", ":">>
            u == a \o m
            t == u \o b
<1>1. Len(m) = 2 /\ m[1] = ":" /\ m[2] = ":"
  OBVIOUS
<1>. m \in Seq(Tokens)
  BY DEF Tokens, Marks
<1>. HIDE DEF m
<1>2. /\ u \in Seq(Tokens) /\ Len(u) = Len(a) + Len(m)
      /\ \A p \in 1..Len(a) + Len(m) : u[p] = IF p <= Len(a) THEN a[p] ELSE m[p - Len(a)]
  BY ConcatProperties
<1>. u \in Seq(Tokens)
  BY <1>2
<1>. HIDE DEF u
<1>3. /\ t \in Seq(Tokens) /\ Len(t) = Len(u) + Len(b)
      /\ \A p \in 1..Len(u) + Len(b) : t[p] = IF p <= Len(u) THEN u[p] ELSE b[p - Len(u)]
  BY ConcatProperties
<1>. HIDE DEF t
<1>4. Len(a) \in Nat /\ Len(b) \in Nat /\ Len(u) \in Nat
  BY LenProperties
<1>5. ASSUME NEW p \in 1..Len(u) PROVE u[p] # x
  <2>1. CASE p <= Len(a)
    BY <1>2, <1>4, <2>1
  <2>2. CASE ~(p <= Len(a))
    <3>1. p - Len(a) = 1 \/ p - Len(a) = 2
      BY <1>1, <1>2, <1>4, <2>2
    <3>2. u[p] = m[p - Len(a)]
      BY <1>2, <2>2
    <3>. QED BY <1>1, <3>1, <3>2
  <2>. QED BY <2>1, <2>2
<1>6. ASSUME NEW p \in 1..Len(t) PROVE t[p] # x
  <2>1. CASE p <= Len(u)
    BY <1>3, <1>4, <1>5, <2>1
  <2>2. CASE ~(p <= Len(u))
    <3>1. p - Len(u) \in 1..Len(b)
      BY <1>3, <1>4, <2>2
    <3>2. t[p] = b[p - Len(u)]
      BY <1>3, <2>2
    <3>. QED BY <3>1, <3>2
  <2>. QED BY <2>1, <2>2
<1>. QED BY <1>6 DEF t, u, m

LEMMA GroupsNoDot ==
  ASSUME NEW n \in Nat, NEW s \in [1..n -> HexValues]
  PROVE  \A p \in 1..Len(Groups(n, s)) : Groups(n, s)[p] # "."
<1>. DEFINE t == Groups(n, s)
<1>1. /\ Len(t) = IF n = 0 THEN 0 ELSE 2*n - 1
      /\ \A k \in 1..n : t[2*k - 1] = HexNumeral(s[k])
      /\ \A k \in 1..n - 1 : t[2*k] = ":"
  BY GroupsAre
<1>2. \A k \in 1..n : HexNumeral(s[k]) # "."
  BY HexNumeralOf DEF Marks
<1>. HIDE DEF t
<1>3. ASSUME NEW p \in 1..Len(t) PROVE t[p] # "."
  <2>1. p \in 1..2*n - 1
    BY <1>1
  <2>2. CASE \E k \in 1..n : p = 2*k - 1 /\ p % 2 = 1 /\ (p + 1) \div 2 = k
    BY <1>1, <1>2, <2>2
  <2>3. CASE \E k \in 1..n - 1 : p = 2*k /\ p % 2 = 0
    BY <1>1, <2>3
  <2>. QED BY <2>1, <2>2, <2>3, OddOrEven
<1>. QED BY <1>3 DEF t

\* A text that inet_pton reads, with a gap.
LEMMA GapParse ==
  ASSUME NEW a \in Seq(Tokens), NEW b \in Seq(Tokens), Closed(a), Closed(b),
         IsList(a, FALSE), IsList(b, TRUE),
         NEW s, NEW x \in Nat, NEW z \in Nat \ {0}, NEW y \in Nat,
         Len(List(a)) = x, Len(List(b)) = y, x + z + y = N,
         List(a) \o [k \in 1..z |-> 0] \o List(b) = s
  PROVE  InetPton(a \o <<":", ":">> \o b) = ParseOk(fromSegments(s))
<1>. USE SegmentsAssumption
<1>. DEFINE t == a \o <<":", ":">> \o b
            p == Len(a) + 1
<1>1. Gaps(t) = {p} /\ Left(t, p) = a /\ Right(t, p) = b
  BY GapText
<1>2. N - Len(List(a)) - Len(List(b)) = z
  OBVIOUS
<1>. HIDE DEF t, p
<1>3. InetPton(t) =
        IF IsList(a, FALSE) /\ IsList(b, TRUE) /\ ~(N - Len(List(a)) - Len(List(b)) < 1)
          THEN ParseOk(fromSegments(
                 List(a) \o [k \in 1..N - Len(List(a)) - Len(List(b)) |-> 0] \o List(b)))
          ELSE ParseErr("Unspecified")
  <2>1. InetPton(t) =
        IF /\ IsList(Left(t, p), FALSE) /\ IsList(Right(t, p), TRUE)
           /\ ~(N - Len(List(Left(t, p))) - Len(List(Right(t, p))) < 1)
          THEN ParseOk(fromSegments(
                 List(Left(t, p))
                   \o [k \in 1..N - Len(List(Left(t, p))) - Len(List(Right(t, p))) |-> 0]
                   \o List(Right(t, p))))
          ELSE ParseErr("Unspecified")
    BY <1>1, Ipv6Accepts
  <2>. QED BY <1>1, <2>1, Zenon
<1>4. ~(z < 1)
  OBVIOUS
<1>5. [k \in 1..N - Len(List(a)) - Len(List(b)) |-> 0] = [k \in 1..z |-> 0]
  BY <1>2, Zenon
<1>6. InetPton(t) = ParseOk(fromSegments(List(a) \o [k \in 1..z |-> 0] \o List(b)))
  BY <1>2, <1>3, <1>4, <1>5, Zenon
<1>. QED BY <1>6 DEF t

\* What toString writes of an address: parse reads the address in it, and it is
\* not an IPv4 address.
LEMMA ExpressionReadsBack ==
  ASSUME NEW s \in Addresses, octets = fromSegments(s), LongestIsZero
  PROVE  /\ Expression \in Seq(Tokens) /\ Len(Expression) > 0
         /\ InetPton(Expression) = ParseOk(octets)
         /\ Expression[1] = ":" \/ \A p \in 1..Len(Expression) : Expression[p] # "."
<1>. USE SegmentsAssumption
<1>1. CASE IsIpv4Mapped
  <2>. DEFINE o == toIpv4Mapped
              h == HexNumeral(MaxWord)
              b == <<h, ":">> \o Ipv4ToString(o)
              a == <<>>
              t == a \o <<":", ":">> \o b
  <2>1. /\ \A k \in 1..N - 3 : s[k] = 0
        /\ s[N - 2] = MaxWord /\ IsOctets(o)
        /\ s[N - 1] = 256*o[1] + o[2] /\ s[N] = 256*o[3] + o[4]
    BY <1>1, MappedIs
  <2>2. N - 2 \in 1..N /\ MaxWord \in HexValues
    <3>1. N - 2 \in 1..N
      OBVIOUS
    <3>2. s[N - 2] \in HexValues
      BY <3>1, SegmentsOf
    <3>. QED BY <2>1, <3>1, <3>2
  <2>3. /\ b \in Seq(Tokens) /\ Len(b) = 9 /\ Closed(b) /\ IsList(b, TRUE)
        /\ List(b) = <<s[N - 2], s[N - 1], s[N]>>
    BY <2>1, <2>2, MappedTail
  <2>4. a \in Seq(Tokens) /\ Closed(a) /\ IsList(a, FALSE) /\ List(a) = <<>> /\ Len(a) = 0
    BY EmptySeq DEF Closed, Gaps, IsList, List
  <2>5. List(a) \o [k \in 1..N - 3 |-> 0] \o List(b) = s
    <3>1. N \in Nat /\ 0 \in Nat /\ N - 3 \in Nat /\ 0 + (N - 3) <= N
          /\ \A k \in 0 + 1..0 + (N - 3) : s[k] = 0
      BY <2>1
    <3>2. s \in [1..N -> Int]
      BY SegmentsOf
    <3>3. [k \in 1..0 |-> s[k]] \o [k \in 1..N - 3 |-> 0]
            \o [k \in 1..N - (0 + (N - 3)) |-> s[0 + (N - 3) + k]] = s
      BY <3>1, <3>2, ThreeParts
    <3>4. [k \in 1..0 |-> s[k]] = <<>>
      OBVIOUS
    <3>5. [k \in 1..N - (0 + (N - 3)) |-> s[0 + (N - 3) + k]] = <<s[N - 2], s[N - 1], s[N]>>
      <4>1. N - (0 + (N - 3)) = 3 /\ 0 + (N - 3) + 1 = N - 2 /\ 0 + (N - 3) + 2 = N - 1
            /\ 0 + (N - 3) + 3 = N
        OBVIOUS
      <4>. QED BY <4>1
    <3>. QED BY <2>3, <2>4, <3>3, <3>4, <3>5
  <2>6. InetPton(t) = ParseOk(fromSegments(s))
    <3>1. Len(List(a)) = 0 /\ Len(List(b)) = 3 /\ N - 3 \in Nat \ {0} /\ 0 + (N - 3) + 3 = N
      BY <2>3, <2>4
    <3>. HIDE DEF a, b
    <3>2. ASSUME NEW x \in Nat, NEW z \in Nat \ {0}, NEW y \in Nat,
                 Len(List(a)) = x, Len(List(b)) = y, x + z + y = N,
                 List(a) \o [k \in 1..z |-> 0] \o List(b) = s
          PROVE  InetPton(t) = ParseOk(fromSegments(s))
      <4>1. a \in Seq(Tokens) /\ Closed(a) /\ IsList(a, FALSE)
        BY <2>4
      <4>2. b \in Seq(Tokens) /\ Closed(b) /\ IsList(b, TRUE)
        BY <2>3
      <4>. QED BY <3>2, <4>1, <4>2, GapParse
    <3>. HIDE DEF t
    <3>. QED BY <2>5, <3>1, <3>2
  <2>7. /\ t \in Seq(Tokens) /\ Len(t) = Len(a) + 2 + Len(b)
        /\ Gaps(t) = {Len(a) + 1}
    <3>. HIDE DEF a, b
    <3>. QED BY <2>3, <2>4, GapText
  <2>8. Expression = t
    <3>1. Expression = <<":", ":", h, ":">> \o Ipv4ToString(o)
      BY <1>1 DEF Expression
    <3>2. Ipv4ToString(o) \in Seq(Tokens) /\ h \in Tokens
      BY <2>1, <2>2, Ipv4Tokens, HexNumeralOf
    <3>3. <<":", ":">> \in Seq(Tokens) /\ <<h, ":">> \in Seq(Tokens)
      BY <3>2 DEF Tokens, Marks
    <3>4. t = <<":", ":">> \o b
      BY <3>3, ConcatEmptySeq
    <3>5. <<":", ":">> \o b = (<<":", ":">> \o <<h, ":">>) \o Ipv4ToString(o)
      BY <3>2, <3>3, ConcatAssociative
    <3>6. <<":", ":">> \o <<h, ":">> = <<":", ":", h, ":">>
      BY TwoAndTwo
    <3>. QED BY <3>1, <3>4, <3>5, <3>6
  <2>9. Len(t) > 0 /\ t[1] = ":"
    BY <2>3, <2>4, <2>7 DEF Gaps
  <2>. QED BY <2>6, <2>7, <2>8, <2>9
<1>2. CASE ~IsIpv4Mapped /\ longest.length > 1
  <2>. DEFINE x == longest.start
              z == longest.length
              y == N - (x + z)
              l == [k \in 1..x |-> s[0 + k]]
              r == [k \in 1..y |-> s[x + z + k]]
              a == Groups(x, l)
              b == Groups(y, r)
              t == a \o <<":", ":">> \o b
  <2>1. x \in Nat /\ z \in Nat \ {0} /\ x + z <= N /\ \A k \in x..x + z - 1 : segment(k) = 0
    BY <1>2 DEF LongestIsZero
  <2>2. y \in Nat /\ x + z + y = N /\ 0 \in Nat /\ 0 + x <= N /\ x + z \in Nat /\ (x + z) + y <= N
    BY <2>1
  <2>. HIDE DEF x, y, z
  <2>3. writeSubslice(0, x) = a /\ l \in [1..x -> HexValues]
    BY <2>1, <2>2, SliceIs
  <2>4. writeSubslice(x + z, y) = b /\ r \in [1..y -> HexValues]
    BY <2>1, <2>2, SliceIs
  <2>. HIDE DEF l, r
  <2>5. /\ a \in Seq(Tokens) /\ Closed(a) /\ IsList(a, FALSE) /\ List(a) = l
        /\ \A p \in 1..Len(a) : a[p] # "."
    BY <2>1, <2>3, GroupsAre, GroupsClosed, GroupsReadBack, GroupsNoDot
  <2>6. /\ b \in Seq(Tokens) /\ Closed(b) /\ IsList(b, TRUE) /\ List(b) = r
        /\ \A p \in 1..Len(b) : b[p] # "."
    BY <2>2, <2>4, GroupsAre, GroupsClosed, GroupsReadBack, GroupsNoDot
  <2>7. l \o [k \in 1..z |-> 0] \o r = s
    <3>1. \A k \in x + 1..x + z : s[k] = 0
      <4>. SUFFICES ASSUME NEW k \in x + 1..x + z PROVE s[k] = 0
        OBVIOUS
      <4>1. k - 1 \in x..x + z - 1 /\ k - 1 \in 0..N - 1 /\ (k - 1) + 1 = k
        BY <2>1
      <4>. QED BY <2>1, <4>1, SegmentOf
    <3>2. N \in Nat /\ s \in [1..N -> Int]
      BY SegmentsOf
    <3>3. [k \in 1..x |-> s[k]] \o [k \in 1..z |-> 0] \o [k \in 1..N - (x + z) |-> s[x + z + k]] = s
      BY <2>1, <3>1, <3>2, ThreeParts
    <3>4. l = [k \in 1..x |-> s[k]]
      BY DEF l
    <3>5. r = [k \in 1..N - (x + z) |-> s[x + z + k]]
      BY DEF r, y
    <3>. QED BY <3>3, <3>4, <3>5
  <2>. HIDE DEF a, b
  <2>8. Len(l) = x /\ Len(r) = y
    BY <2>1, <2>2, <2>3, <2>4, FunctionIsSeq
  <2>9. InetPton(t) = ParseOk(fromSegments(s))
    BY <2>1, <2>2, <2>5, <2>6, <2>7, <2>8, GapParse
  <2>10. /\ t \in Seq(Tokens) /\ Len(t) = Len(a) + 2 + Len(b)
    BY <2>5, <2>6, GapText
  <2>11. \A p \in 1..Len(t) : t[p] # "."
    BY <2>5, <2>6, GapTokens
  <2>12. Expression = t
    BY <1>2, <2>3, <2>4 DEF Expression, AfterGap, x, y, z
  <2>13. Len(t) > 0
    BY <2>5, <2>6, <2>10, LenProperties
  <2>. QED BY <2>9, <2>10, <2>11, <2>12, <2>13
<1>3. CASE ~IsIpv4Mapped /\ ~(longest.length > 1)
  <2>. DEFINE l == [k \in 1..N |-> s[0 + k]]
              a == Groups(N, l)
  <2>1. writeSubslice(0, N) = a /\ l \in [1..N -> HexValues]
    BY SliceIs
  <2>2. l = s
    BY SegmentsOf
  <2>3. Expression = a
    BY <1>3, <2>1 DEF Expression
  <2>. HIDE DEF l
  <2>4. /\ a \in Seq(Tokens) /\ Len(a) = 2*N - 1 /\ Closed(a) /\ IsList(a, TRUE) /\ List(a) = s
        /\ \A p \in 1..Len(a) : a[p] # "."
    <3>1. N \in Nat /\ N # 0
      OBVIOUS
    <3>2. a \in Seq(Tokens) /\ Len(a) = IF N = 0 THEN 0 ELSE 2*N - 1
      BY <2>1, <3>1, GroupsAre
    <3>3. Closed(a) /\ \A p \in 1..Len(a) : a[p] # "."
      BY <2>1, <3>1, GroupsClosed, GroupsNoDot
    <3>4. IsList(a, TRUE) /\ List(a) = l
      BY <2>1, <3>1, GroupsReadBack
    <3>. QED BY <2>2, <3>1, <3>2, <3>3, <3>4
  <2>. HIDE DEF a
  <2>5. Len(s) = N /\ a # <<>> /\ Len(a) > 0
    <3>1. Len(s) = N
      BY SegmentsOf, FunctionIsSeq
    <3>2. Len(a) > 0
      BY <2>4
    <3>. QED BY <3>1, <3>2, EmptySeq
  <2>6. InetPton(a) = ParseOk(fromSegments(s))
    BY <2>4, <2>5, Ipv6Accepts DEF Closed
  <2>. QED BY <2>3, <2>4, <2>5, <2>6
<1>. QED BY <1>1, <1>2, <1>3
-----------------------------------------------------------------------------
(* How a text begins. *)

\* The first field, unless it is empty, begins as the text does.
LEMMA FirstField ==
  ASSUME NEW t \in Seq(Tokens), NEW mark
  PROVE  /\ 1 \in 1..Len(Fields(t, mark)) /\ Fields(t, mark)[1] \in Seq(Tokens)
         /\ Len(Fields(t, mark)[1]) # 0 => Len(t) > 0 /\ Fields(t, mark)[1][1] = t[1]
         /\ Len(Fields(t, mark)[1]) = 0 => Len(t) = 0 \/ t[1] = mark
<1>1. PICK n \in Nat \ {0} : \E e : Cut(t, mark, n, e)
  BY CutExists
<1>2. PICK e : Cut(t, mark, n, e)
  BY <1>1
<1>. 1 \in 1..n
  OBVIOUS
<1>3. Len(Fields(t, mark)) = n
  BY <1>2, FieldCount
<1>4. /\ Fields(t, mark)[1] \in Seq(Tokens)
      /\ Len(Fields(t, mark)[1]) = e[1 + 1] - e[1] - 1 /\ e[1 + 1] \in 1..Len(t) + 1
      /\ \A p \in 1..e[1 + 1] - e[1] - 1 : Fields(t, mark)[1][p] = t[e[1] + p]
  BY <1>2, FieldAt
<1>5. e[1] = 0 /\ Len(t) \in Nat /\ e[n + 1] = Len(t) + 1
  BY <1>2, TextTypes DEF Cut
<1>6. ASSUME Len(Fields(t, mark)[1]) = 0 PROVE Len(t) = 0 \/ t[1] = mark
  <2>1. e[2] = 1
    BY <1>4, <1>5, <1>6
  <2>2. CASE n = 1
    BY <1>5, <2>1, <2>2
  <2>3. CASE n # 1
    <3>1. 2 \in 2..n
      BY <1>3, <2>3
    <3>2. e[2] \in 1..Len(t)
      BY <1>2, <3>1, CutInside
    <3>3. t[e[2]] = mark
      BY <1>2, <3>1, <3>2 DEF Cut
    <3>. QED BY <2>1, <3>3
  <2>. QED BY <2>2, <2>3
<1>. QED BY <1>3, <1>4, <1>5, <1>6

\* A text without dots is not an IPv4 address.
LEMMA NoDots ==
  ASSUME NEW t \in Seq(Tokens), \A p \in 1..Len(t) : t[p] # "."
  PROVE  ~Ipv4Parse(t).ok
<1>1. PICK n \in Nat \ {0} : \E e : Cut(t, ".", n, e)
  BY CutExists
<1>2. PICK e : Cut(t, ".", n, e)
  BY <1>1
<1>3. Len(Fields(t, ".")) = n
  BY <1>2, FieldCount
<1>4. n = 1
  <2> SUFFICES ASSUME n # 1 PROVE FALSE
    OBVIOUS
  <2>1. 2 \in 2..n
    BY <1>1
  <2>2. e[2] \in 1..Len(t)
    BY <1>2, <2>1, CutInside
  <2>3. t[e[2]] = "."
    BY <1>2, <2>1, <2>2 DEF Cut
  <2>. QED BY <2>2, <2>3
<1>5. n # 4
  BY <1>4
<1>. QED BY <1>3, <1>5, Ipv4Accepts

\* A list of segments begins with a numeral.
LEMMA ListHead ==
  ASSUME NEW t \in Seq(Tokens), NEW last, IsList(t, last), t # <<>>
  PROVE  Len(t) > 0 /\ t[1] \in Numerals
<1>. DEFINE field == Fields(t, ":")
<1>1. 1 \in DOMAIN field /\ field[1] \in Seq(Tokens)
      /\ (Len(field[1]) # 0 => Len(t) > 0 /\ field[1][1] = t[1])
  <2>1. DOMAIN field = 1..Len(field)
    BY FieldsAre
  <2>. QED BY <2>1, FirstField
<1>2. \A k \in DOMAIN field : IsSegment(field[k]) \/ (last /\ k = Len(field) /\ IsQuad(field[k]))
  BY DEF IsList
<1>. HIDE DEF field
<1>3. CASE IsSegment(field[1])
  BY <1>1, <1>3 DEF IsSegment, Numerals
<1>4. CASE IsQuad(field[1])
  <2>. DEFINE f == field[1]
  <2>1. StartsWithNumber(Fields(f, ".")[1], 255)
    BY <1>4 DEF IsQuad
  <2>2. f \in Seq(Tokens)
    BY <1>1
  <2>. HIDE DEF f
  <2>3. Fields(f, ".")[1] \in Seq(Tokens)
        /\ (Len(Fields(f, ".")[1]) # 0 => Len(f) > 0 /\ Fields(f, ".")[1][1] = f[1])
    BY <2>2, FirstField
  <2>4. Len(Fields(f, ".")[1]) \in Nat \ {0} /\ Fields(f, ".")[1][1] \in DOMAIN Dec
    BY <2>1, <2>3, FirstToken
  <2>5. Len(f) > 0 /\ f[1] \in DOMAIN Dec
    BY <2>3, <2>4
  <2>6. Len(field[1]) # 0 /\ field[1][1] \in DOMAIN Dec
    BY <2>5 DEF f
  <2>. QED BY <1>1, <2>6 DEF Numerals
<1>. QED BY <1>1, <1>2, <1>3, <1>4

\* The part of a text before a place and the part behind it.
LEMMA PartBefore ==
  ASSUME NEW t \in Seq(Tokens), NEW m \in 0..Len(t)
  PROVE  LET l == SubSeq(t, 1, m) IN
         l \in Seq(Tokens) /\ Len(l) = m /\ \A p \in 1..m : l[p] = t[p]
<1>. DEFINE l == SubSeq(t, 1, m)
<1>1. m \in Int /\ 1 \in Int /\ \A p \in 1..m : t[p] \in Tokens
  BY TextTypes
<1>2. /\ l \in Seq(Tokens) /\ Len(l) = IF 1 <= m THEN m - 1 + 1 ELSE 0
      /\ \A p \in 1..m - 1 + 1 : l[p] = t[1 + p - 1]
  BY <1>1, SubSeqProperties
<1>3. m - 1 + 1 = m /\ (~(1 <= m) => m = 0) /\ \A p \in 1..m : 1 + p - 1 = p
  BY TextTypes
<1>. HIDE DEF l
<1>4. l \in Seq(Tokens) /\ Len(l) = m /\ \A p \in 1..m : l[p] = t[p]
  BY <1>2, <1>3
<1>. QED BY <1>4 DEF l

LEMMA PartBehind ==
  ASSUME NEW t \in Seq(Tokens), NEW m \in 0..Len(t)
  PROVE  LET r == SubSeq(t, m + 1, Len(t)) IN
         r \in Seq(Tokens) /\ Len(r) = Len(t) - m /\ \A p \in 1..Len(t) - m : r[p] = t[m + p]
<1>. DEFINE x == m + 1
            y == Len(t)
            r == SubSeq(t, x, y)
<1>1. x \in Int /\ y \in Int /\ \A p \in x..y : t[p] \in Tokens
  BY TextTypes
<1>2. y - x + 1 = y - m /\ (~(x <= y) => y - m = 0) /\ \A p \in 1..y - m : x + p - 1 = m + p
  BY TextTypes
<1>. HIDE DEF x, y
<1>3. /\ r \in Seq(Tokens) /\ Len(r) = IF x <= y THEN y - x + 1 ELSE 0
      /\ \A p \in 1..y - x + 1 : r[p] = t[x + p - 1]
  BY <1>1, SubSeqProperties
<1>. HIDE DEF r
<1>4. r \in Seq(Tokens) /\ Len(r) = y - m /\ \A p \in 1..y - m : r[p] = t[m + p]
  BY <1>2, <1>3
<1>. QED BY <1>4 DEF r, x, y

\* What the gap leaves of a text on its two sides.
LEMMA Sides ==
  ASSUME NEW t \in Seq(Tokens), NEW p \in Gaps(t)
  PROVE  /\ p \in 1..Len(t) - 1 /\ Len(t) \in Nat /\ t[p] = ":" /\ t[p + 1] = ":"
         /\ Left(t, p) \in Seq(Tokens) /\ Len(Left(t, p)) = p - 1
         /\ \A q \in 1..p - 1 : Left(t, p)[q] = t[q]
         /\ Right(t, p) \in Seq(Tokens) /\ Len(Right(t, p)) = Len(t) - p - 1
         /\ \A q \in 1..Len(t) - p - 1 : Right(t, p)[q] = t[p + 1 + q]
<1>1. Len(t) \in Nat
  BY TextTypes
<1>2. p \in 1..Len(t) - 1 /\ t[p] = ":" /\ t[p + 1] = ":"
  BY DEF Gaps
<1>3. p - 1 \in 0..Len(t) /\ p + 1 \in 0..Len(t) /\ (p + 1) + 1 = p + 2 /\ Len(t) - (p + 1) = Len(t) - p - 1
  BY <1>1, <1>2
<1>4. /\ Left(t, p) \in Seq(Tokens) /\ Len(Left(t, p)) = p - 1
      /\ \A q \in 1..p - 1 : Left(t, p)[q] = t[q]
  BY <1>3, PartBefore DEF Left
<1>5. /\ Right(t, p) \in Seq(Tokens) /\ Len(Right(t, p)) = Len(t) - p - 1
      /\ \A q \in 1..Len(t) - p - 1 : Right(t, p)[q] = t[p + 1 + q]
  <2>. DEFINE m == p + 1
  <2>1. m \in 0..Len(t) /\ m + 1 = p + 2 /\ Len(t) - m = Len(t) - p - 1
    BY <1>3
  <2>. HIDE DEF m
  <2>2. /\ SubSeq(t, m + 1, Len(t)) \in Seq(Tokens) /\ Len(SubSeq(t, m + 1, Len(t))) = Len(t) - m
        /\ \A q \in 1..Len(t) - m : SubSeq(t, m + 1, Len(t))[q] = t[m + q]
    BY <2>1, PartBehind
  <2>3. Right(t, p) = SubSeq(t, m + 1, Len(t))
    BY <2>1 DEF Right
  <2>4. /\ Right(t, p) \in Seq(Tokens) /\ Len(Right(t, p)) = Len(t) - m
        /\ \A q \in 1..Len(t) - m : Right(t, p)[q] = t[m + q]
    BY <2>2, <2>3
  <2>. QED BY <2>1, <2>4 DEF m
<1>. QED BY <1>1, <1>2, <1>4, <1>5

\* What is accepted, without a gap and with one.
LEMMA Ipv6Cases ==
  ASSUME NEW t \in Seq(Tokens), InetPton(t).ok
  PROVE  \/ /\ Gaps(t) = {} /\ t # <<>> /\ IsList(t, TRUE) /\ Len(List(t)) = N
            /\ InetPton(t) = ParseOk(fromSegments(List(t)))
         \/ \E p : /\ Gaps(t) = {p}
                   /\ IsList(Left(t, p), FALSE) /\ IsList(Right(t, p), TRUE)
                   /\ ~(N - Len(List(Left(t, p))) - Len(List(Right(t, p))) < 1)
<1>1. ~ParseErr("Unspecified").ok
  BY DEF ParseErr
<1>2. CASE Gaps(t) = {}
  <2>1. InetPton(t) = IF t # <<>> /\ IsList(t, TRUE) /\ Len(List(t)) = N
                         THEN ParseOk(fromSegments(List(t))) ELSE ParseErr("Unspecified")
    BY <1>2, Ipv6Accepts
  <2>. QED BY <1>1, <1>2, <2>1
<1>3. CASE \E p : Gaps(t) = {p}
  <2>1. PICK p : Gaps(t) = {p}
    BY <1>3
  <2>2. InetPton(t) =
          IF /\ IsList(Left(t, p), FALSE) /\ IsList(Right(t, p), TRUE)
             /\ ~(N - Len(List(Left(t, p))) - Len(List(Right(t, p))) < 1)
            THEN ParseOk(fromSegments(
                   List(Left(t, p))
                     \o [k \in 1..N - Len(List(Left(t, p))) - Len(List(Right(t, p))) |-> 0]
                     \o List(Right(t, p))))
            ELSE ParseErr("Unspecified")
    BY <2>1, Ipv6Accepts
  <2>3. /\ IsList(Left(t, p), FALSE) /\ IsList(Right(t, p), TRUE)
        /\ ~(N - Len(List(Left(t, p))) - Len(List(Right(t, p))) < 1)
    BY <1>1, <2>2, Zenon
  <2>. QED BY <2>1, <2>3
<1>4. CASE Gaps(t) # {} /\ \A p : Gaps(t) # {p}
  BY <1>1, <1>4, Ipv6Accepts
<1>. QED BY <1>2, <1>3, <1>4

\* What is accepted begins with a numeral or a colon.
LEMMA Ipv6Head ==
  ASSUME NEW t \in Seq(Tokens), InetPton(t).ok
  PROVE  Len(t) > 0 /\ (t[1] \in Numerals \/ t[1] = ":")
<1>1. CASE t # <<>> /\ IsList(t, TRUE)
  BY <1>1, ListHead
<1>2. ASSUME NEW p, Gaps(t) = {p}, IsList(Left(t, p), FALSE)
      PROVE  Len(t) > 0 /\ (t[1] \in Numerals \/ t[1] = ":")
  <2>1. /\ p \in 1..Len(t) - 1 /\ Len(t) \in Nat /\ t[p] = ":"
        /\ Left(t, p) \in Seq(Tokens) /\ Len(Left(t, p)) = p - 1
        /\ \A q \in 1..p - 1 : Left(t, p)[q] = t[q]
    <3>1. p \in Gaps(t)
      BY <1>2
    <3>. QED BY <3>1, Sides
  <2>2. CASE p = 1
    BY <2>1, <2>2
  <2>3. CASE p # 1
    <3>1. Left(t, p) # <<>> /\ 1 \in 1..p - 1
      BY <2>1, <2>3, EmptySeq
    <3>2. Left(t, p)[1] \in Numerals
      BY <1>2, <2>1, <3>1, ListHead
    <3>. QED BY <2>1, <3>1, <3>2
  <2>. QED BY <2>2, <2>3
<1>. QED BY <1>1, <1>2, Ipv6Cases

-----------------------------------------------------------------------------
(* What c_str() leaves of a text. *)

\* A text without the character 0.
Plain(t) == \A p \in 1..Len(t) : t[p] # Nul

\* What is read is without it: its numbers,
LEMMA PlainNumber ==
  ASSUME NEW f \in Seq(Tokens), Len(f) = 1, f[1] \in Numerals
  PROVE  Plain(f)
<1>1. Nul \notin Numerals
  BY NumeralAssumption
<1>. QED BY <1>1 DEF Plain

\* a text whose fields are,
LEMMA PlainFields ==
  ASSUME NEW t \in Seq(Tokens), NEW mark \in Marks,
         \A k \in 1..Len(Fields(t, mark)) : Plain(Fields(t, mark)[k])
  PROVE  Plain(t)
<1>. SUFFICES ASSUME NEW p \in 1..Len(t), t[p] = Nul PROVE FALSE
  BY DEF Plain
<1>1. PICK n \in Nat \ {0} : \E e : Cut(t, mark, n, e)
  BY CutExists
<1>2. PICK e : Cut(t, mark, n, e)
  BY <1>1
<1>3. t[p] # mark
  BY NumeralAssumption
<1>4. PICK k \in 1..n : e[k] < p /\ p < e[k + 1]
  BY <1>2, <1>3, MarkOrField
<1>5. /\ e[k] \in 0..Len(t) /\ e[k + 1] \in 1..Len(t) + 1
      /\ Len(Fields(t, mark)[k]) = e[k + 1] - e[k] - 1
      /\ \A q \in 1..e[k + 1] - e[k] - 1 : Fields(t, mark)[k][q] = t[e[k] + q]
  BY <1>2, FieldAt
<1>6. Len(Fields(t, mark)) = n
  BY <1>2, FieldCount
<1>. DEFINE q == p - e[k]
<1>7. q \in 1..e[k + 1] - e[k] - 1 /\ e[k] + q = p
  BY <1>4, <1>5, TextTypes
<1>. HIDE DEF q
<1>8. Fields(t, mark)[k][q] = Nul /\ q \in 1..Len(Fields(t, mark)[k])
  BY <1>5, <1>7
<1>. QED BY <1>6, <1>8 DEF Plain

\* a list of segments,
LEMMA PlainList ==
  ASSUME NEW t \in Seq(Tokens), NEW last, IsList(t, last)
  PROVE  Plain(t)
<1>. DEFINE field == Fields(t, ":")
<1>1. CASE t = <<>>
  BY <1>1, EmptySeq DEF Plain
<1>2. CASE t # <<>>
  <2>1. ASSUME NEW k \in 1..Len(field) PROVE Plain(field[k])
    <3>. DEFINE f == field[k]
    <3>1. f \in Seq(Tokens) /\ k \in DOMAIN field
      BY FieldsAre
    <3>2. IsSegment(f) \/ IsQuad(f)
      BY <1>2, <3>1 DEF IsList
    <3>. HIDE DEF f
    <3>3. IsSegment(f) => Plain(f)
      BY <3>1, PlainNumber DEF IsSegment, Numerals
    <3>4. ASSUME IsQuad(f) PROVE Plain(f)
      <4>1. ASSUME NEW j \in 1..Len(Fields(f, ".")) PROVE Plain(Fields(f, ".")[j])
        <5>. DEFINE o == Fields(f, ".")[j]
        <5>1. o \in Seq(Tokens)
          BY <3>1, FieldsAre
        <5>2. StartsWithNumber(o, 255) /\ IsAllNumber(o)
          BY <3>4 DEF IsQuad
        <5>. HIDE DEF o
        <5>3. Len(o) = 1 /\ o[1] \in Numerals
          BY <5>1, <5>2, FirstToken DEF IsAllNumber, Numerals
        <5>4. Plain(o)
          BY <5>1, <5>3, PlainNumber
        <5>. QED BY <5>4 DEF o
      <4>. QED BY <3>1, <4>1, PlainFields DEF Marks
    <3>5. Plain(f)
      BY <3>2, <3>3, <3>4
    <3>. QED BY <3>5 DEF f
  <2>. QED BY <2>1, PlainFields DEF Marks
<1>. QED BY <1>1, <1>2

\* and what inet_pton accepts.
LEMMA AcceptedIsPlain ==
  ASSUME NEW t \in Seq(Tokens), InetPton(t).ok
  PROVE  Plain(t)
<1>1. CASE IsList(t, TRUE)
  BY <1>1, PlainList
<1>2. ASSUME NEW p, Gaps(t) = {p}, IsList(Left(t, p), FALSE), IsList(Right(t, p), TRUE)
      PROVE  Plain(t)
  <2>1. /\ p \in 1..Len(t) - 1 /\ Len(t) \in Nat /\ t[p] = ":" /\ t[p + 1] = ":"
        /\ Left(t, p) \in Seq(Tokens) /\ Len(Left(t, p)) = p - 1
        /\ \A q \in 1..p - 1 : Left(t, p)[q] = t[q]
        /\ Right(t, p) \in Seq(Tokens) /\ Len(Right(t, p)) = Len(t) - p - 1
        /\ \A q \in 1..Len(t) - p - 1 : Right(t, p)[q] = t[p + 1 + q]
    <3>1. p \in Gaps(t)
      BY <1>2
    <3>. QED BY <3>1, Sides
  <2>2. Plain(Left(t, p)) /\ Plain(Right(t, p))
    BY <1>2, <2>1, PlainList
  <2>3. Nul # ":"
    BY NumeralAssumption DEF Marks
  <2>. SUFFICES ASSUME NEW q \in 1..Len(t) PROVE t[q] # Nul
    BY DEF Plain
  <2>4. CASE q \in 1..p - 1
    BY <2>1, <2>2, <2>4 DEF Plain
  <2>5. CASE q = p \/ q = p + 1
    BY <2>1, <2>3, <2>5
  <2>6. CASE q > p + 1
    <3>. DEFINE j == q - (p + 1)
    <3>1. j \in 1..Len(t) - p - 1 /\ p + 1 + j = q
      BY <2>1, <2>6
    <3>. HIDE DEF j
    <3>2. Right(t, p)[j] = t[q] /\ j \in 1..Len(Right(t, p))
      BY <2>1, <3>1
    <3>. QED BY <2>2, <3>2 DEF Plain
  <2>7. q \in 1..p - 1 \/ q = p \/ q = p + 1 \/ q > p + 1
    BY <2>1
  <2>. QED BY <2>4, <2>5, <2>6, <2>7
<1>. QED BY <1>1, <1>2, Ipv6Cases

\* It is the part of the text before the first such character, or all of it.
IsBeforeNul(c, t) ==
  /\ c \in Seq(Tokens) /\ Plain(c) /\ Len(c) <= Len(t)
  /\ \A p \in 1..Len(c) : c[p] = t[p]
  /\ Len(c) < Len(t) => t[Len(c) + 1] = Nul

LEMMA CStringOf ==
  ASSUME NEW t \in Seq(Tokens)
  PROVE  IsBeforeNul(CString(t), t) /\ (Plain(t) => CString(t) = t)
<1>. DEFINE nuls == {p \in DOMAIN t : t[p] = Nul}
<1>1. Len(t) \in Nat /\ DOMAIN t = 1..Len(t)
  BY TextTypes
<1>2. CASE nuls = {}
  <2>1. CString(t) = t /\ Plain(t)
    BY <1>1, <1>2 DEF CString, Plain
  <2>. QED BY <1>1, <2>1 DEF IsBeforeNul
<1>3. CASE nuls # {}
  <2>. DEFINE m == CHOOSE p \in nuls : \A q \in nuls : p <= q
  <2>1. nuls \subseteq Nat
    BY <1>1
  <2>2. \E p \in nuls : \A q \in nuls : p <= q
    <3>. HIDE DEF nuls
    <3>. QED BY <1>3, <2>1, LeastOf
  <2>3. m \in nuls /\ \A q \in nuls : m <= q
    BY <2>2
  <2>4. CString(t) = SubSeq(t, 1, m - 1)
    BY <1>3 DEF CString
  <2>. HIDE DEF m
  <2>5. m \in 1..Len(t) /\ t[m] = Nul /\ \A q \in 1..Len(t) : t[q] = Nul => m <= q
    BY <1>1, <2>3
  <2>6. m - 1 \in 0..Len(t) /\ (m - 1) + 1 = m /\ m - 1 <= Len(t)
    BY <1>1, <2>5
  <2>. DEFINE x == m - 1
              c == SubSeq(t, 1, x)
  <2>. HIDE DEF x
  <2>7. c \in Seq(Tokens) /\ Len(c) = x /\ \A p \in 1..x : c[p] = t[p]
    <3>1. x \in 0..Len(t)
      BY <2>6 DEF x
    <3>. QED BY <3>1, PartBefore
  <2>. HIDE DEF c
  <2>8. x \in Nat /\ x <= Len(t) /\ x + 1 = m
    BY <2>5, <2>6 DEF x
  <2>9. \A p \in 1..x : t[p] # Nul
    BY <1>1, <2>5, <2>8
  <2>10. Plain(c)
    BY <2>7, <2>9 DEF Plain
  <2>11. IsBeforeNul(c, t)
    BY <2>5, <2>7, <2>8, <2>10 DEF IsBeforeNul
  <2>12. CString(t) = c
    BY <2>4 DEF c, x
  <2>13. ~Plain(t)
    BY <2>5 DEF Plain
  <2>. QED BY <2>11, <2>12, <2>13
<1>. QED BY <1>2, <1>3

\* There is one such part.
LEMMA CStringIs ==
  ASSUME NEW t \in Seq(Tokens), NEW c, IsBeforeNul(c, t)
  PROVE  CString(t) = c
<1>. DEFINE d == CString(t)
<1>1. IsBeforeNul(d, t)
  BY CStringOf
<1>. HIDE DEF d
<1>2. /\ d \in Seq(Tokens) /\ c \in Seq(Tokens)
      /\ Len(d) \in Nat /\ Len(c) \in Nat /\ Len(t) \in Nat
      /\ Len(d) <= Len(t) /\ Len(c) <= Len(t)
  BY <1>1, TextTypes DEF IsBeforeNul
<1>3. ~(Len(d) < Len(c))
  <2>. SUFFICES ASSUME Len(d) < Len(c) PROVE FALSE
    OBVIOUS
  <2>1. Len(d) + 1 \in 1..Len(c) /\ Len(d) < Len(t)
    BY <1>2
  <2>2. t[Len(d) + 1] = Nul /\ c[Len(d) + 1] = t[Len(d) + 1]
    BY <1>1, <2>1 DEF IsBeforeNul
  <2>. QED BY <2>1, <2>2 DEF IsBeforeNul, Plain
<1>4. ~(Len(c) < Len(d))
  <2>. SUFFICES ASSUME Len(c) < Len(d) PROVE FALSE
    OBVIOUS
  <2>1. Len(c) + 1 \in 1..Len(d) /\ Len(c) < Len(t)
    BY <1>2
  <2>2. t[Len(c) + 1] = Nul /\ d[Len(c) + 1] = t[Len(c) + 1]
    BY <1>1, <2>1 DEF IsBeforeNul
  <2>. QED BY <1>1, <2>1, <2>2 DEF IsBeforeNul, Plain
<1>5. Len(c) = Len(d)
  BY <1>2, <1>3, <1>4
<1>6. \A p \in 1..Len(c) : c[p] = d[p]
  BY <1>1, <1>5 DEF IsBeforeNul
<1>7. c = d
  BY <1>2, <1>5, <1>6, SeqEqual
<1>. QED BY <1>7 DEF d

\* What inet_pton reads in a text, Ipv6Address::parse reads.
LEMMA ParsedAsIs ==
  ASSUME NEW t \in Seq(Tokens), InetPton(t).ok
  PROVE  Ipv6Parse(t) = InetPton(t)
BY AcceptedIsPlain, CStringOf DEF Ipv6Parse

-----------------------------------------------------------------------------
(* The search for the longest run. *)

Spans == [start : 0..N, length : 0..N]

\* What the loop has seen of zero segments: current is the run that reaches i,
\* and it could not have begun earlier.
CurrentReaches ==
  /\ current.length > 0 =>
       /\ current.start + current.length = i
       /\ \A k \in current.start..i - 1 : segment(k) = 0
       /\ current.start > 0 => segment(current.start - 1) # 0
  /\ current.length = 0 => (i > 0 => segment(i - 1) # 0)

\* longest is a run of zero segments, ...
LongestIsRun == longest.length > 0 =>
  /\ longest.start + longest.length <= i
  /\ \A k \in longest.start..longest.start + longest.length - 1 : segment(k) = 0

\* ... and no other run that ends before i is longer or as long and earlier.
NoneBetter == \A s \in 0..N, l \in 1..N :
  s + l <= i /\ (\A k \in s..s + l - 1 : segment(k) = 0) =>
    l < longest.length \/ (l = longest.length /\ longest.start <= s)

ScanInv ==
  /\ pc \in {"start", "scan", "written"}
  /\ i \in 0..N /\ longest \in Spans /\ current \in Spans
  /\ CurrentReaches /\ LongestIsRun /\ NoneBetter
  /\ pc = "written" /\ ~IsIpv4Mapped => i = N
  /\ pc = "scan" => ~IsIpv4Mapped

-----------------------------------------------------------------------------
\* A round over a zero segment keeps it: a run that ends at i + 1 is the end of
\* the current one.
LEMMA ZeroKept == ASSUME ScanInv, scanZero PROVE ScanInv'
<1>. USE SegmentsAssumption
<1>1. /\ pc = "scan" /\ i \in 0..N - 1 /\ segment(i) = 0 /\ i' = i + 1
      /\ UNCHANGED <<octets, pc>>
  BY DEF scanZero, ScanInv
<1>2. \A k : segment(k)' = segment(k)
  BY <1>1 DEF segment
<1>3. /\ current' = [start  |-> IF current.length = 0 THEN i ELSE current.start,
                     length |-> current.length + 1]
      /\ longest' = IF current.length + 1 > longest.length THEN current' ELSE longest
  BY DEF scanZero, Longer
<1>4. /\ i \in 0..N /\ longest \in Spans /\ current \in Spans
      /\ CurrentReaches /\ LongestIsRun /\ NoneBetter
  BY DEF ScanInv
<1>5. /\ current'.start + current'.length = i + 1
      /\ \A k \in current'.start..i : segment(k) = 0
      /\ current'.start > 0 => segment(current'.start - 1) # 0
      /\ current'.start \in 0..i
  BY <1>1, <1>3, <1>4 DEF CurrentReaches, Spans
<1>6. current' \in Spans /\ longest' \in Spans /\ i' \in 0..N
  BY <1>1, <1>3, <1>4, <1>5 DEF Spans
<1>7. CurrentReaches'
  BY <1>1, <1>2, <1>3, <1>5, <1>6 DEF CurrentReaches, Spans
<1>8. LongestIsRun'
  BY <1>1, <1>2, <1>3, <1>4, <1>5, <1>6 DEF LongestIsRun, Spans
<1>9. NoneBetter'
  <2> SUFFICES ASSUME NEW s \in 0..N, NEW l \in 1..N, s + l <= i + 1,
                      \A k \in s..s + l - 1 : segment(k) = 0
               PROVE  l < longest'.length \/ (l = longest'.length /\ longest'.start <= s)
    BY <1>1, <1>2 DEF NoneBetter
  <2>1. longest'.length >= longest.length /\ longest'.length >= current'.length
    BY <1>3, <1>4 DEF Spans
  <2>2. longest'.length = longest.length => longest' = longest
    BY <1>3, <1>4 DEF Spans
  <2>3. CASE s + l <= i
    <3>1. l < longest.length \/ (l = longest.length /\ longest.start <= s)
      BY <1>4, <2>3 DEF NoneBetter
    <3>. QED BY <1>4, <1>6, <2>1, <2>2, <3>1 DEF Spans
  <2>4. CASE s + l = i + 1
    <3>1. s >= current'.start
      <4>1. SUFFICES ASSUME s < current'.start PROVE FALSE
        BY <1>5
      <4>2. current'.start - 1 \in s..s + l - 1 /\ current'.start > 0
        BY <1>1, <1>5, <2>4, <4>1
      <4>. QED BY <1>5, <4>2
    <3>2. l <= current'.length
      BY <1>5, <1>6, <2>4, <3>1 DEF Spans
    <3>3. CASE l < current'.length
      BY <1>6, <2>1, <3>3 DEF Spans
    <3>4. CASE l = current'.length
      <4>1. CASE current'.length > longest.length
        BY <1>3, <1>5, <2>4, <3>1, <3>4, <4>1
      <4>2. CASE ~(current'.length > longest.length)
        <5>1. longest' = longest /\ (l < longest.length \/ l = longest.length)
          BY <1>3, <1>4, <1>6, <3>4, <4>2 DEF Spans
        <5>2. CASE l = longest.length
          BY <1>1, <1>4, <2>4, <5>1, <5>2 DEF LongestIsRun, Spans
        <5>. QED BY <5>1, <5>2
      <4>. QED BY <4>1, <4>2
    <3>. QED BY <1>6, <3>2, <3>3, <3>4 DEF Spans
  <2>. QED BY <1>1, <2>3, <2>4
<1>10. IsIpv4Mapped' = IsIpv4Mapped /\ ~IsIpv4Mapped
  BY <1>1 DEF IsIpv4Mapped, ScanInv
<1>. QED BY <1>1, <1>6, <1>7, <1>8, <1>9, <1>10 DEF ScanInv

\* A round over another segment keeps it: no run ends at i + 1.
LEMMA OtherKept == ASSUME ScanInv, scanOther PROVE ScanInv'
<1>. USE SegmentsAssumption
<1>1. /\ pc = "scan" /\ i \in 0..N - 1 /\ segment(i) # 0 /\ i' = i + 1
      /\ current' = NoSpan /\ UNCHANGED <<octets, pc, longest>>
  BY DEF scanOther, ScanInv
<1>2. \A k : segment(k)' = segment(k)
  BY <1>1 DEF segment
<1>3. /\ i \in 0..N /\ longest \in Spans /\ LongestIsRun /\ NoneBetter
  BY DEF ScanInv
<1>4. current' \in Spans /\ i' \in 0..N
  BY <1>1 DEF NoSpan, Spans
<1>5. CurrentReaches'
  BY <1>1, <1>2 DEF CurrentReaches, NoSpan
<1>6. LongestIsRun'
  BY <1>1, <1>2, <1>3 DEF LongestIsRun, Spans
<1>7. NoneBetter'
  <2> SUFFICES ASSUME NEW s \in 0..N, NEW l \in 1..N, s + l <= i + 1,
                      \A k \in s..s + l - 1 : segment(k) = 0
               PROVE  l < longest.length \/ (l = longest.length /\ longest.start <= s)
    BY <1>1, <1>2 DEF NoneBetter
  <2>1. s + l <= i
    BY <1>1
  <2>. QED BY <1>3, <2>1 DEF NoneBetter
<1>8. IsIpv4Mapped' = IsIpv4Mapped /\ ~IsIpv4Mapped
  BY <1>1 DEF IsIpv4Mapped, ScanInv
<1>. QED BY <1>1, <1>3, <1>4, <1>5, <1>6, <1>7, <1>8 DEF ScanInv

\* So does every other step.
LEMMA ScanKept == ASSUME ScanInv, [toString]_vars PROVE ScanInv'
<1>1. CASE writeMapped
  BY <1>1 DEF writeMapped, loop, ScanInv, IsIpv4Mapped, CurrentReaches, LongestIsRun, NoneBetter, segment
<1>2. CASE beginScan
  BY <1>2 DEF beginScan, loop, ScanInv, IsIpv4Mapped, CurrentReaches, LongestIsRun, NoneBetter, segment
<1>3. CASE write
  BY <1>3 DEF write, loop, ScanInv, CurrentReaches, LongestIsRun, NoneBetter, segment
<1>4. CASE UNCHANGED vars
  BY <1>4 DEF vars, loop, ScanInv, IsIpv4Mapped, CurrentReaches, LongestIsRun, NoneBetter, segment
<1>. QED BY <1>1, <1>2, <1>3, <1>4, ZeroKept, OtherKept DEF toString

LEMMA ScanInitially == ASSUME Init PROVE ScanInv
BY SegmentsAssumption DEF Init, ScanInv, CurrentReaches, LongestIsRun, NoneBetter, NoSpan, Spans

LEMMA ScanFinds == ASSUME ScanInv PROVE FirstLongestRun
<1> SUFFICES ASSUME pc = "written", ~IsIpv4Mapped
             PROVE  /\ longest.length > 0 => ZeroRun(longest.start, longest.length)
                    /\ \A s \in 0..N, l \in 1..N : ZeroRun(s, l) =>
                         l < longest.length \/ (l = longest.length /\ longest.start <= s)
  BY DEF FirstLongestRun
<1>1. i = N /\ longest \in Spans
  BY DEF ScanInv
<1>2. longest.length > 0 => ZeroRun(longest.start, longest.length)
  BY <1>1 DEF ScanInv, LongestIsRun, ZeroRun
<1>3. ASSUME NEW s \in 0..N, NEW l \in 1..N, ZeroRun(s, l)
      PROVE  l < longest.length \/ (l = longest.length /\ longest.start <= s)
  BY <1>1, <1>3 DEF ScanInv, NoneBetter, ZeroRun
<1>. QED BY <1>2, <1>3

\* The loop finds the longest run of zero segments, the first of its length,
\* in every address.
THEOREM TheRunIsFound == Spec => []FirstLongestRun
<1>1. Init => ScanInv
  BY ScanInitially
<1>2. ScanInv /\ [toString]_vars => ScanInv'
  BY ScanKept
<1>3. ScanInv => FirstLongestRun
  BY ScanFinds
<1>. QED BY <1>1, <1>2, <1>3, PTL DEF Spec

-----------------------------------------------------------------------------
(* What toString leaves in out. *)

WriteInv ==
  /\ ScanInv
  /\ \E s \in Addresses : octets = fromSegments(s)
  /\ pc = "written" => out = Expression

LEMMA WriteInitially == ASSUME Init PROVE WriteInv
BY ScanInitially DEF Init, WriteInv

\* The text is put together in one step, from what the loop has found.
LEMMA WriteKept == ASSUME WriteInv, [toString]_vars PROVE WriteInv'
<1>1. ScanInv'
  BY ScanKept DEF WriteInv
<1>2. UNCHANGED octets
  BY DEF toString, writeMapped, beginScan, scanZero, scanOther, write, vars
<1>3. UNCHANGED longest => UNCHANGED Expression
  <2>. HAVE UNCHANGED longest
  <2>1. IsIpv4Mapped' = IsIpv4Mapped /\ toIpv4Mapped' = toIpv4Mapped
    BY <1>2 DEF IsIpv4Mapped, toIpv4Mapped
  <2>2. \A a, b : writeSubslice(a, b)' = writeSubslice(a, b)
    BY <1>2 DEF writeSubslice, segment
  <2>. QED BY <2>1, <2>2 DEF Expression, AfterGap
<1>4. pc' = "written" => out' = Expression'
  <2>1. CASE writeMapped
    <3>1. UNCHANGED longest
      BY <2>1 DEF writeMapped, loop
    <3>2. out' = Expression
      BY <2>1 DEF writeMapped, Expression
    <3>. QED BY <1>3, <3>1, <3>2
  <2>2. CASE write
    <3>1. UNCHANGED longest
      BY <2>2 DEF write, loop
    <3>2. ~IsIpv4Mapped
      BY <2>2 DEF write, WriteInv, ScanInv
    <3>3. out' = Expression
      BY <2>2, <3>2 DEF write, Expression
    <3>. QED BY <1>3, <3>1, <3>3
  <2>3. CASE beginScan \/ scanZero \/ scanOther
    BY <2>3 DEF beginScan, scanZero, scanOther
  <2>4. CASE UNCHANGED vars
    BY <1>3, <2>4 DEF vars, loop, WriteInv
  <2>. QED BY <2>1, <2>2, <2>3, <2>4 DEF toString
<1>. QED BY <1>1, <1>2, <1>4 DEF WriteInv

LEMMA RunIsZero == ASSUME ScanInv PROVE LongestIsZero
<1>. USE SegmentsAssumption
<1>1. i \in 0..N /\ longest.start \in 0..N /\ longest.length \in 0..N /\ LongestIsRun
  BY DEF ScanInv, Spans
<1>. QED BY <1>1 DEF LongestIsRun, LongestIsZero

\* A text that is written is read as the octets it was written from.
TextIsRead == pc = "written" => Ipv6Parse(out) = ParseOk(octets)

\* Ipv6Address::parse reads in every text that Ipv6Address::toString wrote the
\* address it was written from.
THEOREM WhatIsWrittenIsRead == Spec => []TextIsRead
<1>1. Init => WriteInv
  BY WriteInitially
<1>2. WriteInv /\ [toString]_vars => WriteInv'
  BY WriteKept
<1>3. WriteInv => TextIsRead
  <2>. SUFFICES ASSUME WriteInv, pc = "written" PROVE Ipv6Parse(out) = ParseOk(octets)
    BY DEF TextIsRead
  <2>1. out \in Seq(Tokens) /\ InetPton(out) = ParseOk(octets)
    BY RunIsZero, ExpressionReadsBack DEF WriteInv
  <2>2. InetPton(out).ok
    BY <2>1 DEF ParseOk
  <2>. QED BY <2>1, <2>2, ParsedAsIs
<1>. QED BY <1>1, <1>2, <1>3, PTL DEF Spec
=============================================================================
