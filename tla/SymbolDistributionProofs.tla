---------------------- MODULE SymbolDistributionProofs ----------------------
(***************************************************************************)
(* Proofs about module SymbolDistribution, for any products and symbols    *)
(* and any size of the slices.  Lemmas about the list of symbols, its      *)
(* slices and the messages that subscribe them come first.                 *)
(***************************************************************************)
EXTENDS SymbolDistribution, SequenceTheorems, FiniteSetTheorems, FunctionTheorems,
        TLAPS

-----------------------------------------------------------------------------
(* Numbers and parts of sequences.                                          *)

\* Multiples and quotients.
LEMMA MultipleGrows ==
    ASSUME NEW a \in Nat, NEW b \in Nat, NEW m \in Nat, a <= b
    PROVE  a * m <= b * m /\ a * m \in Nat /\ b * m \in Nat
  <1>1. PICK c \in Nat : b = a + c
    BY b - a \in Nat
  <1>2. b * m = a * m + c * m /\ c * m \in Nat /\ a * m \in Nat
    BY <1>1
  <1>3. QED
    BY <1>2

LEMMA Quotient ==
    ASSUME NEW n \in Nat, NEW m \in Nat \ {0}
    PROVE  /\ n \div m \in Nat
           /\ (n \div m) * m <= n
           /\ n < (n \div m) * m + m
  OBVIOUS

LEMMA QuotientUnique ==
    ASSUME NEW n \in Nat, NEW m \in Nat \ {0}, NEW k \in Nat,
           k * m <= n, n < k * m + m
    PROVE  k = n \div m
  <1> DEFINE q == n \div m
  <1>1. q \in Nat /\ q * m <= n /\ n < q * m + m /\ k * m \in Nat /\ q * m \in Nat
    BY Quotient
  <1> HIDE DEF q
  <1>2. CASE k < q
    <2>1. (k + 1) * m <= q * m /\ (k + 1) * m = k * m + m
      BY <1>1, <1>2, MultipleGrows
    <2>2. QED
      BY <1>1, <2>1
  <1>3. CASE q < k
    <2>1. (q + 1) * m <= k * m /\ (q + 1) * m = q * m + m
      BY <1>1, <1>3, MultipleGrows
    <2>2. QED
      BY <1>1, <2>1
  <1>4. k = q
    BY <1>1, <1>2, <1>3
  <1>5. QED
    BY <1>4 DEF q

\* The elements behind a, up to b.
LEMMA Part ==
    ASSUME NEW S, NEW s, NEW a \in Int, NEW b \in Int, NEW part,
           part = SubSeq(s, 1 + a, b), \A i \in 1 + a .. b : s[i] \in S
    PROVE  /\ part \in Seq(S)
           /\ Len(part) = IF a < b THEN b - a ELSE 0
           /\ \A i \in 1 .. b - a : part[i] = s[a + i]
  <1>1. 1 + a \in Int /\ b - (1 + a) + 1 = b - a /\ (1 + a <= b <=> a < b)
    OBVIOUS
  <1>2. \A i \in Int : (1 + a) + i - 1 = a + i
    OBVIOUS
  <1>3. DEFINE m == 1 + a
  <1>4. /\ SubSeq(s, m, b) \in Seq(S)
        /\ Len(SubSeq(s, m, b)) = IF m <= b THEN b - m + 1 ELSE 0
        /\ \A i \in 1 .. b - m + 1 : SubSeq(s, m, b)[i] = s[m + i - 1]
    <2>1. m \in Int /\ \A i \in m .. b : s[i] \in S
      BY <1>1
    <2> HIDE DEF m
    <2>2. QED
      BY <2>1, SubSeqProperties
  <1>5. /\ part \in Seq(S)
        /\ Len(part) = IF m <= b THEN b - m + 1 ELSE 0
        /\ \A i \in 1 .. b - m + 1 : part[i] = s[m + i - 1]
    BY <1>4, Zenon
  <1>6. QED
    BY <1>1, <1>2, <1>5

\* A part of a list that is appended to is the part there was and what is new in it.
LEMMA SubSeqGrows ==
    ASSUME NEW S, NEW list \in Seq(S), NEW new \in Seq(S),
           NEW f \in Nat, NEW l \in Nat, f <= l
    PROVE  LET n == Len(list)
               last == IF l < Len(list \o new) THEN l ELSE Len(list \o new)
           IN  SubSeq(list \o new, 1 + f, last)
                 = SubSeq(list, 1 + f, IF l < n THEN l ELSE n)
                     \o SubSeq(list \o new, 1 + IF f < n THEN n ELSE f, last)
  <1> DEFINE n == Len(list)
             all == list \o new
             t == Len(all)
             last == IF l < t THEN l ELSE t
             until == IF l < n THEN l ELSE n
             from == IF f < n THEN n ELSE f
             A == SubSeq(all, 1 + f, last)
             B == SubSeq(list, 1 + f, until)
             C == SubSeq(all, 1 + from, last)
  <1>1. /\ all \in Seq(S) /\ n \in Nat /\ t \in Nat /\ n <= t
        /\ \A i \in 1 .. n : all[i] = list[i] /\ list[i] \in S
        /\ \A i \in 1 .. t : all[i] \in S
    <2>1. n \in Nat /\ \A i \in 1 .. n : list[i] \in S
      BY LenProperties, ElementOfSeq
    <2>2. Len(new) \in Nat
      BY LenProperties
    <2>3. all \in Seq(S) /\ t = n + Len(new) /\ \A i \in 1 .. n : all[i] = list[i]
      BY <2>1, <2>2, ConcatProperties
    <2>4. \A i \in 1 .. t : all[i] \in S
      BY <2>3, ElementOfSeq
    <2>5. QED
      BY <2>1, <2>2, <2>3, <2>4
  <1> HIDE DEF n, all, t
  <1>2. last \in Int /\ until \in Int /\ from \in Int /\ 1 + f \in Int /\ 1 + from \in Int
    BY <1>1
  <1>3. /\ A \in Seq(S)
        /\ Len(A) = IF f < last THEN last - f ELSE 0
        /\ \A i \in 1 .. last - f : A[i] = all[f + i]
    <2>1. \A i \in 1 + f .. last : all[i] \in S
      BY <1>1
    <2>2. A = SubSeq(all, 1 + f, last) /\ f \in Int /\ last \in Int
      BY <1>2 DEF A
    <2> HIDE DEF last, until, from, A, B, C
    <2>3. QED
      BY <2>1, <2>2, Part
  <1>4. /\ B \in Seq(S)
        /\ Len(B) = IF f < until THEN until - f ELSE 0
        /\ \A i \in 1 .. until - f : B[i] = list[f + i]
    <2>1. \A i \in 1 + f .. until : list[i] \in S
      BY <1>1
    <2>2. B = SubSeq(list, 1 + f, until) /\ f \in Int /\ until \in Int
      BY <1>2 DEF B
    <2> HIDE DEF last, until, from, A, B, C
    <2>3. QED
      BY <2>1, <2>2, Part
  <1>5. /\ C \in Seq(S)
        /\ Len(C) = IF from < last THEN last - from ELSE 0
        /\ \A i \in 1 .. last - from : C[i] = all[from + i]
    <2>1. \A i \in 1 + from .. last : all[i] \in S
      BY <1>1
    <2>2. C = SubSeq(all, 1 + from, last) /\ from \in Int /\ last \in Int
      BY <1>2 DEF C
    <2> HIDE DEF last, until, from, A, B, C
    <2>3. QED
      BY <2>1, <2>2, Part
  <1> HIDE DEF A, B, C
  <1>6. /\ B \o C \in Seq(S)
        /\ Len(B \o C) = Len(B) + Len(C)
        /\ \A i \in 1 .. Len(B) + Len(C) :
              (B \o C)[i] = IF i <= Len(B) THEN B[i] ELSE C[i - Len(B)]
    BY <1>4, <1>5, ConcatProperties
  <1>7. /\ Len(A) \in Nat /\ Len(B) \in Nat /\ Len(C) \in Nat
        /\ Len(A) = Len(B) + Len(C)
        /\ Len(C) > 0 => from = f + Len(B)
        /\ Len(A) > 0 => Len(A) = last - f
        /\ Len(B) > 0 => Len(B) = until - f
        /\ Len(C) > 0 => Len(C) = last - from
        /\ f + Len(B) <= n \/ Len(B) = 0
    <2>1. n \in Nat /\ t \in Nat /\ n <= t
      BY <1>1
    <2>2. /\ Len(A) = IF f < last THEN last - f ELSE 0
          /\ Len(B) = IF f < until THEN until - f ELSE 0
          /\ Len(C) = IF from < last THEN last - from ELSE 0
      BY <1>3, <1>4, <1>5
    <2>3. QED
      BY <2>1, <2>2
  <1>8. ASSUME NEW i \in 1 .. Len(A) PROVE A[i] = (B \o C)[i]
    <2>1. i \in Int /\ A[i] = all[f + i]
      BY <1>2, <1>3, <1>7
    <2>2. CASE i <= Len(B)
      <3>1. B[i] = list[f + i] /\ f + i \in 1 .. n
        BY <1>1, <1>2, <1>4, <1>7, <2>2
      <3>2. (B \o C)[i] = B[i]
        BY <1>6, <1>7, <2>2
      <3>3. QED
        BY <1>1, <2>1, <3>1, <3>2
    <2>3. CASE ~(i <= Len(B))
      <3>1. i - Len(B) \in 1 .. Len(C)
        BY <1>7, <2>1, <2>3
      <3>2. (B \o C)[i] = C[i - Len(B)]
        BY <1>6, <1>7, <2>3
      <3>3. Len(C) = last - from /\ from = f + Len(B)
        BY <1>7, <3>1
      <3>4. C[i - Len(B)] = all[from + (i - Len(B))]
        BY <1>5, <3>1, <3>3
      <3>5. from + (i - Len(B)) = f + i
        <4> HIDE DEF from
        <4> QED
          BY <1>2, <1>7, <2>1, <3>3
      <3>6. QED
        BY <2>1, <3>2, <3>4, <3>5
    <2>4. QED
      BY <2>2, <2>3
  <1>9. A = B \o C
    BY <1>3, <1>6, <1>7, <1>8, SeqEqual
  <1>10. QED
    BY <1>9 DEF A, B, C, all, t, n

-----------------------------------------------------------------------------
(* Sequences without repetitions.                                           *)

\* As many elements as positions.
LEMMA NoneTwice ==
    ASSUME NEW S, NEW s \in Seq(S),
           \A j, k \in 1 .. Len(s) : s[j] = s[k] => j = k
    PROVE  IsFiniteSet(ToSet(s)) /\ Cardinality(ToSet(s)) = Len(s)
  <1>1. Len(s) \in Nat /\ DOMAIN s = 1 .. Len(s) /\ s \in [1 .. Len(s) -> S]
    BY LenProperties
  <1>2. /\ s \in [1 .. Len(s) -> ToSet(s)]
        /\ \A t \in ToSet(s) : \E k \in 1 .. Len(s) : s[k] = t
    BY <1>1 DEF ToSet
  <1>3. s \in Bijection(1 .. Len(s), ToSet(s))
    BY <1>2, Fun_IsBij
  <1>4. ExistsBijection(1 .. Len(s), ToSet(s))
    BY <1>3 DEF ExistsBijection
  <1>5. IsFiniteSet(1 .. Len(s)) /\ Cardinality(1 .. Len(s)) = Len(s)
    BY <1>1, FS_Interval
  <1>6. QED
    BY <1>4, <1>5, FS_Bijection

\* Appending a list that has nothing in common with another repeats nothing.
LEMMA ConcatList ==
    ASSUME NEW S, NEW a \in Seq(S), NEW b \in Seq(S),
           \A j, k \in 1 .. Len(a) : a[j] = a[k] => j = k,
           \A j, k \in 1 .. Len(b) : b[j] = b[k] => j = k,
           ToSet(a) \cap ToSet(b) = {}
    PROVE  /\ ToSet(a \o b) = ToSet(a) \union ToSet(b)
           /\ \A j, k \in 1 .. Len(a \o b) : (a \o b)[j] = (a \o b)[k] => j = k
  <1> DEFINE c == a \o b
             na == Len(a)
             nb == Len(b)
  <1>1. /\ na \in Nat /\ nb \in Nat /\ Len(c) = na + nb
        /\ DOMAIN a = 1 .. na /\ DOMAIN b = 1 .. nb /\ DOMAIN c = 1 .. na + nb
        /\ \A i \in 1 .. na + nb : c[i] = IF i <= na THEN a[i] ELSE b[i - na]
    <2>1. na \in Nat /\ nb \in Nat /\ DOMAIN a = 1 .. na /\ DOMAIN b = 1 .. nb
      BY LenProperties
    <2>2. /\ c \in Seq(S) /\ Len(c) = na + nb
          /\ \A i \in 1 .. na + nb : c[i] = IF i <= na THEN a[i] ELSE b[i - na]
      BY ConcatProperties
    <2>3. QED
      BY <2>1, <2>2, LenProperties
  <1> HIDE DEF c, na, nb
  <1>2. /\ \A i \in 1 .. na : a[i] \in ToSet(a) /\ i \in 1 .. na + nb /\ c[i] = a[i]
        /\ \A i \in 1 .. nb : b[i] \in ToSet(b) /\ na + i \in 1 .. na + nb /\ c[na + i] = b[i]
    <2>1. ASSUME NEW i \in 1 .. na
          PROVE  a[i] \in ToSet(a) /\ i \in 1 .. na + nb /\ c[i] = a[i]
      BY <1>1 DEF ToSet
    <2>2. ASSUME NEW i \in 1 .. nb
          PROVE  b[i] \in ToSet(b) /\ na + i \in 1 .. na + nb /\ c[na + i] = b[i]
      <3>1. na + i \in 1 .. na + nb /\ ~(na + i <= na) /\ na + i - na = i
        BY <1>1
      <3>2. c[na + i] = b[i]
        BY <1>1, <3>1
      <3>3. b[i] \in ToSet(b)
        BY <1>1 DEF ToSet
      <3>4. QED
        BY <3>1, <3>2, <3>3
    <2>3. QED
      BY <2>1, <2>2
  <1>3. \A i \in 1 .. na + nb : i \in 1 .. na \/ (i - na \in 1 .. nb /\ na + (i - na) = i)
    BY <1>1
  <1>4. ToSet(c) = ToSet(a) \union ToSet(b)
    <2>1. ToSet(c) \subseteq ToSet(a) \union ToSet(b)
      <3>1. ASSUME NEW i \in 1 .. na + nb PROVE c[i] \in ToSet(a) \union ToSet(b)
        <4>1. CASE i \in 1 .. na
          BY <1>2, <4>1
        <4>2. CASE i - na \in 1 .. nb /\ na + (i - na) = i
          <5>1. PICK k \in 1 .. nb : na + k = i
            BY <4>2
          <5>2. QED
            BY <1>2, <5>1
        <4>3. QED
          BY <1>3, <4>1, <4>2
      <3>2. QED
        BY <1>1, <3>1 DEF ToSet
    <2>2. ToSet(a) \subseteq ToSet(c)
      <3>1. ASSUME NEW k \in 1 .. na PROVE a[k] \in ToSet(c)
        <4>1. PICK i \in DOMAIN c : c[i] = a[k]
          BY <1>1, <1>2
        <4>2. QED
          BY <4>1 DEF ToSet
      <3>2. QED
        BY <1>1, <3>1 DEF ToSet
    <2>3. ToSet(b) \subseteq ToSet(c)
      <3>1. ASSUME NEW k \in 1 .. nb PROVE b[k] \in ToSet(c)
        <4>1. PICK i \in DOMAIN c : c[i] = b[k]
          BY <1>1, <1>2
        <4>2. QED
          BY <4>1 DEF ToSet
      <3>2. QED
        BY <1>1, <3>1 DEF ToSet
    <2>4. QED
      BY <2>1, <2>2, <2>3
  <1>5. ASSUME NEW j \in 1 .. na + nb, NEW k \in 1 .. na + nb, c[j] = c[k]
        PROVE  j = k
    <2>1. CASE j \in 1 .. na /\ k \in 1 .. na
      BY <1>2, <1>5, <2>1 DEF na
    <2>2. CASE j - na \in 1 .. nb /\ k - na \in 1 .. nb
      <3>1. c[na + (j - na)] = b[j - na] /\ c[na + (k - na)] = b[k - na]
        BY <1>2, <2>2
      <3>2. b[j - na] = b[k - na]
        <4>1. na + (j - na) = j /\ na + (k - na) = k
          BY <1>1
        <4>2. QED
          BY <1>5, <3>1, <4>1
      <3>3. j - na = k - na
        BY <2>2, <3>2 DEF nb
      <3>4. QED
        BY <1>1, <3>3
    <2>3. ASSUME NEW i \in 1 .. na, NEW l \in 1 .. nb PROVE c[i] # c[na + l]
      BY <1>2
    <2>4. CASE j \in 1 .. na /\ k - na \in 1 .. nb
      <3>1. PICK l \in 1 .. nb : na + l = k
        BY <1>1, <2>4
      <3>2. QED
        BY <1>5, <2>3, <2>4, <3>1
    <2>5. CASE k \in 1 .. na /\ j - na \in 1 .. nb
      <3>1. PICK l \in 1 .. nb : na + l = j
        BY <1>1, <2>5
      <3>2. QED
        BY <1>5, <2>3, <2>5, <3>1
    <2>6. QED
      BY <1>3, <2>1, <2>2, <2>4, <2>5
  <1>6. QED
    BY <1>1, <1>4, <1>5 DEF c

-----------------------------------------------------------------------------
(* Slices.                                                                  *)

LEMMA SliceType ==
    ASSUME NEW S, NEW list \in Seq(S), NEW index \in Nat, NEW start \in Nat
    PROVE  GetSlice(list, index, start) \in Seq(S)
  <1> DEFINE first == index * MaxPerStream
             from == IF first < start THEN start ELSE first
             last == IF first + MaxPerStream < Len(list) THEN first + MaxPerStream ELSE Len(list)
  <1>1. first \in Nat /\ Len(list) \in Nat /\ MaxPerStream \in Nat
    BY LenProperties, MaxPerStreamAssumption
  <1>2. \A i \in 1 .. Len(list) : list[i] \in S
    BY ElementOfSeq
  <1> HIDE DEF first
  <1>3. from \in Nat /\ last \in Int /\ \A i \in 1 + from .. last : list[i] \in S
    BY <1>1, <1>2
  <1> HIDE DEF from, last
  <1>4. SubSeq(list, 1 + from, last) \in Seq(S)
    BY <1>3, Part
  <1>5. QED
    BY <1>4 DEF GetSlice, from, last, first

\* What is subscribed when symbols become known is what the slice has gained.
LEMMA SliceGrows ==
    ASSUME NEW S, NEW list \in Seq(S), NEW new \in Seq(S), NEW index \in Nat
    PROVE  GetSlice(list \o new, index, 0)
             = GetSlice(list, index, 0) \o GetSlice(list \o new, index, Len(list))
  <1> DEFINE f == index * MaxPerStream
             l == f + MaxPerStream
  <1>1. f \in Nat /\ l \in Nat /\ f <= l /\ ~(f < 0) /\ (IF f < 0 THEN 0 ELSE f) = f
    BY MaxPerStreamAssumption
  <1> HIDE DEF f, l
  <1>2. SubSeq(list \o new, 1 + f, IF l < Len(list \o new) THEN l ELSE Len(list \o new))
          = SubSeq(list, 1 + f, IF l < Len(list) THEN l ELSE Len(list))
              \o SubSeq(list \o new, 1 + IF f < Len(list) THEN Len(list) ELSE f,
                        IF l < Len(list \o new) THEN l ELSE Len(list \o new))
    BY <1>1, SubSeqGrows
  <1>3. QED
    BY <1>1, <1>2, Zenon DEF GetSlice, f, l

LEMMA SizeNat ==
    ASSUME NEW S, NEW list \in Seq(S)
    PROVE  Size(list) \in Nat
  <1>1. Len(list) + MaxPerStream - 1 \in Nat /\ MaxPerStream \in Nat \ {0}
    BY LenProperties, MaxPerStreamAssumption
  <1>2. QED
    BY <1>1, Quotient DEF Size

\* The slices that there are for a list hold all its positions.
LEMMA SizeEnough ==
    ASSUME NEW S, NEW list \in Seq(S), NEW p \in 1 .. Len(list)
    PROVE  /\ Size(list) \in Nat
           /\ (p - 1) \div MaxPerStream \in Nat
           /\ (p - 1) \div MaxPerStream + 1 <= Size(list)
  <1> DEFINE m == MaxPerStream
             k == (p - 1) \div m
             q == (Len(list) + m - 1) \div m
  <1>1. m \in Nat \ {0} /\ Len(list) \in Nat /\ p - 1 \in Nat /\ Len(list) + m - 1 \in Nat
    BY MaxPerStreamAssumption, LenProperties
  <1>2. k \in Nat /\ k * m <= p - 1 /\ q \in Nat /\ Len(list) + m - 1 < q * m + m
    BY <1>1, Quotient
  <1>3. q = Size(list)
    BY DEF Size
  <1> HIDE DEF k, q, m
  <1>4. k * m \in Nat /\ q * m \in Nat
    BY <1>1, <1>2, MultipleGrows
  <1>5. ASSUME q <= k PROVE FALSE
    <2>1. q * m <= k * m
      BY <1>1, <1>2, <1>5, MultipleGrows
    <2>2. QED
      BY <1>1, <1>2, <1>4, <2>1
  <1>6. k + 1 <= q
    BY <1>2, <1>5
  <1>7. QED
    BY <1>2, <1>3, <1>6 DEF k, m

\* What is at the positions with this quotient.
Own(list, index) ==
    {list[p] : p \in {p \in 1 .. Len(list) : (p - 1) \div MaxPerStream = index}}

\* A slice has what is at its positions, which are those with its quotient.
LEMMA SliceElements ==
    ASSUME NEW S, NEW list \in Seq(S), NEW index \in Nat
    PROVE  /\ GetSlice(list, index, 0) \in Seq(S)
           /\ \A k \in 1 .. Len(GetSlice(list, index, 0)) :
                 /\ index * MaxPerStream + k \in 1 .. Len(list)
                 /\ GetSlice(list, index, 0)[k] = list[index * MaxPerStream + k]
           /\ ToSet(GetSlice(list, index, 0)) = Own(list, index)
  <1> DEFINE slice == GetSlice(list, index, 0)
             first == index * MaxPerStream
             n == Len(list)
             last == IF first + MaxPerStream < n THEN first + MaxPerStream ELSE n
             own == {p \in 1 .. n : (p - 1) \div MaxPerStream = index}
  <1>1. first \in Nat /\ n \in Nat /\ MaxPerStream \in Nat \ {0}
    BY LenProperties, MaxPerStreamAssumption
  <1>2. \A i \in 1 .. n : list[i] \in S
    BY ElementOfSeq
  <1>3. own = {p \in 1 .. n : first + 1 <= p /\ p <= first + MaxPerStream}
    <2>1. ASSUME NEW p \in 1 .. n
          PROVE  (p - 1) \div MaxPerStream = index
                   <=> first + 1 <= p /\ p <= first + MaxPerStream
      <3>1. p - 1 \in Nat
        BY <1>1
      <3>2. ASSUME (p - 1) \div MaxPerStream = index
            PROVE  first <= p - 1 /\ p - 1 < first + MaxPerStream
        BY <1>1, <3>1, <3>2, Quotient
      <3>3. ASSUME first <= p - 1, p - 1 < first + MaxPerStream
            PROVE  (p - 1) \div MaxPerStream = index
        BY <1>1, <3>1, <3>3, QuotientUnique
      <3> HIDE DEF first
      <3>4. /\ first <= p - 1 <=> first + 1 <= p
            /\ p - 1 < first + MaxPerStream <=> p <= first + MaxPerStream
        BY <1>1, <3>1
      <3>5. QED
        BY <3>2, <3>3, <3>4
    <2>2. QED
      BY <2>1
  <1> HIDE DEF own
  <1>4. slice = SubSeq(list, 1 + first, last)
    <2>1. ~(first < 0)
      BY <1>1
    <2>2. QED
      BY <2>1, Zenon DEF GetSlice
  <1> HIDE DEF slice, first, n
  <1>5. last \in Int /\ \A i \in 1 + first .. last : list[i] \in S
    BY <1>1, <1>2
  <1>6. /\ slice \in Seq(S)
        /\ Len(slice) = IF first < last THEN last - first ELSE 0
        /\ \A k \in 1 .. last - first : slice[k] = list[first + k]
    <2> HIDE DEF last
    <2> QED
      BY <1>1, <1>4, <1>5, Part
  <1>7. /\ DOMAIN slice = 1 .. Len(slice)
        /\ \A k \in 1 .. Len(slice) : k \in 1 .. last - first
        /\ \A k \in 1 .. last - first : k \in 1 .. Len(slice)
    BY <1>1, <1>5, <1>6, LenProperties
  <1>8. \A k \in 1 .. last - first : first + k \in own
    BY <1>1, <1>3
  <1>9. \A p \in own : p - first \in 1 .. last - first /\ first + (p - first) = p
    BY <1>1, <1>3
  <1>10. \A k \in 1 .. Len(slice) : first + k \in 1 .. n /\ slice[k] = list[first + k]
    BY <1>3, <1>6, <1>7, <1>8
  <1>11. ToSet(slice) = {list[p] : p \in own}
    <2>1. ASSUME NEW s \in ToSet(slice) PROVE s \in {list[p] : p \in own}
      <3>1. PICK k \in 1 .. Len(slice) : s = slice[k]
        BY <1>7, <2>1 DEF ToSet
      <3>2. first + k \in own /\ s = list[first + k]
        BY <1>6, <1>7, <1>8, <3>1
      <3>3. QED
        BY <3>2
    <2>2. ASSUME NEW p \in own PROVE list[p] \in ToSet(slice)
      <3>1. p - first \in 1 .. Len(slice) /\ slice[p - first] = list[first + (p - first)]
        BY <1>6, <1>7, <1>9
      <3>2. list[p] = slice[p - first] /\ p - first \in DOMAIN slice
        BY <1>7, <1>9, <3>1
      <3>3. QED
        BY <3>2 DEF ToSet
    <2>3. QED
      BY <2>1, <2>2
  <1>12. QED
    BY <1>6, <1>10, <1>11 DEF slice, first, n, own, Own

-----------------------------------------------------------------------------
(* Messages.                                                                *)

\* Three messages for each symbol, in the order of the list.
LEMMA MessagesType ==
    ASSUME NEW list \in Seq(Symbol)
    PROVE  /\ Messages(list) \in Seq(Message)
           /\ Len(Messages(list)) = 3 * Len(list)
           /\ \A i \in 1 .. 3 * Len(list) :
                 Messages(list)[i] = <<list[1 + ((i - 1) \div 3)], Topics[1 + ((i - 1) % 3)]>>
  <1>1. Len(Topics) = 3 /\ \A k \in 1 .. 3 : Topics[k] \in {"orderbook", "trade", "market24h"}
    BY DEF Topics
  <1>2. Len(list) \in Nat /\ \A i \in 1 .. Len(list) : list[i] \in Symbol
    BY LenProperties, ElementOfSeq
  <1> DEFINE e(i) == <<list[1 + ((i - 1) \div 3)], Topics[1 + ((i - 1) % 3)]>>
             m == 3 * Len(list)
  <1>3. m \in Nat
    BY <1>2
  <1>4. \A i \in 1 .. m : e(i) \in Message
    <2> SUFFICES ASSUME NEW i \in 1 .. m PROVE e(i) \in Message
      OBVIOUS
    <2>1. 1 + ((i - 1) \div 3) \in 1 .. Len(list) /\ 1 + ((i - 1) % 3) \in 1 .. 3
      BY <1>2, <1>3
    <2>2. QED
      BY <1>1, <1>2, <2>1 DEF Message
  <1>5. Messages(list) = [i \in 1 .. m |-> e(i)]
    BY <1>1 DEF Messages
  <1> HIDE DEF e
  <1>6. Messages(list) \in [1 .. m -> Message]
    BY <1>4, <1>5
  <1>7. Messages(list) \in Seq(Message) /\ Len(Messages(list)) = m
    BY <1>3, <1>6
  <1>8. QED
    BY <1>5, <1>7 DEF e

\* The messages for a list that is appended to are those there were and those for what is new.
LEMMA MessagesConcat ==
    ASSUME NEW a \in Seq(Symbol), NEW b \in Seq(Symbol)
    PROVE  Messages(a \o b) = Messages(a) \o Messages(b)
  <1> DEFINE A == Messages(a)
             B == Messages(b)
             C == Messages(a \o b)
             na == Len(a)
             nb == Len(b)
  <1>1. /\ na \in Nat /\ nb \in Nat
        /\ a \o b \in Seq(Symbol) /\ Len(a \o b) = na + nb
        /\ \A i \in 1 .. na + nb : (a \o b)[i] = IF i <= na THEN a[i] ELSE b[i - na]
    BY LenProperties, ConcatProperties
  <1>2. /\ A \in Seq(Message) /\ Len(A) = 3 * na
        /\ \A i \in 1 .. 3 * na : A[i] = <<a[1 + ((i - 1) \div 3)], Topics[1 + ((i - 1) % 3)]>>
    BY MessagesType
  <1>3. /\ B \in Seq(Message) /\ Len(B) = 3 * nb
        /\ \A i \in 1 .. 3 * nb : B[i] = <<b[1 + ((i - 1) \div 3)], Topics[1 + ((i - 1) % 3)]>>
    BY MessagesType
  <1>4. /\ C \in Seq(Message) /\ Len(C) = 3 * (na + nb)
        /\ \A i \in 1 .. 3 * (na + nb) :
              C[i] = <<(a \o b)[1 + ((i - 1) \div 3)], Topics[1 + ((i - 1) % 3)]>>
    BY <1>1, MessagesType
  <1> HIDE DEF A, B, C, na, nb
  <1>5. /\ A \o B \in Seq(Message)
        /\ Len(A \o B) = 3 * na + 3 * nb
        /\ \A i \in 1 .. 3 * na + 3 * nb : (A \o B)[i] = IF i <= 3 * na THEN A[i] ELSE B[i - 3 * na]
    <2>1. /\ A \o B \in Seq(Message)
          /\ Len(A \o B) = Len(A) + Len(B)
          /\ \A i \in 1 .. Len(A) + Len(B) :
                (A \o B)[i] = IF i <= Len(A) THEN A[i] ELSE B[i - Len(A)]
      BY <1>2, <1>3, ConcatProperties
    <2>2. QED
      BY <1>2, <1>3, <2>1, Zenon
  <1>6. ASSUME NEW i \in 1 .. 3 * (na + nb) PROVE C[i] = (A \o B)[i]
    <2>1. i \in Int /\ 1 <= i /\ i <= 3 * na + 3 * nb
      BY <1>1
    <2>2. CASE i <= 3 * na
      <3>1. 1 + ((i - 1) \div 3) \in 1 .. na /\ 1 + ((i - 1) \div 3) <= na
        BY <1>1, <2>1, <2>2
      <3>2. (a \o b)[1 + ((i - 1) \div 3)] = a[1 + ((i - 1) \div 3)]
        BY <1>1, <3>1
      <3>3. (A \o B)[i] = A[i]
        BY <1>1, <1>5, <2>1, <2>2
      <3>4. C[i] = <<(a \o b)[1 + ((i - 1) \div 3)], Topics[1 + ((i - 1) % 3)]>>
        BY <1>4
      <3>5. A[i] = <<a[1 + ((i - 1) \div 3)], Topics[1 + ((i - 1) % 3)]>>
        BY <1>1, <1>2, <2>1, <2>2
      <3>6. QED
        BY <3>2, <3>3, <3>4, <3>5
    <2>3. CASE ~(i <= 3 * na)
      <3> DEFINE j == i - 3 * na
      <3>1. j \in 1 .. 3 * nb
        BY <1>1, <2>1, <2>3
      <3>2. /\ (i - 1) \div 3 = na + ((j - 1) \div 3)
            /\ (i - 1) % 3 = (j - 1) % 3
        BY <1>1, <2>1, <2>3
      <3>3. (j - 1) \div 3 \in 0 .. nb - 1
        BY <1>1, <3>1
      <3>4. (a \o b)[1 + ((i - 1) \div 3)] = b[1 + ((j - 1) \div 3)]
        <4> DEFINE p == 1 + ((i - 1) \div 3)
                   q == (j - 1) \div 3
        <4>1. p = 1 + na + q /\ q \in 0 .. nb - 1
          BY <3>2, <3>3, <1>1
        <4> HIDE DEF p, q
        <4>2. p \in 1 .. na + nb /\ ~(p <= na) /\ p - na = 1 + q
          BY <1>1, <4>1
        <4>3. (a \o b)[p] = b[1 + q]
          BY <1>1, <4>2
        <4>4. QED
          BY <4>3 DEF p, q
      <3>5. (A \o B)[i] = B[j]
        BY <1>1, <1>5, <2>1, <2>3
      <3>6. C[i] = <<(a \o b)[1 + ((i - 1) \div 3)], Topics[1 + ((i - 1) % 3)]>>
        BY <1>4
      <3>7. B[j] = <<b[1 + ((j - 1) \div 3)], Topics[1 + ((j - 1) % 3)]>>
        BY <1>3, <3>1
      <3>8. QED
        BY <3>2, <3>4, <3>5, <3>6, <3>7
    <2>4. QED
      BY <2>2, <2>3
  <1>7. Len(C) = Len(A \o B) /\ Len(C) = 3 * (na + nb)
    BY <1>1, <1>4, <1>5
  <1>8. C = A \o B
    BY <1>4, <1>5, <1>6, <1>7, SeqEqual
  <1>9. QED
    BY <1>8 DEF A, B, C

-----------------------------------------------------------------------------
(* The download.                                                            *)

LEMMA DownloadInit == Init => DownloadInv
  BY DEF Init, RestInit, DownloadInv, RestTypeOK, NothingMissed, Downloading

\* Handlers of the REST stream that bring no symbols.
LEMMA ConnectedStep ==
    ASSUME DownloadInv, RestConnected, UNCHANGED all_symbols
    PROVE  DownloadInv'
  <1> USE DEF DownloadInv, RestTypeOK, Downloading
  <1>1. NewProductsRequest \in ProductsRequest /\ ~NewProductsRequest.overdue
        /\ NewProductsRequest.products = listed
    BY DEF NewProductsRequest, ProductsRequest
  <1>2. CASE Downloading
    BY <1>1, <1>2 DEF RestConnected, EnterProducts, NothingMissed
  <1>3. CASE ~Downloading
    <2>1. Overdue \in SUBSET ProductsRequest /\ \A r \in Overdue : r.overdue
      BY DEF Overdue, ProductsRequest
    <2>2. /\ requests' = Overdue \union {NewProductsRequest}
          /\ wanted' = listed /\ listed' = listed /\ download' = "PRODUCTS"
          /\ connection_status' = "DOWNLOADING" /\ up' = TRUE /\ unheard' = FALSE
      BY <1>3 DEF RestConnected, EnterProducts
    <2>3. requests' \in SUBSET ProductsRequest
      BY <1>1, <2>1, <2>2
    <2>4. \A r \in requests' : ~r.overdue => wanted' \subseteq r.products
      BY <1>1, <2>1, <2>2
    <2>5. QED
      BY <2>2, <2>3, <2>4 DEF NothingMissed
  <1>4. QED
    BY <1>2, <1>3

LEMMA DisconnectedStep ==
    ASSUME DownloadInv, RestDisconnected, UNCHANGED all_symbols
    PROVE  DownloadInv'
  BY DEF DownloadInv, RestTypeOK, RestDisconnected, Downloading, NothingMissed

LEMMA ErrorStep ==
    ASSUME DownloadInv, NEW request \in requests, UNCHANGED all_symbols,
           \/ ProductsAckSkipped(request)
           \/ ProductsError(request)
           \/ ProductsClientError(request)
    PROVE  DownloadInv'
  <1> USE DEF DownloadInv, RestTypeOK, Downloading, NothingMissed
  <1>1. NewProductsRequest \in ProductsRequest /\ NewProductsRequest.products = listed
    BY DEF NewProductsRequest, ProductsRequest
  <1>2. CASE ProductsAckSkipped(request)
    BY <1>2 DEF ProductsAckSkipped
  <1>3. CASE ProductsError(request)
    BY <1>1, <1>3 DEF ProductsError, Retry
  <1>4. CASE ProductsClientError(request)
    BY <1>4 DEF ProductsClientError, Skip
  <1>5. QED
    BY <1>2, <1>3, <1>4

LEMMA ListStep ==
    ASSUME DownloadInv, NEW product \in Product, List(product), UNCHANGED all_symbols
    PROVE  DownloadInv'
  BY DEF DownloadInv, RestTypeOK, List, restVars, Downloading, NothingMissed

\* The answer that ends a download has all that the download was to bring, and
\* the controller makes it known in the same step.
LEMMA ProductsStep == DownloadInv /\ Products => DownloadInv'
  <1> SUFFICES ASSUME DownloadInv,
                      NEW request \in requests, NEW products \in SUBSET listed,
                      ProductsAck(request, products), SymbolsUpdate(products)
               PROVE  DownloadInv'
    BY DEF Products
  <1> USE DEF DownloadInv, RestTypeOK
  <1>1. wanted \subseteq products
    BY DEF ProductsAck, Skip
  <1>2. all_symbols' = all_symbols \union products
    BY DEF SymbolsUpdate
  <1>3. NothingMissed'
    BY <1>1, <1>2 DEF ProductsAck, NothingMissed
  <1>4. QED
    BY <1>3 DEF ProductsAck, Downloading

LEMMA SubscribeStep ==
    ASSUME DownloadInv, NEW items, Subscribe(items)
    PROVE  DownloadInv'
  <1>1. all_symbols' = all_symbols \union items /\ UNCHANGED <<listed, restVars>>
    BY DEF Subscribe, SymbolsUpdate
  <1>2. QED
    BY <1>1 DEF DownloadInv, RestTypeOK, restVars, Downloading, NothingMissed

LEMMA DownloadStep == DownloadInv /\ [Next]_vars => DownloadInv'
  <1> SUFFICES ASSUME DownloadInv, [Next]_vars PROVE DownloadInv'
    OBVIOUS
  <1>1. CASE RestNext /\ UNCHANGED <<symbols, market_data, all_symbols>>
    BY <1>1, ConnectedStep, DisconnectedStep, ErrorStep, ListStep DEF RestNext
  <1>2. CASE Products
    BY <1>2, ProductsStep
  <1>3. CASE \E items \in SUBSET Symbol \ {{}} : Subscribe(items)
    BY <1>3, SubscribeStep
  <1>4. CASE UNCHANGED <<all_symbols, listed, restVars>>
    BY <1>4 DEF DownloadInv, RestTypeOK, restVars, Downloading, NothingMissed
  <1>5. CASE UNCHANGED vars
    BY <1>4, <1>5 DEF vars
  <1>6. QED
    BY <1>1, <1>2, <1>3, <1>4, <1>5 DEF Next

-----------------------------------------------------------------------------
(* The list of symbols.                                                     *)

LEMMA ListInit == Init => ListInv
  <1> SUFFICES ASSUME Init PROVE ListInv
    OBVIOUS
  <1>1. symbols = <<>> /\ market_data = <<>> /\ all_symbols = {} /\ Len(<<>>) = 0
    BY DEF Init
  <1>2. Size(symbols) = 0
    <2>1. MaxPerStream - 1 \in Nat /\ MaxPerStream \in Nat \ {0} /\ 0 * MaxPerStream = 0
      BY MaxPerStreamAssumption
    <2>2. 0 = (MaxPerStream - 1) \div MaxPerStream
      BY <2>1, QuotientUnique
    <2>3. Len(symbols) + MaxPerStream - 1 = MaxPerStream - 1
      BY <1>1, <2>1
    <2>4. QED
      BY <2>2, <2>3 DEF Size
  <1>3. QED
    BY <1>1, <1>2 DEF ListInv, ToSet

\* What SymbolsUpdate appends.
LEMMA NewSymbols ==
    ASSUME NEW items \in SUBSET Symbol, NEW new \in SetToSeqs(NewOf(items))
    PROVE  /\ new \in Seq(Symbol)
           /\ \A j, k \in 1 .. Len(new) : new[j] = new[k] => j = k
           /\ ToSet(new) = items \ all_symbols
  <1> DEFINE fresh == items \ all_symbols
             c == Cardinality(fresh)
  <1>1. IsFiniteSet(fresh) /\ fresh \subseteq Symbol
    BY SymbolFinite, FS_Subset
  <1>2. c \in Nat
    BY <1>1, FS_CardinalityType
  <1>3. new \in [1 .. c -> fresh] /\ \A i, j \in 1 .. c : i # j => new[i] # new[j]
    BY DEF SetToSeqs, NewOf
  <1> HIDE DEF fresh
  <1>4. IsFiniteSet(1 .. c) /\ Cardinality(1 .. c) = c
    BY <1>2, FS_Interval
  <1> HIDE DEF c
  <1>5. new \in Injection(1 .. c, fresh)
    BY <1>3, Fun_IsInj
  <1>6. new \in Surjection(1 .. c, fresh)
    BY <1>1, <1>4, <1>5, FS_Injection DEF c
  <1>7. \A s \in fresh : \E k \in 1 .. c : new[k] = s
    BY <1>6 DEF Surjection
  <1>8. new \in [1 .. c -> Symbol]
    BY <1>1, <1>3
  <1>9. new \in Seq(Symbol) /\ Len(new) = c
    BY <1>2, <1>8
  <1>10. ToSet(new) = fresh
    BY <1>3, <1>7 DEF ToSet
  <1>11. QED
    BY <1>3, <1>9, <1>10 DEF fresh

\* SymbolsUpdate keeps the list and the streams right.
LEMMA ListUpdate ==
    ASSUME ListInv, market_data \in Seq(Stream), NEW items \in SUBSET Symbol, SymbolsUpdate(items)
    PROVE  ListInv'
  <1>1. PICK new \in SetToSeqs(NewOf(items)) :
           /\ symbols' = symbols \o new
           /\ all_symbols' = all_symbols \union items
           /\ market_data' =
                [i \in 1 .. Streams(symbols') |->
                   IF i <= Len(market_data)
                   THEN Subscribed(market_data[i], i - 1, symbols', Len(symbols))
                   ELSE NewStream]
    BY DEF SymbolsUpdate
  <1>2. /\ new \in Seq(Symbol)
        /\ \A j, k \in 1 .. Len(new) : new[j] = new[k] => j = k
        /\ ToSet(new) = items \ all_symbols
    BY NewSymbols
  <1>3. /\ symbols \in Seq(Symbol) /\ all_symbols = ToSet(symbols)
        /\ \A j, k \in 1 .. Len(symbols) : symbols[j] = symbols[k] => j = k
    BY DEF ListInv
  <1>4. symbols' \in Seq(Symbol)
    BY <1>1, <1>2, <1>3, ConcatProperties
  <1>5. /\ ToSet(symbols') = ToSet(symbols) \union ToSet(new)
        /\ \A j, k \in 1 .. Len(symbols') : symbols'[j] = symbols'[k] => j = k
    <2>1. ToSet(symbols) \cap ToSet(new) = {}
      BY <1>2, <1>3
    <2>2. /\ ToSet(symbols \o new) = ToSet(symbols) \union ToSet(new)
          /\ \A j, k \in 1 .. Len(symbols \o new) :
                (symbols \o new)[j] = (symbols \o new)[k] => j = k
      BY <1>2, <1>3, <2>1, ConcatList
    <2>3. QED
      BY <1>1, <2>2, Zenon
  <1>6. all_symbols' = ToSet(symbols')
    BY <1>1, <1>2, <1>3, <1>5
  <1>7. Size(symbols') <= Len(market_data')
    <2>1. Size(symbols') \in Nat /\ Len(market_data) \in Nat
      BY <1>4, SizeNat, LenProperties
    <2>2. Streams(symbols') \in Nat /\ Size(symbols') <= Streams(symbols')
      BY <2>1 DEF Streams
    <2>3. Len(market_data') = Streams(symbols')
      BY <1>1, <2>2
    <2>4. QED
      BY <2>2, <2>3
  <1>8. QED
    BY <1>4, <1>5, <1>6, <1>7 DEF ListInv, Size

-----------------------------------------------------------------------------
(* The streams.                                                             *)

LEMMA StreamInit == Init => StreamInv
  BY DEF Init, StreamInv, SubscribedOnce

LEMMA Associative ==
    ASSUME NEW a \in Seq(Message), NEW b \in Seq(Message), NEW c \in Seq(Message)
    PROVE  (a \o b) \o c = a \o (b \o c)
  BY ConcatAssociative

\* A stream that is told of symbols changes its queue only, and only when it is connected.
LEMMA SubscribedStream ==
    ASSUME NEW stream \in Stream, NEW index \in Nat, NEW list \in Seq(Symbol),
           NEW start_from \in Nat
    PROVE  LET s == Subscribed(stream, index, list, start_from)
           IN  /\ s \in Stream
               /\ s.connection_status = stream.connection_status
               /\ s.sent = stream.sent
               /\ stream.connection_status = "READY"
                    => s.queue = stream.queue \o Messages(GetSlice(list, index, start_from))
               /\ stream.connection_status = "DISCONNECTED" => s = stream
  <1> DEFINE q == stream.queue
             new == Messages(GetSlice(list, index, start_from))
  <1>1. new \in Seq(Message)
    BY SliceType, MessagesType
  <1>2. /\ stream.connection_status \in {"DISCONNECTED", "READY"}
        /\ q \in Seq(Message) /\ stream.sent \in Seq(Message)
    BY DEF Stream
  <1>3. q \o new \in Seq(Message)
    BY <1>1, <1>2, ConcatProperties
  <1> HIDE DEF new
  <1>4. CASE stream.connection_status = "READY"
    <2>1. Subscribed(stream, index, list, start_from) = [stream EXCEPT !.queue = q \o new]
      BY <1>4 DEF Subscribed, new
    <2>2. QED
      BY <1>2, <1>3, <1>4, <2>1 DEF Stream, new
  <1>5. CASE stream.connection_status = "DISCONNECTED"
    BY <1>5 DEF Subscribed
  <1>6. QED
    BY <1>2, <1>4, <1>5

\* The part of the invariant that is about one stream.
Right(stream, index, list) ==
    /\ stream \in Stream
    /\ stream.connection_status = "DISCONNECTED" => stream = NewStream
    /\ stream.connection_status = "READY"
         => stream.sent \o stream.queue = Messages(GetSlice(list, index, 0))

LEMMA NewStreamRight ==
    ASSUME NEW index, NEW list
    PROVE  Right(NewStream, index, list)
  BY DEF Right, NewStream, Stream

LEMMA EachRight ==
    ASSUME market_data \in Seq(Stream)
    PROVE  StreamInv <=> \A i \in DOMAIN market_data : Right(market_data[i], i - 1, symbols)
  <1>1. \A i \in DOMAIN market_data :
           /\ market_data[i] \in Stream
           /\ market_data[i].connection_status \in {"DISCONNECTED", "READY"}
    <2>1. \A i \in DOMAIN market_data : market_data[i] \in Stream
      BY LenProperties, ElementOfSeq
    <2>2. QED
      BY <2>1 DEF Stream
  <1>2. NewStream.queue = <<>>
    BY DEF NewStream
  <1>3. QED
    BY <1>1, <1>2 DEF StreamInv, SubscribedOnce, Right

\* A session begins with all of the slice.
LEMMA ReadyRight ==
    ASSUME NEW index \in Nat, symbols \in Seq(Symbol)
    PROVE  Right(Subscribed([NewStream EXCEPT !.connection_status = "READY"], index, symbols, 0),
                 index, symbols)
  <1> DEFINE stream == [NewStream EXCEPT !.connection_status = "READY"]
             s == Subscribed(stream, index, symbols, 0)
             new == Messages(GetSlice(symbols, index, 0))
  <1>1. /\ stream \in Stream /\ stream.connection_status = "READY"
        /\ stream.queue = <<>> /\ stream.sent = <<>>
    <2>1. <<>> \in Seq(Message)
      BY EmptySeq
    <2>2. stream = [connection_status |-> "READY", queue |-> <<>>, sent |-> <<>>]
      BY DEF NewStream
    <2>3. QED
      BY <2>1, <2>2 DEF Stream
  <1> HIDE DEF stream
  <1>2. /\ s \in Stream /\ s.connection_status = "READY" /\ s.sent = <<>>
        /\ s.queue = <<>> \o new
    <2>1. /\ s \in Stream
          /\ s.connection_status = stream.connection_status
          /\ s.sent = stream.sent
          /\ stream.connection_status = "READY" => s.queue = stream.queue \o new
      <3>1. symbols \in Seq(Symbol) /\ 0 \in Nat
        OBVIOUS
      <3> HIDE DEF s, new
      <3>2. QED
        BY <1>1, <3>1, SubscribedStream, Zenon DEF s, new
    <2> HIDE DEF s, new
    <2>2. QED
      BY <1>1, <2>1, Zenon
  <1>3. new \in Seq(Message)
    BY SliceType, MessagesType
  <1> HIDE DEF s, new
  <1>4. s.sent \o s.queue = new
    BY <1>2, <1>3, ConcatEmptySeq, EmptySeq
  <1>5. QED
    BY <1>2, <1>4 DEF Right, s, stream, new

\* A stream that is told of new symbols adds what they add to its slice.
LEMMA SubscribedRight ==
    ASSUME NEW stream, NEW index \in Nat, NEW list \in Seq(Symbol), NEW new \in Seq(Symbol),
           Right(stream, index, list)
    PROVE  Right(Subscribed(stream, index, list \o new, Len(list)), index, list \o new)
  <1> DEFINE s == Subscribed(stream, index, list \o new, Len(list))
             have == GetSlice(list, index, 0)
             gain == GetSlice(list \o new, index, Len(list))
             want == GetSlice(list \o new, index, 0)
  <1>1. list \o new \in Seq(Symbol) /\ Len(list) \in Nat
    BY ConcatProperties, LenProperties
  <1>2. have \in Seq(Symbol) /\ gain \in Seq(Symbol) /\ want = have \o gain
    BY <1>1, SliceType, SliceGrows
  <1>3. stream \in Stream /\ stream.queue \in Seq(Message) /\ stream.sent \in Seq(Message)
        /\ stream.connection_status \in {"DISCONNECTED", "READY"}
    BY DEF Right, Stream
  <1>4. /\ s \in Stream
        /\ s.connection_status = stream.connection_status
        /\ s.sent = stream.sent
        /\ stream.connection_status = "READY" => s.queue = stream.queue \o Messages(gain)
        /\ stream.connection_status = "DISCONNECTED" => s = stream
    BY <1>1, <1>3, SubscribedStream
  <1> HIDE DEF s, have, gain, want
  <1>5. Messages(have) \in Seq(Message) /\ Messages(gain) \in Seq(Message)
        /\ Messages(want) = Messages(have) \o Messages(gain)
    BY <1>2, MessagesType, MessagesConcat
  <1>6. CASE stream.connection_status = "READY"
    <2>1. stream.sent \o stream.queue = Messages(have)
      BY <1>6 DEF Right, have
    <2>2. s.sent \o s.queue = (stream.sent \o stream.queue) \o Messages(gain)
      <3>1. s.sent \o s.queue = stream.sent \o (stream.queue \o Messages(gain))
        BY <1>4, <1>6, Zenon
      <3>2. QED
        BY <1>3, <1>5, <3>1, Associative
    <2>3. s.sent \o s.queue = Messages(want)
      BY <1>5, <2>1, <2>2, Zenon
    <2>4. s \in Stream /\ s.connection_status = "READY"
      BY <1>4, <1>6
    <2>5. QED
      BY <2>3, <2>4 DEF Right, s, want
  <1>7. CASE stream.connection_status = "DISCONNECTED"
    <2>1. s = NewStream
      BY <1>4, <1>7 DEF Right
    <2>2. QED
      BY <2>1, NewStreamRight DEF s
  <1>8. QED
    BY <1>3, <1>6, <1>7

\* What is sent leaves the queue.
LEMMA SentRight ==
    ASSUME NEW stream, NEW index, NEW list, Right(stream, index, list),
           stream.connection_status = "READY", NEW n \in 1 .. Len(stream.queue)
    PROVE  Right([stream EXCEPT
                     !.queue = SubSeq(stream.queue, n + 1, Len(stream.queue)),
                     !.sent = @ \o SubSeq(stream.queue, 1, n)], index, list)
  <1> DEFINE q == stream.queue
             head == SubSeq(q, 1, n)
             tail == SubSeq(q, n + 1, Len(q))
             s == [stream EXCEPT !.queue = tail, !.sent = @ \o head]
  <1>1. stream \in Stream /\ q \in Seq(Message) /\ stream.sent \in Seq(Message)
    BY DEF Right, Stream
  <1>2. Len(q) \in Nat
    BY <1>1, LenProperties
  <1>3. head \o tail = q
    <2>1. SubSeq(q, 1, n) \o SubSeq(q, n + 1, Len(q)) = SubSeq(q, 1, Len(q))
      BY <1>1, <1>2, ConcatAdjacentSubSeq
    <2>2. QED
      BY <1>1, <2>1, SubSeqFull
  <1>4. head \in Seq(Message) /\ tail \in Seq(Message)
    <2>1. \A i \in 1 .. Len(q) : q[i] \in Message
      BY <1>1, ElementOfSeq
    <2>2. /\ 1 \in Int /\ n \in Int /\ n + 1 \in Int /\ Len(q) \in Int
          /\ \A i \in 1 .. n : q[i] \in Message
          /\ \A i \in n + 1 .. Len(q) : q[i] \in Message
      BY <1>2, <2>1
    <2>3. QED
      BY <2>2, SubSeqProperties
  <1> HIDE DEF head, tail, q
  <1>5. s = [connection_status |-> stream.connection_status, queue |-> tail,
             sent |-> stream.sent \o head]
    <2>1. stream = [connection_status |-> stream.connection_status,
                    queue |-> stream.queue, sent |-> stream.sent]
      BY <1>1 DEF Stream
    <2> DEFINE sent == stream.sent \o head
    <2>2. s = [stream EXCEPT !.queue = tail, !.sent = sent]
      BY <2>1
    <2> HIDE DEF sent, s
    <2>3. s = [connection_status |-> stream.connection_status, queue |-> tail, sent |-> sent]
      BY <2>1, <2>2
    <2>4. QED
      BY <2>3 DEF sent
  <1>6. stream.sent \o head \in Seq(Message)
    BY <1>1, <1>4, ConcatProperties
  <1>7. s \in Stream /\ s.connection_status = "READY"
    BY <1>1, <1>4, <1>5, <1>6 DEF Stream
  <1>8. s.sent \o s.queue = stream.sent \o q
    <2>1. s.sent \o s.queue = (stream.sent \o head) \o tail
      BY <1>5
    <2>2. (stream.sent \o head) \o tail = stream.sent \o (head \o tail)
      BY <1>1, <1>4, Associative
    <2>3. QED
      BY <1>3, <2>1, <2>2
  <1>9. stream.sent \o q = Messages(GetSlice(list, index, 0))
    BY DEF Right, q
  <1>10. Right(s, index, list)
    BY <1>7, <1>8, <1>9 DEF Right
  <1>11. QED
    BY <1>10 DEF s, head, tail, q

LEMMA StreamUpdate ==
    ASSUME ListInv, StreamInv, NEW items \in SUBSET Symbol, SymbolsUpdate(items)
    PROVE  StreamInv'
  <1>1. PICK new \in SetToSeqs(NewOf(items)) :
           /\ symbols' = symbols \o new
           /\ all_symbols' = all_symbols \union items
           /\ market_data' =
                [i \in 1 .. Streams(symbols') |->
                   IF i <= Len(market_data)
                   THEN Subscribed(market_data[i], i - 1, symbols', Len(symbols))
                   ELSE NewStream]
    BY DEF SymbolsUpdate
  <1>2. /\ symbols \in Seq(Symbol) /\ new \in Seq(Symbol) /\ symbols' \in Seq(Symbol)
        /\ market_data \in Seq(Stream)
    BY <1>1, NewSymbols, ConcatProperties DEF ListInv, StreamInv
  <1>3. Streams(symbols') \in Nat
    BY <1>2, SizeNat, LenProperties DEF Streams
  <1>4. ASSUME NEW i \in 1 .. Streams(symbols')
        PROVE  Right(market_data'[i], i - 1, symbols')
    <2>1. CASE i <= Len(market_data)
      <3>1. i \in DOMAIN market_data /\ i - 1 \in Nat
        BY <1>2, <1>3, <2>1, LenProperties
      <3>2. Right(market_data[i], i - 1, symbols)
        BY <1>2, <3>1, EachRight
      <3>3. Right(Subscribed(market_data[i], i - 1, symbols \o new, Len(symbols)),
                  i - 1, symbols \o new)
        BY <1>2, <3>1, <3>2, SubscribedRight
      <3>4. market_data'[i] = Subscribed(market_data[i], i - 1, symbols \o new, Len(symbols))
        BY <1>1, <2>1
      <3>5. QED
        BY <1>1, <3>3, <3>4, Zenon
    <2>2. CASE ~(i <= Len(market_data))
      <3>1. market_data'[i] = NewStream
        BY <1>1, <2>2
      <3>2. QED
        BY <3>1, NewStreamRight
    <2>3. QED
      BY <2>1, <2>2
  <1>5. DOMAIN market_data' = 1 .. Streams(symbols') /\ market_data' \in Seq(Stream)
    <2>1. /\ market_data' \in [1 .. Streams(symbols') -> Stream]
          /\ DOMAIN market_data' = 1 .. Streams(symbols')
      BY <1>1, <1>4 DEF Right
    <2>2. QED
      BY <1>3, <2>1
  <1>6. \A i \in DOMAIN market_data' :
           /\ Right(market_data'[i], i - 1, symbols')
           /\ market_data'[i].connection_status \in {"DISCONNECTED", "READY"}
    BY <1>4, <1>5 DEF Right, Stream
  <1>7. NewStream.queue = <<>>
    BY DEF NewStream
  <1>8. QED
    BY <1>5, <1>6, <1>7 DEF StreamInv, SubscribedOnce, Right

\* Actions of one stream.
LEMMA SetStreamRight ==
    ASSUME ListInv, StreamInv, NEW i \in DOMAIN market_data, NEW stream,
           Right(stream, i - 1, symbols), SetStream(i, stream),
           UNCHANGED <<symbols, all_symbols>>
    PROVE  ListInv' /\ StreamInv'
  <1>1. market_data \in Seq(Stream) /\ stream \in Stream /\ i \in 1 .. Len(market_data)
    BY LenProperties DEF StreamInv, Right
  <1>2. market_data' = [market_data EXCEPT ![i] = stream]
    BY DEF SetStream
  <1>3. /\ market_data' \in Seq(Stream) /\ Len(market_data') = Len(market_data)
        /\ DOMAIN market_data' = DOMAIN market_data
        /\ \A j \in DOMAIN market_data : market_data'[j] = IF j = i THEN stream ELSE market_data[j]
    BY <1>1, <1>2, ExceptSeq, LenProperties
  <1>4. \A j \in DOMAIN market_data : Right(market_data[j], j - 1, symbols)
    BY <1>1, EachRight
  <1>5. \A j \in DOMAIN market_data' :
           /\ Right(market_data'[j], j - 1, symbols')
           /\ market_data'[j].connection_status \in {"DISCONNECTED", "READY"}
    <2> SUFFICES ASSUME NEW j \in DOMAIN market_data'
                 PROVE  Right(market_data'[j], j - 1, symbols)
      BY DEF Right, Stream
    <2>1. CASE j = i
      BY <1>3, <2>1
    <2>2. CASE j # i
      BY <1>3, <1>4, <2>2
    <2>3. QED
      BY <2>1, <2>2
  <1>6. NewStream.queue = <<>>
    BY DEF NewStream
  <1>7. StreamInv'
    BY <1>3, <1>5, <1>6 DEF StreamInv, SubscribedOnce, Right
  <1>8. ListInv'
    BY <1>3 DEF ListInv, Size
  <1>9. QED
    BY <1>7, <1>8

LEMMA StreamStep ==
    ASSUME ListInv, StreamInv, NEW i \in DOMAIN market_data, UNCHANGED all_symbols,
           MarketDataReady(i) \/ MarketDataDisconnected(i) \/ CheckSubscribeQueue(i)
    PROVE  ListInv' /\ StreamInv'
  <1>1. /\ symbols \in Seq(Symbol) /\ market_data \in Seq(Stream)
        /\ i - 1 \in Nat /\ market_data[i] \in Stream
    BY LenProperties, ElementOfSeq DEF ListInv, StreamInv
  <1>2. Right(market_data[i], i - 1, symbols)
    BY <1>1, EachRight
  <1>3. CASE MarketDataReady(i)
    <2>1. market_data[i] = NewStream
      BY <1>3 DEF MarketDataReady, StreamInv
    <2>2. SetStream(i, Subscribed([NewStream EXCEPT !.connection_status = "READY"],
                                  i - 1, symbols, 0))
      BY <1>3, <2>1 DEF MarketDataReady
    <2>3. QED
      BY <1>1, <1>3, <2>2, ReadyRight, SetStreamRight DEF MarketDataReady
  <1>4. CASE MarketDataDisconnected(i)
    BY <1>4, NewStreamRight, SetStreamRight DEF MarketDataDisconnected, LostStream
  <1>5. CASE CheckSubscribeQueue(i)
    <2>1. PICK n \in 1 .. Len(market_data[i].queue) :
             SetStream(i, [market_data[i] EXCEPT
                 !.queue = SubSeq(market_data[i].queue, n + 1, Len(market_data[i].queue)),
                 !.sent = @ \o SubSeq(market_data[i].queue, 1, n)])
      BY <1>5 DEF CheckSubscribeQueue
    <2>2. market_data[i].connection_status = "READY" /\ UNCHANGED symbols
      BY <1>5 DEF CheckSubscribeQueue
    <2>3. Right([market_data[i] EXCEPT
                 !.queue = SubSeq(market_data[i].queue, n + 1, Len(market_data[i].queue)),
                 !.sent = @ \o SubSeq(market_data[i].queue, 1, n)], i - 1, symbols)
      BY <1>2, <2>2, SentRight
    <2>4. QED
      BY <2>1, <2>2, <2>3, SetStreamRight
  <1>6. QED
    BY <1>3, <1>4, <1>5

-----------------------------------------------------------------------------
(* The composition.                                                         *)

LEMMA SameSymbols ==
    ASSUME ListInv, StreamInv, UNCHANGED <<symbols, market_data, all_symbols>>
    PROVE  ListInv' /\ StreamInv'
  BY DEF ListInv, StreamInv, SubscribedOnce, Size

LEMMA SymbolsStep ==
    ASSUME ListInv, StreamInv, DownloadInv, [Next]_vars
    PROVE  ListInv' /\ StreamInv'
  <1>1. CASE RestNext /\ UNCHANGED <<symbols, market_data, all_symbols>>
    BY <1>1, SameSymbols
  <1>2. CASE Products
    <2>1. PICK products \in SUBSET listed : SymbolsUpdate(products)
      BY <1>2 DEF Products
    <2>2. products \in SUBSET Symbol
      BY <2>1, ProductAssumption DEF DownloadInv, RestTypeOK
    <2>3. QED
      BY <2>1, <2>2, ListUpdate, StreamUpdate DEF StreamInv
  <1>3. CASE \E items \in SUBSET Symbol \ {{}} : Subscribe(items)
    BY <1>3, ListUpdate, StreamUpdate DEF Subscribe, StreamInv
  <1>4. CASE /\ \E i \in DOMAIN market_data :
                  MarketDataReady(i) \/ MarketDataDisconnected(i) \/ CheckSubscribeQueue(i)
             /\ UNCHANGED <<all_symbols, listed, restVars>>
    BY <1>4, StreamStep
  <1>5. CASE UNCHANGED vars
    BY <1>5, SameSymbols DEF vars
  <1>6. QED
    BY <1>1, <1>2, <1>3, <1>4, <1>5 DEF Next

\* The quotient of its position is the only stream a symbol has.
LEMMA Partition == ListInv /\ StreamInv => SlicesPartition
  <1> SUFFICES ASSUME ListInv, StreamInv PROVE SlicesPartition
    OBVIOUS
  <1> DEFINE slice(i) == GetSlice(symbols, i - 1, 0)
             slices == [i \in DOMAIN market_data |-> ToSet(slice(i))]
             n == Len(symbols)
  <1>1. /\ symbols \in Seq(Symbol) /\ n \in Nat /\ DOMAIN symbols = 1 .. n
        /\ \A j, k \in 1 .. n : symbols[j] = symbols[k] => j = k
        /\ Len(market_data) \in Nat /\ DOMAIN market_data = 1 .. Len(market_data)
        /\ Size(symbols) <= Len(market_data)
    BY LenProperties DEF ListInv, StreamInv
  <1>2. ASSUME NEW i \in DOMAIN market_data
        PROVE  /\ slice(i) \in Seq(Symbol)
               /\ \A k \in 1 .. Len(slice(i)) :
                     (i - 1) * MaxPerStream + k \in 1 .. n
                     /\ slice(i)[k] = symbols[(i - 1) * MaxPerStream + k]
               /\ ToSet(slice(i)) = Own(symbols, i - 1)
    <2> DEFINE j == i - 1
    <2>1. j \in Nat /\ symbols \in Seq(Symbol)
      BY <1>1
    <2> HIDE DEF j, n
    <2>2. /\ GetSlice(symbols, j, 0) \in Seq(Symbol)
          /\ \A k \in 1 .. Len(GetSlice(symbols, j, 0)) :
                /\ j * MaxPerStream + k \in 1 .. Len(symbols)
                /\ GetSlice(symbols, j, 0)[k] = symbols[j * MaxPerStream + k]
          /\ ToSet(GetSlice(symbols, j, 0))
               = Own(symbols, j)
      BY <2>1, SliceElements
    <2>3. QED
      BY <2>2, Zenon DEF j, n
  <1>3. ASSUME NEW symbol \in all_symbols
        PROVE  Cardinality({i \in DOMAIN market_data : symbol \in slices[i]}) = 1
    <2>1. PICK p \in 1 .. n : symbols[p] = symbol
      BY <1>1 DEF ListInv, ToSet
    <2> DEFINE k == (p - 1) \div MaxPerStream
    <2>2. k \in Nat /\ k + 1 \in DOMAIN market_data
      <3>1. k \in Nat /\ Size(symbols) \in Nat /\ k + 1 <= Size(symbols)
        BY <1>1, SizeEnough
      <3> HIDE DEF k
      <3>2. QED
        BY <1>1, <3>1
    <2>3. \A q \in 1 .. n : symbols[q] = symbol => q = p
      BY <1>1, <2>1
    <2>4. ASSUME NEW i \in DOMAIN market_data
          PROVE  symbol \in slices[i] <=> i = k + 1
      <3>1. symbol \in slices[i] <=> (p - 1) \div MaxPerStream = i - 1
        <4>1. slices[i] = {symbols[q] : q \in {q \in 1 .. n : (q - 1) \div MaxPerStream = i - 1}}
          BY <1>2 DEF Own
        <4>2. QED
          BY <2>1, <2>3, <4>1
      <3> HIDE DEF slices
      <3>2. i \in Int /\ k \in Int
        BY <1>1, <2>2
      <3>3. (k = i - 1) <=> (i = k + 1)
        <4> HIDE DEF k
        <4> QED
          BY <3>2
      <3>4. QED
        BY <3>1, <3>3
    <2> HIDE DEF k, slices
    <2>5. {i \in DOMAIN market_data : symbol \in slices[i]} = {k + 1}
      BY <2>2, <2>4
    <2>6. QED
      BY <2>5, FS_Singleton
  <1>4. ASSUME NEW i \in DOMAIN market_data
        PROVE  Cardinality(slices[i]) = Len(slice(i))
    <2>1. ASSUME NEW j \in 1 .. Len(slice(i)), NEW k \in 1 .. Len(slice(i)),
                 slice(i)[j] = slice(i)[k]
          PROVE  j = k
      <3> DEFINE first == (i - 1) * MaxPerStream
      <3>1. first + j = first + k
        BY <1>1, <1>2, <2>1
      <3>2. first \in Int
        BY <1>1, MaxPerStreamAssumption
      <3> HIDE DEF first
      <3>3. QED
        BY <1>2, <3>1, <3>2, LenProperties
    <2>2. Cardinality(ToSet(slice(i))) = Len(slice(i))
      BY <1>2, <2>1, NoneTwice
    <2>3. QED
      BY <2>2
  <1>5. QED
    BY <1>3, <1>4, Zenon DEF SlicesPartition

\* A list without repetitions is no longer than there are symbols.
LEMMA Typed == IInv => TypeOK
  <1> SUFFICES ASSUME IInv PROVE TypeOK
    OBVIOUS
  <1>1. symbols \in Seq(Symbol) /\ all_symbols = ToSet(symbols)
        /\ \A j, k \in 1 .. Len(symbols) : symbols[j] = symbols[k] => j = k
    BY DEF IInv, ListInv
  <1>2. /\ Len(symbols) \in Nat /\ symbols \in [1 .. Len(symbols) -> Symbol]
        /\ DOMAIN symbols = 1 .. Len(symbols)
    BY <1>1, LenProperties
  <1>3. all_symbols \in SUBSET Symbol
    BY <1>1, <1>2 DEF ToSet
  <1>4. Cardinality(Symbol) \in Nat /\ Len(symbols) <= Cardinality(Symbol)
    BY <1>1, <1>3, NoneTwice, SymbolFinite, FS_Subset, FS_CardinalityType
  <1>5. symbols \in SeqOf(Symbol, Cardinality(Symbol))
    BY <1>2, <1>4 DEF SeqOf
  <1>6. QED
    BY <1>3, <1>5 DEF IInv, DownloadInv, StreamInv, TypeOK

LEMMA InvariantHolds == Spec => []IInv
  <1>1. Init => IInv
    BY DownloadInit, ListInit, StreamInit DEF IInv
  <1>2. IInv /\ [Next]_vars => IInv'
    BY DownloadStep, SymbolsStep DEF IInv
  <1>3. QED
    BY <1>1, <1>2, PTL DEF Spec

\* The list, the streams and the download keep their types; the list is never
\* longer than there are symbols, so that none is appended twice.
THEOREM TypeCorrect == Spec => []TypeOK
  BY InvariantHolds, Typed, PTL

\* Every session subscribes each topic of each symbol of its slice exactly
\* once, in whatever order symbols become known, sessions begin and end, and
\* queues are sent (market_data_usd_m.cpp:164-168, :175-180, :193-197).
THEOREM EverySubscriptionOnce == Spec => []SubscribedOnce
  <1>1. IInv => SubscribedOnce
    BY DEF IInv, StreamInv
  <1>2. QED
    BY <1>1, InvariantHolds, PTL

\* Every known symbol is in the slice of exactly one stream, and once in it
\* (rest_usd_m.cpp:325, controller.cpp:204, :283-300).
THEOREM SlicesAreAPartition == Spec => []SlicesPartition
  <1>1. IInv => SlicesPartition
    BY Partition DEF IInv
  <1>2. QED
    BY <1>1, InvariantHolds, PTL

\* A download that is done has brought everything that was listed when it
\* began, whatever was listed, lost, repeated or answered late meanwhile
\* (rest_usd_m.cpp:234).
THEOREM DownloadComplete == Spec => []NothingMissed
  <1>1. IInv => NothingMissed
    BY DEF IInv, DownloadInv
  <1>2. QED
    BY <1>1, InvariantHolds, PTL
=============================================================================
