---------------------------- MODULE CodecProofs ----------------------------
(***************************************************************************)
(* Theorems about the codec, for every packet, every length and every      *)
(* input: what is encoded is decoded again, what is decoded was encoded,   *)
(* and packets stay apart on a stream.                                     *)
(***************************************************************************)
EXTENDS Wire, SequenceTheorems, WellFoundedInduction, TLAPS
----------------------------------------------------------------------------
(***************************************************************************)
(* Induction over the natural numbers, with a set for the predicate.       *)
(***************************************************************************)
\* A set of naturals has a least element.
LEMMA LeastNumber ==
    ASSUME NEW T \in SUBSET Nat, T # {}
    PROVE  \E x \in T : \A y \in T : x <= y
<1> DEFINE R == OpToRel(<, Nat)
<1>1. IsWellFoundedOn(R, Nat)
  BY NatLessThanWellFounded
<1>2. \A x, y \in Nat : y < x => <<y, x>> \in R
  BY SMT DEF OpToRel
<1> HIDE DEF R
<1>3. PICK x \in T : \A y \in T : ~(<<y, x>> \in R)
  BY <1>1, WFMin
<1>4. ASSUME NEW y \in T PROVE x <= y
  <2>1. x \in Nat /\ y \in Nat
    OBVIOUS
  <2>2. ~(y < x)
    BY <1>2, <1>3, <2>1
  <2> QED BY <2>1, <2>2
<1> QED BY <1>4

\* A set that holds 0 and is closed under successor holds every natural.
LEMMA SetInduction ==
    ASSUME NEW T, 0 \in T, \A n \in Nat : n \in T => n + 1 \in T
    PROVE  Nat \subseteq T
<1> SUFFICES ASSUME Nat \ T # {} PROVE FALSE
  OBVIOUS
<1>1. PICK x \in Nat \ T : \A y \in Nat \ T : x <= y
  BY LeastNumber
<1>2. x # 0 /\ x - 1 \in Nat
  BY <1>1
<1>3. x - 1 \in T
  BY <1>1, <1>2
<1> QED BY <1>1, <1>2, <1>3
----------------------------------------------------------------------------
(***************************************************************************)
(* The remaining length.                                                   *)
(***************************************************************************)
\* The multipliers, one by one.
LEMMA Multipliers ==
    /\ Multiplier[1] = 1 /\ Multiplier[2] = 128
    /\ Multiplier[3] = 16384 /\ Multiplier[4] = 2097152
  BY SMT DEF Multiplier

\* A digit keeps its continuation bit apart from its value.
LEMMA DigitBits ==
    ASSUME NEW d \in 0..127
    PROVE  /\ ~Bit(d, 128) /\ Bit(d + 128, 128)
           /\ d % 128 = d /\ (d + 128) % 128 = d
  BY DEF Bit

\* Where the encoding of a length stops.
LEMMA EncodedDigits ==
    ASSUME NEW n \in 0..MaxRemainingLength
    PROVE  LET e == EncodeRemainingLength(n)
               k == RemainingLengthSize(n)
           IN  /\ k \in 1..4
               /\ e \in Seq(Byte) /\ Len(e) = k
               /\ \A i \in 1..k : e[i] = ((n \div Multiplier[i]) % 128) + SetBit(128, i < k)
<1> DEFINE k == RemainingLengthSize(n)
           digits == {i \in 1..4 : i = 1 \/ n \div Multiplier[i] > 0}
           e == [i \in digits |-> ((n \div Multiplier[i]) % 128) + SetBit(128, i + 1 \in digits)]
<1>1. k \in 1..4 /\ digits = 1..k
  <2>1. /\ k \in 1..4
        /\ k >= 2 <=> n >= 128
        /\ k >= 3 <=> n >= 16384
        /\ k >= 4 <=> n >= 2097152
    BY SMT DEF RemainingLengthSize
  <2>2. /\ n \div 128 > 0 <=> n >= 128
        /\ n \div 16384 > 0 <=> n >= 16384
        /\ n \div 2097152 > 0 <=> n >= 2097152
    BY SMT
  <2> HIDE DEF k
  <2>3. \A i \in 1..4 : (i = 1 \/ n \div Multiplier[i] > 0) <=> i <= k
    BY <2>1, <2>2, Multipliers, SMT
  <2> QED BY <2>1, <2>3, SMT
<1>2. \A i \in 1..4 : i + 1 \in digits <=> i < k
  BY <1>1
<1>3. \A i \in 1..k : e[i] = ((n \div Multiplier[i]) % 128) + SetBit(128, i < k)
  BY <1>1, <1>2, SMT DEF SetBit
<1>4. \A i \in 1..k : e[i] \in Byte
  <2> SUFFICES ASSUME NEW i \in 1..k PROVE e[i] \in Byte
    OBVIOUS
  <2>1. PICK m : m = n \div Multiplier[i]
    OBVIOUS
  <2>2. m \in Int
    <3>1. i \in {1, 2, 3, 4}
      BY <1>1
    <3> QED BY <2>1, <3>1, Multipliers, SMT
  <2>3. e[i] = (m % 128) + SetBit(128, i < k)
    BY <1>3, <2>1
  <2>4. PICK r \in 0..127 : r = m % 128
    BY <2>2
  <2>5. PICK b \in {0, 128} : b = SetBit(128, i < k)
    BY Zenon DEF SetBit
  <2>6. e[i] = r + b
    BY <2>3, <2>4, <2>5, Zenon
  <2> HIDE DEF e
  <2> QED BY <2>4, <2>5, <2>6 DEF Byte
<1>5. e \in [1..k -> Byte]
  BY <1>1, <1>4
<1>6. e \in Seq(Byte) /\ Len(e) = k
  <2> HIDE DEF e, k
  <2> QED BY <1>1, <1>5
<1>7. e = EncodeRemainingLength(n)
  BY DEF EncodeRemainingLength
<1> HIDE DEF e, k
<1> QED BY <1>1, <1>3, <1>6, <1>7 DEF k

\* The largest length, as an upper bound.
LEMMA LengthBound ==
    \A n \in 0..MaxRemainingLength : n \in Nat /\ n < 128 * 2097152
<1>1. MaxRemainingLength \in Nat /\ MaxRemainingLength + 1 = 128 * 2097152
  BY SMT DEF MaxRemainingLength
<1> QED BY <1>1, SMT

\* The four digits of a length add up to it.
LEMMA DigitSum ==
    ASSUME NEW n \in Nat, n < 128 * 2097152
    PROVE  n = (n % 128) + 128 * ((n \div 128) % 128)
                + 16384 * ((n \div 16384) % 128) + 2097152 * ((n \div 2097152) % 128)
<1>1. PICK a \in Int, b \in Int, c \in Int :
            a = n \div 128 /\ b = n \div 16384 /\ c = n \div 2097152
  BY SMT
<1>2. n = (n % 128) + 128 * a /\ n >= 0 /\ a >= 0
  BY <1>1, SMT
<1>3. b = a \div 128 /\ a = (a % 128) + 128 * b /\ b >= 0
  BY <1>1, <1>2, SMT
<1>4. c = b \div 128 /\ b = (b % 128) + 128 * c
  BY <1>1, <1>2, <1>3, SMT
<1>5. c \in 0..127
  <2>1. n >= 2097152 * c /\ c >= 0
    BY <1>2, <1>3, <1>4, SMT
  <2> QED BY <2>1, SMT
<1>6. c = c % 128
  BY <1>5, SMT
<1> QED BY <1>1, <1>2, <1>3, <1>4, <1>6, SMT

\* The first byte without a continuation bit, if the ones before it have one.
LEMMA LengthEndIs ==
    ASSUME NEW s \in Seq(Byte), NEW k \in 1..4, k <= Len(s),
           ~Bit(s[k], 128), \A i \in 1..(k - 1) : Bit(s[i], 128)
    PROVE  LengthEnd(s) = k
<1> DEFINE ends == {i \in 1..4 : i <= Len(s) /\ ~Bit(s[i], 128)}
<1>1. k \in ends /\ \A j \in ends : k <= j
  <2>1. k \in ends
    OBVIOUS
  <2>2. ASSUME NEW j \in ends PROVE k <= j
    <3>1. j \in 1..4 /\ ~Bit(s[j], 128)
      OBVIOUS
    <3>2. j \notin 1..(k - 1)
      BY <3>1
    <3> QED BY <3>1, <3>2
  <2> QED BY <2>1, <2>2
<1>2. \A i \in ends : (\A j \in ends : i <= j) => i = k
  <2>1. ends \subseteq Int
    OBVIOUS
  <2> HIDE DEF ends
  <2> QED BY <1>1, <2>1
<1>3. LengthEnd(s) = CHOOSE i \in ends : \A j \in ends : i <= j
  BY <1>1 DEF LengthEnd
<1> HIDE DEF ends
<1> QED BY <1>1, <1>2, <1>3

\* What LengthEnd finds.
LEMMA LengthEndFound ==
    ASSUME NEW s \in Seq(Byte)
    PROVE  LET k == LengthEnd(s)
           IN  \/ k = 0 /\ \A i \in 1..4 : i <= Len(s) => Bit(s[i], 128)
               \/ /\ k \in 1..4 /\ k <= Len(s)
                  /\ ~Bit(s[k], 128) /\ \A i \in 1..(k - 1) : Bit(s[i], 128)
<1> DEFINE ends == {i \in 1..4 : i <= Len(s) /\ ~Bit(s[i], 128)}
<1>1. CASE ends = {}
  BY <1>1 DEF LengthEnd
<1>2. CASE ends # {}
  <2>1. ends \in SUBSET Nat
    OBVIOUS
  <2>2. \E x \in ends : \A y \in ends : x <= y
    <3> HIDE DEF ends
    <3> QED BY <1>2, <2>1, LeastNumber
  <2>3. LengthEnd(s) = CHOOSE i \in ends : \A j \in ends : i <= j
    BY <1>2 DEF LengthEnd
  <2>4. LengthEnd(s) \in ends /\ \A j \in ends : LengthEnd(s) <= j
    <3> HIDE DEF ends
    <3> QED BY <2>2, <2>3
  <2>5. PICK k : k = LengthEnd(s)
    OBVIOUS
  <2>6. k \in 1..4 /\ k <= Len(s) /\ ~Bit(s[k], 128)
    BY <2>4, <2>5
  <2>7. ASSUME NEW i \in 1..(k - 1) PROVE Bit(s[i], 128)
    <3>1. i \in 1..4 /\ i <= Len(s) /\ i < k
      BY <2>6
    <3>2. i \notin ends
      BY <2>4, <2>5, <3>1
    <3> QED BY <3>1, <3>2
  <2> QED BY <2>5, <2>6, <2>7
<1> QED BY <1>1, <1>2

\* A length is read back from any bytes that begin with its encoding.
LEMMA LengthReadBack ==
    ASSUME NEW n \in 0..MaxRemainingLength, NEW s \in Seq(Byte),
           RemainingLengthSize(n) <= Len(s),
           \A i \in 1..RemainingLengthSize(n) : s[i] = EncodeRemainingLength(n)[i]
    PROVE  /\ LengthEnd(s) = RemainingLengthSize(n)
           /\ DecodeRemainingLength(s)
                  = [ok |-> TRUE, value |-> n, consumed |-> RemainingLengthSize(n)]
<1>1. PICK k : k = RemainingLengthSize(n)
  OBVIOUS
<1>2. /\ k \in 1..4
      /\ \A i \in 1..k : s[i] = ((n \div Multiplier[i]) % 128) + SetBit(128, i < k)
  BY <1>1, EncodedDigits
<1>3. n \in Nat /\ n < 128 * 2097152
  BY LengthBound
<1>4. \A i \in 1..4 : n \div Multiplier[i] \in Nat
  BY <1>3, Multipliers, SMT
<1>5. ASSUME NEW i \in 1..k
      PROVE  /\ i < k => Bit(s[i], 128)
             /\ i = k => ~Bit(s[i], 128)
             /\ s[i] % 128 = (n \div Multiplier[i]) % 128
  <2>1. PICK d : d = (n \div Multiplier[i]) % 128
    OBVIOUS
  <2>2. d \in 0..127
    <3>1. PICK m \in Nat : m = n \div Multiplier[i]
      BY <1>2, <1>4
    <3>2. d = m % 128
      BY <2>1, <3>1, Zenon
    <3> QED BY <3>2, SMT
  <2>3. s[i] = d + SetBit(128, i < k)
    BY <1>2, <2>1
  <2>4. (i < k => s[i] = d + 128) /\ (i = k => s[i] = d)
    BY <1>2, <2>2, <2>3, SMT DEF SetBit
  <2>5. /\ ~Bit(d, 128) /\ Bit(d + 128, 128)
        /\ d % 128 = d /\ (d + 128) % 128 = d
    BY <2>2, DigitBits
  <2>6. i < k \/ i = k
    BY <1>2
  <2> QED BY <2>1, <2>4, <2>5, <2>6
<1>6. LengthEnd(s) = k
  <2>1. ~Bit(s[k], 128) /\ \A i \in 1..(k - 1) : Bit(s[i], 128)
    BY <1>2, <1>5
  <2> QED BY <1>1, <1>2, <2>1, LengthEndIs
<1> DEFINE digit(i) == IF i <= k THEN (s[i] % 128) * Multiplier[i] ELSE 0
           part(i)  == ((n \div Multiplier[i]) % 128) * Multiplier[i]
<1>7. ASSUME NEW i \in 1..4 PROVE digit(i) = part(i)
  <2>1. CASE i <= k
    <3>1. i \in 1..k
      BY <1>2, <2>1
    <3>2. s[i] % 128 = (n \div Multiplier[i]) % 128
      BY <1>5, <3>1
    <3> QED BY <2>1, <3>2
  <2>2. CASE i > k
    <3>1. n \div Multiplier[i] = 0
      BY <1>1, <1>3, <2>2, Multipliers, SMT DEF RemainingLengthSize
    <3>2. part(i) = 0
      <4>1. Multiplier[i] \in Nat
        BY Multipliers, SMT
      <4> QED BY <3>1, <4>1, SMT
    <3> QED BY <1>2, <2>2, <3>2
  <2> QED BY <1>2, <2>1, <2>2
<1>8. digit(1) + digit(2) + digit(3) + digit(4) = n
  <2>1. digit(1) = part(1) /\ digit(2) = part(2) /\ digit(3) = part(3) /\ digit(4) = part(4)
    <3> HIDE DEF digit, part
    <3> QED BY <1>7
  <2>2. part(1) + part(2) + part(3) + part(4) = n
    <3>1. /\ part(1) = (n % 128) /\ part(2) = 128 * ((n \div 128) % 128)
          /\ part(3) = 16384 * ((n \div 16384) % 128)
          /\ part(4) = 2097152 * ((n \div 2097152) % 128)
      BY <1>3, Multipliers, SMT
    <3> HIDE DEF part
    <3> QED BY <1>3, <3>1, DigitSum
  <2> HIDE DEF digit, part
  <2> QED BY <2>1, <2>2
<1>9. DecodeRemainingLength(s)
        = [ok |-> k > 0, value |-> digit(1) + digit(2) + digit(3) + digit(4), consumed |-> k]
  BY <1>6 DEF DecodeRemainingLength
<1>10. k > 0
  BY <1>2
<1> HIDE DEF digit
<1> QED BY <1>1, <1>6, <1>8, <1>9, <1>10
----------------------------------------------------------------------------
(***************************************************************************)
(* Bytes one after the other.                                              *)
(***************************************************************************)
Bytes == Seq(Byte)

\* The elements of a concatenation.
LEMMA Cat ==
    ASSUME NEW s \in Bytes, NEW t \in Bytes
    PROVE  /\ s \o t \in Bytes /\ Len(s \o t) = Len(s) + Len(t)
           /\ Len(s) \in Nat /\ Len(t) \in Nat
           /\ \A i \in 1..Len(s) : (s \o t)[i] = s[i]
           /\ \A i \in 1..Len(t) : (s \o t)[Len(s) + i] = t[i]
  BY DEF Bytes

\* Sequences of bytes are equal when their bytes are.
LEMMA SameBytes ==
    ASSUME NEW s \in Bytes, NEW t \in Bytes, Len(s) = Len(t), \A i \in 1..Len(s) : s[i] = t[i]
    PROVE  s = t
  BY SeqEqual, Zenon DEF Bytes

\* A part of some bytes.
LEMMA Part ==
    ASSUME NEW s \in Bytes, NEW m \in Nat, NEW n \in Nat, m >= 1, m <= n + 1, n <= Len(s)
    PROVE  /\ SubSeq(s, m, n) \in Bytes /\ Len(SubSeq(s, m, n)) = n - m + 1
           /\ \A i \in 1..(n - m + 1) : SubSeq(s, m, n)[i] = s[m + i - 1]
<1>1. \A i \in m..n : s[i] \in Byte
  BY DEF Bytes
<1>2. /\ SubSeq(s, m, n) \in Seq(Byte)
      /\ Len(SubSeq(s, m, n)) = IF m <= n THEN n - m + 1 ELSE 0
      /\ \A i \in 1..(n - m + 1) : SubSeq(s, m, n)[i] = s[m + i - 1]
  BY <1>1, SubSeqProperties
<1> QED BY <1>2 DEF Bytes

\* The order of concatenation does not matter.
LEMMA Assoc ==
    ASSUME NEW s \in Bytes, NEW t \in Bytes, NEW u \in Bytes
    PROVE  (s \o t) \o u = s \o (t \o u)
  BY ConcatAssociative DEF Bytes

\* The same, as a fact about three given sequences.
Nested(s, t, u) == (s \o t) \o u = s \o (t \o u)

\* It holds of any three.
LEMMA NestedAll == \A s, t, u \in Bytes : Nested(s, t, u)
  BY Assoc DEF Nested

\* The part in the middle of three.
LEMMA Middle ==
    ASSUME NEW h \in Bytes, NEW s \in Bytes, NEW t \in Bytes
    PROVE  SubSeq(h \o (s \o t), Len(h) + 1, Len(h) + Len(s)) = s
<1>1. PICK u : u = s \o t
  OBVIOUS
<1>2. PICK w : w = h \o u
  OBVIOUS
<1>3. /\ u \in Bytes /\ Len(u) = Len(s) + Len(t) /\ Len(s) \in Nat /\ Len(t) \in Nat
      /\ \A i \in 1..Len(s) : u[i] = s[i]
  BY <1>1, Cat
<1>4. /\ w \in Bytes /\ Len(w) = Len(h) + Len(u) /\ Len(h) \in Nat
      /\ \A i \in 1..Len(u) : w[Len(h) + i] = u[i]
  BY <1>2, <1>3, Cat
<1>5. PICK v : v = SubSeq(w, Len(h) + 1, Len(h) + Len(s))
  OBVIOUS
<1>6. /\ v \in Bytes /\ Len(v) = Len(s)
      /\ \A i \in 1..Len(s) : v[i] = w[Len(h) + i]
  <2>1. PICK m \in Nat, n \in Nat : m = Len(h) + 1 /\ n = Len(h) + Len(s)
    BY <1>3, <1>4
  <2>2. m >= 1 /\ m <= n + 1 /\ n <= Len(w) /\ n - m + 1 = Len(s)
    BY <1>3, <1>4, <2>1
  <2>3. /\ v \in Bytes /\ Len(v) = n - m + 1
        /\ \A i \in 1..(n - m + 1) : v[i] = w[m + i - 1]
    BY <1>4, <1>5, <2>1, <2>2, Part
  <2>4. \A i \in 1..Len(s) : m + i - 1 = Len(h) + i
    BY <1>3, <1>4, <2>1
  <2> QED BY <2>2, <2>3, <2>4
<1>7. \A i \in 1..Len(s) : v[i] = s[i]
  <2>1. \A i \in 1..Len(s) : i \in 1..Len(u)
    BY <1>3
  <2> QED BY <1>3, <1>4, <1>6, <2>1
<1> QED BY <1>1, <1>2, <1>5, <1>6, <1>7, SameBytes

\* Nothing at the beginning or at the end.
LEMMA CatEmpty ==
    ASSUME NEW s \in Bytes
    PROVE  s \o <<>> = s /\ <<>> \o s = s /\ <<>> \in Bytes /\ Len(<<>>) = 0
  BY ConcatEmptySeq, EmptySeq DEF Bytes

\* What comes first, and what is left after it.
LEMMA FirstAndRest ==
    ASSUME NEW s \in Bytes, NEW t \in Bytes
    PROVE  /\ SubSeq(s \o t, 1, Len(s)) = s
           /\ From(s \o t, Len(s) + 1) = t
<1>1. SubSeq(s \o t, 1, Len(s)) = s
  <2>1. SubSeq(<<>> \o (s \o t), Len(<<>>) + 1, Len(<<>>) + Len(s)) = s
    BY CatEmpty, Middle
  <2>2. <<>> \o (s \o t) = s \o t /\ Len(<<>>) + 1 = 1 /\ Len(<<>>) + Len(s) = Len(s)
    BY CatEmpty, Cat
  <2> QED BY <2>1, <2>2
<1>2. From(s \o t, Len(s) + 1) = t
  <2>1. SubSeq(s \o (t \o <<>>), Len(s) + 1, Len(s) + Len(t)) = t
    BY CatEmpty, Middle
  <2>2. t \o <<>> = t /\ Len(s \o t) = Len(s) + Len(t)
    BY CatEmpty, Cat
  <2> QED BY <2>1, <2>2 DEF From
<1> QED BY <1>1, <1>2

\* Bytes are what comes first and what is left after it.
LEMMA Split ==
    ASSUME NEW s \in Bytes, NEW k \in Nat, k <= Len(s)
    PROVE  /\ s = SubSeq(s, 1, k) \o From(s, k + 1)
           /\ SubSeq(s, 1, k) \in Bytes /\ Len(SubSeq(s, 1, k)) = k
           /\ From(s, k + 1) \in Bytes /\ Len(From(s, k + 1)) = Len(s) - k
<1>0. Len(s) \in Nat
  BY DEF Bytes
<1>1. PICK a, b : a = SubSeq(s, 1, k) /\ b = From(s, k + 1)
  OBVIOUS
<1>2. a \in Bytes /\ Len(a) = k /\ \A i \in 1..k : a[i] = s[i]
  <2>1. /\ a \in Bytes /\ Len(a) = k - 1 + 1
        /\ \A i \in 1..(k - 1 + 1) : a[i] = s[1 + i - 1]
    BY <1>0, <1>1, Part
  <2> QED BY <2>1
<1>3. b \in Bytes /\ Len(b) = Len(s) - k /\ \A i \in 1..(Len(s) - k) : b[i] = s[k + i]
  <2>1. PICK m \in Nat : m = k + 1
    OBVIOUS
  <2>2. /\ b \in Bytes /\ Len(b) = Len(s) - m + 1
        /\ \A i \in 1..(Len(s) - m + 1) : b[i] = s[m + i - 1]
    BY <1>0, <1>1, <2>1, Part DEF From
  <2>3. Len(s) - m + 1 = Len(s) - k /\ \A i \in 1..(Len(s) - k) : m + i - 1 = k + i
    BY <1>0, <2>1
  <2> QED BY <2>2, <2>3
<1>4. PICK c : c = a \o b
  OBVIOUS
<1>5. /\ c \in Bytes /\ Len(c) = Len(s)
      /\ \A i \in 1..k : c[i] = a[i]
      /\ \A i \in 1..(Len(s) - k) : c[k + i] = b[i]
  <2>1. /\ c \in Bytes /\ Len(c) = Len(a) + Len(b)
        /\ \A i \in 1..Len(a) : c[i] = a[i]
        /\ \A i \in 1..Len(b) : c[Len(a) + i] = b[i]
    BY <1>2, <1>3, <1>4, Cat
  <2>2. Len(a) = k /\ Len(b) = Len(s) - k /\ Len(a) + Len(b) = Len(s)
    BY <1>0, <1>2, <1>3
  <2> QED BY <2>1, <2>2
<1>6. ASSUME NEW i \in 1..Len(s) PROVE c[i] = s[i]
  <2>1. CASE i <= k
    BY <1>2, <1>5, <2>1
  <2>2. CASE i > k
    <3>1. PICK j \in 1..(Len(s) - k) : i = k + j
      <4>1. i - k \in 1..(Len(s) - k) /\ i = k + (i - k)
        BY <1>0, <2>2
      <4> QED BY <4>1
    <3> QED BY <1>3, <1>5, <3>1
  <2> QED BY <2>1, <2>2
<1>7. c = s
  BY <1>5, <1>6, SameBytes
<1> QED BY <1>1, <1>2, <1>3, <1>4, <1>7
----------------------------------------------------------------------------
(***************************************************************************)
(* Fields, there and back.                                                 *)
(***************************************************************************)
\* Two bytes hold a word.
LEMMA TwoBytes ==
    ASSUME NEW n \in Word
    PROVE  /\ (n \div 256) % 256 \in Byte /\ n % 256 \in Byte
           /\ 256 * ((n \div 256) % 256) + (n % 256) = n
<1>0. n \in Nat /\ n < 65536
  BY SMT DEF Word
<1>1. PICK a \in Int : a = n \div 256
  BY <1>0, SMT
<1>2. n = 256 * a + (n % 256) /\ n % 256 \in 0..255 /\ a >= 0 /\ a < 256
  BY <1>0, <1>1, SMT
<1>3. a % 256 = a
  BY <1>2, SMT
<1> QED BY <1>1, <1>2, <1>3, SMT DEF Byte

\* A word is what two bytes hold.
LEMMA WordOfBytes ==
    ASSUME NEW a \in Byte, NEW b \in Byte
    PROVE  /\ 256 * a + b \in Word
           /\ ((256 * a + b) \div 256) % 256 = a /\ (256 * a + b) % 256 = b
<1>1. PICK n \in Int : n = 256 * a + b
  BY SMT DEF Byte
<1>2. n \in Nat /\ n < 65536 /\ n \div 256 = a /\ n % 256 = b /\ a % 256 = a
  BY <1>1, SMT DEF Byte
<1>3. n \in Word
  BY <1>2, SMT DEF Word
<1> QED BY <1>1, <1>2, <1>3, SMT

\* A word on the wire.
LEMMA Uint16Type ==
    ASSUME NEW n \in Word
    PROVE  /\ Uint16(n) \in Bytes /\ Len(Uint16(n)) = 2
           /\ 256 * Uint16(n)[1] + Uint16(n)[2] = n
<1>1. PICK a \in Byte, b \in Byte : a = (n \div 256) % 256 /\ b = n % 256 /\ 256 * a + b = n
  BY TwoBytes
<1>2. Uint16(n) = <<a, b>>
  BY <1>1, SMT DEF Uint16
<1>3. <<a, b>> \in Seq(Byte) /\ Len(<<a, b>>) = 2 /\ <<a, b>>[1] = a /\ <<a, b>>[2] = b
  OBVIOUS
<1> QED BY <1>1, <1>2, <1>3 DEF Bytes

\* uint16Value reads what appendUint16 wrote.
LEMMA Uint16Back ==
    ASSUME NEW n \in Word, NEW t \in Bytes
    PROVE  Uint16Value(Uint16(n) \o t) = Read(n, t)
<1>0. PICK u : u = Uint16(n)
  OBVIOUS
<1>1. PICK w : w = u \o t
  OBVIOUS
<1>2. u \in Bytes /\ Len(u) = 2 /\ 256 * u[1] + u[2] = n
  BY <1>0, Uint16Type
<1>3. /\ w \in Bytes /\ Len(w) = 2 + Len(t) /\ Len(t) \in Nat
      /\ \A i \in 1..Len(u) : w[i] = u[i]
  <2>1. /\ w \in Bytes /\ Len(w) = Len(u) + Len(t) /\ Len(t) \in Nat
        /\ \A i \in 1..Len(u) : w[i] = u[i]
    BY <1>1, <1>2, Cat
  <2> QED BY <1>2, <2>1
<1>4. w[1] = u[1] /\ w[2] = u[2] /\ ~(Len(w) < 2)
  BY <1>2, <1>3
<1>5. From(w, 3) = t
  <2>1. From(w, Len(u) + 1) = t
    BY <1>1, <1>2, FirstAndRest
  <2>2. Len(u) + 1 = 3
    BY <1>2
  <2> QED BY <2>1, <2>2
<1> QED BY <1>0, <1>1, <1>2, <1>4, <1>5 DEF Uint16Value

\* What uint16Value reads was written by appendUint16.
LEMMA Uint16Forth ==
    ASSUME NEW s \in Bytes, Uint16Value(s).ok
    PROVE  LET r == Uint16Value(s)
           IN  /\ r.val \in Word /\ r.rest \in Bytes
               /\ s = Uint16(r.val) \o r.rest /\ Len(s) = 2 + Len(r.rest)
<1>1. Len(s) \in Nat /\ \A i \in 1..Len(s) : s[i] \in Byte
  BY DEF Bytes
<1>2. Len(s) >= 2
  BY <1>1 DEF Uint16Value, Short
<1>3. Uint16Value(s) = Read(256 * s[1] + s[2], From(s, 3))
  BY <1>1, <1>2 DEF Uint16Value
<1>4. PICK n, t : n = 256 * s[1] + s[2] /\ t = From(s, 3)
  OBVIOUS
<1>5. s[1] \in Byte /\ s[2] \in Byte
  BY <1>1, <1>2
<1>6. n \in Word /\ (n \div 256) % 256 = s[1] /\ n % 256 = s[2]
  BY <1>4, <1>5, WordOfBytes
<1>7. PICK h : h = SubSeq(s, 1, 2)
  OBVIOUS
<1>8. s = h \o t /\ h \in Bytes /\ Len(h) = 2 /\ t \in Bytes /\ Len(t) = Len(s) - 2
  <2>1. PICK k \in Nat : k = 2
    OBVIOUS
  <2>2. /\ s = SubSeq(s, 1, k) \o From(s, k + 1) /\ SubSeq(s, 1, k) \in Bytes
        /\ Len(SubSeq(s, 1, k)) = k
        /\ From(s, k + 1) \in Bytes /\ Len(From(s, k + 1)) = Len(s) - k
    BY <1>2, <2>1, Split
  <2>3. k + 1 = 3
    BY <2>1
  <2> QED BY <1>4, <1>7, <2>1, <2>2, <2>3
<1>9. h = Uint16(n)
  <2>1. PICK u : u = Uint16(n)
    OBVIOUS
  <2>2. u = <<s[1], s[2]>>
    BY <1>6, <2>1, SMT DEF Uint16
  <2>3. u \in Bytes /\ Len(u) = 2 /\ u[1] = s[1] /\ u[2] = s[2]
    BY <1>5, <2>2 DEF Bytes
  <2>4. h[1] = s[1] /\ h[2] = s[2]
    <3>1. \A i \in 1..Len(h) : (h \o t)[i] = h[i]
      BY <1>8, Cat
    <3> QED BY <1>8, <3>1
  <2>5. \A i \in 1..Len(h) : h[i] = u[i]
    BY <1>8, <2>3, <2>4
  <2> QED BY <1>8, <2>1, <2>3, <2>5, SameBytes
<1>10. Uint16Value(s).val = n /\ Uint16Value(s).rest = t
  BY <1>3, <1>4 DEF Read
<1>11. Len(s) = 2 + Len(t)
  BY <1>1, <1>8
<1> QED BY <1>6, <1>8, <1>9, <1>10, <1>11, ZenonT(60)

\* byteValue reads what append wrote.
LEMMA ByteBack ==
    ASSUME NEW b \in Byte, NEW t \in Bytes
    PROVE  /\ ByteValue(<<b>> \o t) = Read(b, t)
           /\ <<b>> \in Bytes /\ Len(<<b>>) = 1
<1>1. <<b>> \in Seq(Byte) /\ Len(<<b>>) = 1 /\ <<b>>[1] = b
  OBVIOUS
<1>2. PICK w : w = <<b>> \o t
  OBVIOUS
<1>3. /\ w \in Bytes /\ Len(w) = 1 + Len(t) /\ Len(t) \in Nat /\ w[1] = b
  BY <1>1, <1>2, Cat DEF Bytes
<1>4. w # <<>> /\ Head(w) = b
  BY <1>3 DEF Bytes
<1>5. Tail(w) = t
  <2>1. Tail(w) = SubSeq(w, 2, Len(w))
    BY <1>3, <1>4, TailIsSubSeq DEF Bytes
  <2>2. From(w, Len(<<b>>) + 1) = t
    BY <1>1, <1>2, FirstAndRest DEF Bytes
  <2>3. Len(<<b>>) + 1 = 2
    BY <1>1
  <2> QED BY <2>1, <2>2, <2>3 DEF From
<1> QED BY <1>1, <1>2, <1>4, <1>5 DEF ByteValue, Bytes

\* What byteValue reads was written by append.
LEMMA ByteForth ==
    ASSUME NEW s \in Bytes, ByteValue(s).ok
    PROVE  LET r == ByteValue(s)
           IN  /\ r.val \in Byte /\ r.rest \in Bytes
               /\ s = <<r.val>> \o r.rest /\ Len(s) = 1 + Len(r.rest)
<1>1. s # <<>>
  BY DEF ByteValue, Short
<1>2. ByteValue(s).val = Head(s) /\ ByteValue(s).rest = Tail(s)
  BY <1>1 DEF ByteValue, Read
<1>3. /\ Head(s) \in Byte /\ Tail(s) \in Bytes /\ Len(Tail(s)) = Len(s) - 1
      /\ Len(s) \in Nat /\ Head(s) = s[1]
      /\ \A i \in 1..Len(Tail(s)) : Tail(s)[i] = s[i + 1]
  BY <1>1 DEF Bytes
<1>4. PICK b \in Byte, t \in Bytes : b = Head(s) /\ t = Tail(s)
  BY <1>3
<1>5. PICK w : w = <<b>> \o t
  OBVIOUS
<1>6. w \in Bytes /\ Len(w) = Len(s) /\ w[1] = b /\ \A i \in 1..Len(t) : w[1 + i] = t[i]
  <2>1. <<b>> \in Bytes /\ Len(<<b>>) = 1 /\ <<b>>[1] = b
    BY DEF Bytes
  <2>2. PICK h \in Bytes : h = <<b>> /\ Len(h) = 1 /\ h[1] = b
    BY <2>1
  <2>3. /\ w \in Bytes /\ Len(w) = Len(h) + Len(t)
        /\ \A i \in 1..Len(h) : w[i] = h[i]
        /\ \A i \in 1..Len(t) : w[Len(h) + i] = t[i]
    <3>1. w = h \o t
      BY <1>5, <2>2
    <3> QED BY <3>1, Cat
  <2> QED BY <1>3, <1>4, <2>1, <2>2, <2>3
<1>7. ASSUME NEW i \in 1..Len(s) PROVE w[i] = s[i]
  <2>1. CASE i = 1
    BY <1>3, <1>4, <1>6, <2>1
  <2>2. CASE i # 1
    <3>1. PICK j \in 1..Len(t) : i = 1 + j /\ i = j + 1
      <4>1. i - 1 \in 1..Len(t) /\ i = 1 + (i - 1) /\ i = (i - 1) + 1
        BY <1>3, <1>4, <2>2
      <4> QED BY <4>1
    <3> QED BY <1>3, <1>4, <1>6, <3>1
  <2> QED BY <2>1, <2>2
<1>8. w = s
  BY <1>6, <1>7, SameBytes
<1>9. Len(s) = 1 + Len(t)
  BY <1>3, <1>4
<1> QED BY <1>2, <1>4, <1>5, <1>8, <1>9

\* A blob on the wire.
LEMMA AppendType ==
    ASSUME NEW s \in Blob
    PROVE  /\ s \in Bytes /\ Len(s) \in Word /\ AppendString(s) \in Bytes
           /\ Len(AppendString(s)) = StringSize(s) /\ StringSize(s) \in Nat
<1>1. s \in Bytes /\ Len(s) \in Word
  BY Zenon DEF Blob, Bytes
<1>2. PICK u : u = Uint16(Len(s))
  OBVIOUS
<1>3. u \in Bytes /\ Len(u) = 2
  BY <1>1, <1>2, Uint16Type
<1>4. u \o s \in Bytes /\ Len(u \o s) = Len(u) + Len(s) /\ Len(s) \in Nat
  BY <1>1, <1>3, Cat
<1>5. AppendString(s) = u \o s
  BY <1>2 DEF AppendString
<1>6. Len(u) + Len(s) = StringSize(s) /\ StringSize(s) \in Nat
  BY <1>3, <1>4 DEF StringSize
<1> QED BY <1>1, <1>4, <1>5, <1>6

\* bytesValue reads what appendBytes and appendString wrote.
LEMMA BytesBack ==
    ASSUME NEW s \in Blob, NEW t \in Bytes
    PROVE  BytesValue(AppendString(s) \o t) = Read(s, t)
<1>1. s \in Bytes /\ Len(s) \in Word
  BY AppendType
<1>2. PICK n \in Word : n = Len(s)
  BY <1>1
<1>3. PICK u \in Bytes : u = Uint16(n)
  BY Uint16Type
<1>4. PICK r \in Bytes : r = s \o t
  BY <1>1, Cat
<1>5. PICK w : w = AppendString(s) \o t
  OBVIOUS
<1>6. w = u \o r
  BY <1>1, <1>2, <1>3, <1>4, <1>5, Assoc DEF AppendString
<1>7. Uint16Value(w) = Read(n, r)
  BY <1>3, <1>6, Uint16Back
<1>8. Len(r) = n + Len(t) /\ Len(t) \in Nat /\ n \in Nat
  BY <1>1, <1>2, <1>4, Cat
<1>9. SubSeq(r, 1, n) = s /\ From(r, n + 1) = t
  BY <1>1, <1>2, <1>4, FirstAndRest
<1>10. PICK v : v = Uint16Value(w)
  OBVIOUS
<1>11. v.ok = TRUE /\ v.val = n /\ v.rest = r
  BY <1>7, <1>10 DEF Read
<1>12. ~(Len(r) < n)
  BY <1>8
<1>13. BytesValue(w) = Read(s, t)
  BY <1>9, <1>10, <1>11, <1>12 DEF BytesValue
<1> QED BY <1>5, <1>13

\* What bytesValue reads was written by appendBytes.
LEMMA BytesForth ==
    ASSUME NEW s \in Bytes, BytesValue(s).ok
    PROVE  LET r == BytesValue(s)
           IN  /\ r.val \in Blob /\ r.rest \in Bytes
               /\ s = AppendString(r.val) \o r.rest
               /\ Len(s) = StringSize(r.val) + Len(r.rest)
<1>1. PICK n : n = Uint16Value(s)
  OBVIOUS
<1>2. n.ok /\ ~(Len(n.rest) < n.val)
  BY <1>1 DEF BytesValue, Short
<1>3. BytesValue(s) = Read(SubSeq(n.rest, 1, n.val), From(n.rest, n.val + 1))
  BY <1>1, <1>2 DEF BytesValue
<1>4. PICK k \in Word, u \in Bytes : k = n.val /\ u = n.rest /\ s = Uint16(k) \o u
  BY <1>1, <1>2, Uint16Forth
<1>5. k \in Nat /\ Len(u) \in Nat /\ k <= Len(u)
  <2>1. k \in Nat
    BY SMT DEF Word
  <2>2. Len(u) \in Nat
    BY DEF Bytes
  <2> QED BY <1>2, <1>4, <2>1, <2>2
<1>6. PICK v, t : v = SubSeq(u, 1, k) /\ t = From(u, k + 1)
  OBVIOUS
<1>7. u = v \o t /\ v \in Bytes /\ Len(v) = k /\ t \in Bytes
  BY <1>5, <1>6, Split
<1>8. v \in Blob
  BY <1>7, Zenon DEF Blob, Bytes
<1>9. s = AppendString(v) \o t
  <2>1. Uint16(k) \in Bytes
    BY Uint16Type
  <2>2. (Uint16(k) \o v) \o t = Uint16(k) \o (v \o t)
    BY <1>7, <2>1, Assoc, SMTT(60)
  <2> QED BY <1>4, <1>7, <2>2 DEF AppendString
<1>10. BytesValue(s).val = v /\ BytesValue(s).rest = t
  <2>1. BytesValue(s) = Read(v, t)
    BY <1>3, <1>4, <1>6
  <2> QED BY <2>1 DEF Read
<1>11. Len(s) = StringSize(v) + Len(t)
  <2>1. PICK a \in Bytes : a = AppendString(v) /\ Len(a) = StringSize(v)
    BY <1>8, AppendType
  <2>2. s = a \o t
    BY <1>9, <2>1
  <2>3. Len(a \o t) = Len(a) + Len(t)
    BY <1>7, Cat
  <2> QED BY <2>1, <2>2, <2>3
<1> QED BY <1>7, <1>8, <1>9, <1>10, <1>11

\* stringValue reads what appendString wrote.
LEMMA StringBack ==
    ASSUME NEW s \in Text, NEW t \in Bytes
    PROVE  s \in Blob /\ StringValue(AppendString(s) \o t) = Read(s, t)
<1>1. s \in Blob /\ ValidUTF8(s)
  BY Zenon DEF Text
<1>2. PICK w : w = AppendString(s) \o t
  OBVIOUS
<1>3. PICK b : b = BytesValue(w)
  OBVIOUS
<1>4. b = Read(s, t)
  BY <1>1, <1>2, <1>3, BytesBack
<1>5. b.ok = TRUE /\ b.val = s
  BY <1>4 DEF Read
<1>6. StringValue(w) = b
  BY <1>1, <1>3, <1>5 DEF StringValue
<1> QED BY <1>1, <1>2, <1>4, <1>6

\* What stringValue reads was written by appendString.
LEMMA StringForth ==
    ASSUME NEW s \in Bytes, StringValue(s).ok
    PROVE  LET r == StringValue(s)
           IN  /\ r.val \in Text /\ r.rest \in Bytes
               /\ s = AppendString(r.val) \o r.rest
               /\ Len(s) = StringSize(r.val) + Len(r.rest)
<1>1. PICK b : b = BytesValue(s)
  OBVIOUS
<1>2. b.ok /\ ValidUTF8(b.val) /\ StringValue(s) = b
  BY <1>1 DEF StringValue, Short
<1>3. /\ b.val \in Blob /\ b.rest \in Bytes
      /\ s = AppendString(b.val) \o b.rest
      /\ Len(s) = StringSize(b.val) + Len(b.rest)
  BY <1>1, <1>2, BytesForth
<1>4. b.val \in Text
  BY <1>2, <1>3, Zenon DEF Text
<1> QED BY <1>2, <1>3, <1>4
----------------------------------------------------------------------------
(***************************************************************************)
(* The fixed header, and packets in a buffer and on a stream.              *)
(***************************************************************************)
PacketTypes == {Types[i] : i \in 1..14}

\* The packet types, one by one.
LEMMA TypesAre ==
    /\ DOMAIN Types = 1..14
    /\ Types[1] = "CONNECT" /\ Types[2] = "CONNACK" /\ Types[3] = "PUBLISH"
    /\ Types[4] = "PUBACK" /\ Types[5] = "PUBREC" /\ Types[6] = "PUBREL"
    /\ Types[7] = "PUBCOMP" /\ Types[8] = "SUBSCRIBE" /\ Types[9] = "SUBACK"
    /\ Types[10] = "UNSUBSCRIBE" /\ Types[11] = "UNSUBACK" /\ Types[12] = "PINGREQ"
    /\ Types[13] = "PINGRESP" /\ Types[14] = "DISCONNECT"
  BY DEF Types

\* No two types have the same number.
LEMMA TypesDiffer ==
    \A i, j \in 1..14 : Types[i] = Types[j] => i = j
<1> SUFFICES ASSUME NEW i \in 1..14, NEW j \in 1..14, Types[i] = Types[j] PROVE i = j
  OBVIOUS
<1> QED BY TypesAre

\* The nibble of a type is its number.
LEMMA NibbleIs ==
    /\ \A n \in 1..14 : Nibble(Types[n]) = n
    /\ \A t \in PacketTypes : Nibble(t) \in 1..14 /\ Types[Nibble(t)] = t
<1>1. ASSUME NEW n \in 1..14 PROVE Nibble(Types[n]) = n
  <2>1. Nibble(Types[n]) = CHOOSE m \in 1..14 : Types[m] = Types[n]
    BY TypesAre DEF Nibble
  <2> QED BY <2>1, TypesDiffer
<1> QED BY <1>1 DEF PacketTypes

\* The first byte of a packet.
LEMMA HeaderByte ==
    ASSUME NEW t \in PacketTypes, NEW flags \in 0..15, ValidateFlags(t, flags)
    PROVE  LET h == 16 * Nibble(t) + flags
           IN  /\ h \in Byte /\ h \div 16 = Nibble(t) /\ h % 16 = flags
               /\ Types[h \div 16] = t /\ HeaderOK(h)
<1>1. PICK n \in 1..14 : n = Nibble(t) /\ Types[n] = t
  BY NibbleIs
<1>2. PICK h : h = 16 * n + flags
  OBVIOUS
<1>3. h \in Byte /\ h \div 16 = n /\ h % 16 = flags
  BY <1>2, SMT DEF Byte
<1>4. HeaderOK(h)
  BY <1>1, <1>3, TypesAre DEF HeaderOK
<1> QED BY <1>1, <1>2, <1>3, <1>4

\* A buffer or a stream: a header byte, a length of k bytes that says n, n bytes
\* and a rest.
Framed(buf, h, k, n, body, rest) ==
    /\ buf \in Bytes /\ Len(buf) >= 2 /\ buf[1] = h
    /\ k \in 1..4 /\ LengthEnd(Tail(buf)) = k
    /\ DecodeRemainingLength(Tail(buf)) = [ok |-> TRUE, value |-> n, consumed |-> k]
    /\ DecodeRemainingLength(SubSeq(buf, 2, 1 + k)).value = n
    /\ n \in Nat /\ Len(buf) >= 1 + k + n
    /\ body = SubSeq(buf, 2 + k, 1 + k + n)
    /\ rest = From(buf, 2 + k + n)

\* What Decode and ReadPacket make of it.
LEMMA FramedRead ==
    ASSUME NEW buf, NEW h, NEW k, NEW n, NEW body, NEW rest,
           Framed(buf, h, k, n, body, rest), HeaderOK(h)
    PROVE  /\ Decode(buf) = DecodeBody(Types[h \div 16], h % 16, body)
           /\ n <= MaxPacketSize
                => ReadFrom(buf) = Read(DecodeBody(Types[h \div 16], h % 16, body), rest)
<1>1. /\ buf \in Bytes /\ Len(buf) >= 2 /\ buf[1] = h /\ Len(buf) \in Nat
      /\ k \in 1..4 /\ LengthEnd(Tail(buf)) = k
      /\ DecodeRemainingLength(SubSeq(buf, 2, 1 + k)).value = n
      /\ n \in Nat /\ Len(buf) >= 1 + k + n
      /\ body = SubSeq(buf, 2 + k, 1 + k + n)
      /\ rest = From(buf, 2 + k + n)
  BY DEF Framed, Bytes
<1>2. PICK d : d = DecodeRemainingLength(Tail(buf))
  OBVIOUS
<1>3. d.ok = TRUE /\ d.value = n /\ d.consumed = k
  BY <1>2 DEF Framed
<1>4. Decode(buf) = DecodeBody(Types[h \div 16], h % 16, body)
  <2>1. (1 + k) + 1 = 2 + k /\ ~(Len(buf) < 2) /\ ~(Len(buf) < (1 + k) + n)
    BY <1>1
  <2> QED BY <1>1, <1>2, <1>3, <2>1 DEF Decode
<1>5. ASSUME n <= MaxPacketSize
      PROVE  ReadFrom(buf) = Read(DecodeBody(Types[h \div 16], h % 16, body), rest)
  <2>1. /\ buf # <<>> /\ k # 0 /\ ~(n > MaxPacketSize) /\ ~(Len(buf) < 1 + k + n)
        /\ (1 + k + n) + 1 = 2 + k + n
    BY <1>1, <1>5, CodecAssumption DEF CodecAssumption
  <2> QED BY <1>1, <2>1 DEF ReadFrom
<1> QED BY <1>4, <1>5

\* An encoded packet, its length first.
LEMMA EncodedType ==
    ASSUME NEW t \in PacketTypes, NEW flags \in 0..15, ValidateFlags(t, flags),
           NEW body \in Bytes, Len(body) <= MaxRemainingLength
    PROVE  LET e == Encoded(t, flags, Len(body), body)
           IN  /\ e \in Bytes
               /\ Len(e) = 1 + RemainingLengthSize(Len(body)) + Len(body)
<1>1. Len(body) \in 0..MaxRemainingLength
  <2>1. Len(body) \in Nat
    BY DEF Bytes
  <2>2. MaxRemainingLength \in Nat
    BY SMT DEF MaxRemainingLength
  <2> QED BY <2>1, <2>2, SMT
<1>2. PICK h \in Byte : h = 16 * Nibble(t) + flags
  BY HeaderByte
<1>3. PICK a \in Bytes : a = <<h>> /\ Len(a) = 1
  <2>1. <<h>> \in Bytes /\ Len(<<h>>) = 1
    BY DEF Bytes
  <2> QED BY <2>1
<1>4. PICK l \in Bytes : /\ l = EncodeRemainingLength(Len(body))
                         /\ Len(l) = RemainingLengthSize(Len(body))
  BY <1>1, EncodedDigits DEF Bytes
<1>5. Encoded(t, flags, Len(body), body) = (a \o l) \o body
  BY <1>2, <1>3, <1>4 DEF Encoded
<1>6. a \o l \in Bytes /\ Len(a \o l) = Len(a) + Len(l)
  BY Cat
<1>7. PICK b \in Bytes : b = a \o l /\ Len(b) = 1 + RemainingLengthSize(Len(body))
  BY <1>3, <1>4, <1>6
<1>8. b \o body \in Bytes /\ Len(b \o body) = Len(b) + Len(body)
  BY Cat
<1> QED BY <1>5, <1>7, <1>8

\* An encoded packet, with more after it, is framed.
LEMMA EncodedFramed ==
    ASSUME NEW t \in PacketTypes, NEW flags \in 0..15, ValidateFlags(t, flags),
           NEW body \in Bytes, Len(body) <= MaxRemainingLength, NEW rest \in Bytes
    PROVE  Framed(Encoded(t, flags, Len(body), body) \o rest, 16 * Nibble(t) + flags,
                  RemainingLengthSize(Len(body)), Len(body), body, rest)
<1>1. PICK n \in Nat : n = Len(body) /\ n \in 0..MaxRemainingLength
  <2>1. Len(body) \in Nat
    BY DEF Bytes
  <2>2. MaxRemainingLength \in Nat
    BY SMT DEF MaxRemainingLength
  <2>3. Len(body) \in 0..MaxRemainingLength
    BY <2>1, <2>2, SMT
  <2> QED BY <2>1, <2>3
<1>2. PICK h \in Byte : h = 16 * Nibble(t) + flags
  BY HeaderByte
<1>3. PICK a \in Bytes : a = <<h>> /\ Len(a) = 1 /\ a[1] = h
  <2>1. <<h>> \in Bytes /\ Len(<<h>>) = 1 /\ <<h>>[1] = h
    BY DEF Bytes
  <2> QED BY <2>1
<1>4. PICK k \in 1..4 : k = RemainingLengthSize(n)
  BY <1>1, EncodedDigits
<1>5. PICK l \in Bytes : l = EncodeRemainingLength(n) /\ Len(l) = k
  BY <1>1, <1>4, EncodedDigits DEF Bytes
<1>6. PICK u \in Bytes : u = body \o rest /\ Len(u) = n + Len(rest)
  BY <1>1, Cat
<1>7. PICK v \in Bytes : /\ v = l \o u /\ Len(v) = k + Len(u)
                         /\ \A i \in 1..k : v[i] = l[i]
  <2>1. /\ l \o u \in Bytes /\ Len(l \o u) = Len(l) + Len(u)
        /\ \A i \in 1..Len(l) : (l \o u)[i] = l[i]
    BY Cat
  <2> QED BY <1>5, <2>1
<1>8. PICK buf \in Bytes : /\ buf = a \o v /\ Len(buf) = 1 + Len(v) /\ buf[1] = h
                           /\ Tail(buf) = v
  <2>1. PICK buf \in Bytes : buf = a \o v /\ Len(buf) = Len(a) + Len(v)
    BY Cat
  <2>2. buf[1] = h
    <3>1. \A i \in 1..Len(a) : buf[i] = a[i]
      BY <2>1, Cat
    <3> QED BY <1>3, <3>1
  <2>3. buf # <<>>
    BY <1>3, <2>1 DEF Bytes
  <2>4. Tail(buf) = SubSeq(buf, 2, Len(buf))
    BY <2>3, TailIsSubSeq DEF Bytes
  <2>5. From(buf, Len(a) + 1) = v
    BY <2>1, FirstAndRest
  <2>6. Len(a) + 1 = 2
    BY <1>3
  <2>7. Tail(buf) = v
    BY <2>4, <2>5, <2>6 DEF From
  <2> QED BY <1>3, <2>1, <2>2, <2>7
<1>9. PICK b \in Bytes : b = a \o l /\ Len(b) = 1 + k
  <2>1. a \o l \in Bytes /\ Len(a \o l) = Len(a) + Len(l)
    BY Cat
  <2> QED BY <1>3, <1>5, <2>1
<1>10. buf = b \o u
  <2>1. (a \o l) \o u = a \o (l \o u)
    <3>1. Nested(a, l, u)
      BY NestedAll
    <3> QED BY <3>1, Zenon DEF Nested
  <2> QED BY <1>7, <1>8, <1>9, <2>1
<1>11. Encoded(t, flags, Len(body), body) \o rest = buf
  <2>1. Encoded(t, flags, Len(body), body) = b \o body
    BY <1>1, <1>2, <1>3, <1>5, <1>9 DEF Encoded
  <2>2. (b \o body) \o rest = b \o (body \o rest)
    <3>1. Nested(b, body, rest)
      BY NestedAll
    <3> QED BY <3>1, Zenon DEF Nested
  <2> QED BY <1>6, <1>10, <2>1, <2>2
<1>12. Len(u) \in Nat /\ Len(v) \in Nat /\ Len(rest) \in Nat
  BY DEF Bytes
<1>13. /\ LengthEnd(v) = k
       /\ DecodeRemainingLength(v) = [ok |-> TRUE, value |-> n, consumed |-> k]
  <2>1. v \in Seq(Byte) /\ k <= Len(v) /\ \A i \in 1..k : v[i] = EncodeRemainingLength(n)[i]
    BY <1>5, <1>7, <1>12 DEF Bytes
  <2> QED BY <1>1, <1>4, <2>1, LengthReadBack
<1>14. DecodeRemainingLength(SubSeq(buf, 2, 1 + k)).value = n
  <2>1. SubSeq(a \o (l \o u), Len(a) + 1, Len(a) + Len(l)) = l
    BY Middle
  <2>2. SubSeq(buf, 2, 1 + k) = l
    <3>1. Len(a) + 1 = 2 /\ Len(a) + Len(l) = 1 + k
      BY <1>3, <1>5
    <3> QED BY <1>7, <1>8, <2>1, <3>1
  <2>3. l \in Seq(Byte) /\ k <= Len(l) /\ \A i \in 1..k : l[i] = EncodeRemainingLength(n)[i]
    BY <1>5 DEF Bytes
  <2>4. DecodeRemainingLength(l) = [ok |-> TRUE, value |-> n, consumed |-> k]
    BY <1>1, <1>4, <2>3, LengthReadBack
  <2>5. DecodeRemainingLength(l).value = n
    BY <2>4
  <2> QED BY <2>2, <2>5
<1>15. body = SubSeq(buf, 2 + k, 1 + k + n)
  <2>1. SubSeq(b \o (body \o rest), Len(b) + 1, Len(b) + Len(body)) = body
    BY Middle
  <2>2. Len(b) + 1 = 2 + k /\ Len(b) + Len(body) = 1 + k + n
    BY <1>1, <1>9
  <2> QED BY <1>6, <1>10, <2>1, <2>2
<1>16. rest = From(buf, 2 + k + n)
  <2>1. PICK c \in Bytes : c = b \o body /\ Len(c) = Len(b) + Len(body)
    BY Cat
  <2>2. buf = c \o rest
    <3>1. (b \o body) \o rest = b \o (body \o rest)
      <4>1. Nested(b, body, rest)
        BY NestedAll
      <4> QED BY <4>1, Zenon DEF Nested
    <3> QED BY <1>6, <1>10, <2>1, <3>1
  <2>3. From(buf, Len(c) + 1) = rest
    BY <2>2, FirstAndRest
  <2>4. Len(c) + 1 = 2 + k + n
    BY <1>1, <1>9, <2>1
  <2> QED BY <2>3, <2>4
<1>17. Len(buf) >= 2 /\ Len(buf) >= 1 + k + n
  BY <1>6, <1>7, <1>8, <1>12
<1>18. Framed(buf, h, k, n, body, rest)
  BY <1>8, <1>13, <1>14, <1>15, <1>16, <1>17 DEF Framed
<1> QED BY <1>1, <1>2, <1>4, <1>11, <1>18

\* What Decode and ReadPacket make of an encoded packet with more after it.
LEMMA EncodedRead ==
    ASSUME NEW t \in PacketTypes, NEW flags \in 0..15, ValidateFlags(t, flags),
           NEW body \in Bytes, Len(body) <= MaxRemainingLength, NEW rest \in Bytes
    PROVE  LET buf == Encoded(t, flags, Len(body), body) \o rest
           IN  /\ Decode(buf) = DecodeBody(t, flags, body)
               /\ Len(body) <= MaxPacketSize
                    => ReadFrom(buf) = Read(DecodeBody(t, flags, body), rest)
<1>1. PICK h : h = 16 * Nibble(t) + flags
  OBVIOUS
<1>2. h % 16 = flags /\ Types[h \div 16] = t /\ HeaderOK(h)
  BY <1>1, HeaderByte
<1>3. PICK buf, k, n : /\ buf = Encoded(t, flags, Len(body), body) \o rest
                       /\ k = RemainingLengthSize(Len(body)) /\ n = Len(body)
  OBVIOUS
<1>4. Framed(buf, h, k, n, body, rest)
  BY <1>1, <1>3, EncodedFramed
<1>5. /\ Decode(buf) = DecodeBody(Types[h \div 16], h % 16, body)
      /\ n <= MaxPacketSize
           => ReadFrom(buf) = Read(DecodeBody(Types[h \div 16], h % 16, body), rest)
  BY <1>2, <1>4, FramedRead
<1> QED BY <1>2, <1>3, <1>5
----------------------------------------------------------------------------
(***************************************************************************)
(* Each packet is carried: its encoding is a frame around a body that      *)
(* decodes to it.                                                          *)
(***************************************************************************)
Carries(p, flags, body) ==
    /\ p.type \in PacketTypes /\ ValidateFlags(p.type, flags)
    /\ flags \in 0..15 /\ body \in Bytes /\ Len(body) <= MaxRemainingLength
    /\ Encode(p) = Encoded(p.type, flags, Len(body), body)
    /\ DecodeBody(p.type, flags, body) = p

Carried(p) == \E flags, body : Carries(p, flags, body)

\* Two bytes are within the limit.
LEMMA SmallLength == 0 <= MaxRemainingLength /\ 2 <= MaxRemainingLength
  BY SMT DEF MaxRemainingLength

\* PUBACK, PUBREC, PUBREL, PUBCOMP and UNSUBACK.
LEMMA AckCarried ==
    ASSUME NEW p \in Ack PROVE Carried(p)
<1>1. p.type \in Acks /\ p.id \in Word /\ p.id # 0 /\ p = [type |-> p.type, id |-> p.id]
  BY DEF Ack
<1>2. PICK body \in Bytes : body = Uint16(p.id) /\ Len(body) = 2
  BY <1>1, Uint16Type
<1>3. PICK t, flags : t = p.type /\ flags = RequiredFlags(t)
  OBVIOUS
<1>4. t \in PacketTypes /\ flags \in 0..15 /\ ValidateFlags(t, flags)
  BY <1>1, <1>3, TypesAre DEF Acks, PacketTypes, RequiredFlags, ValidateFlags
<1>5. Encode(p) = Encoded(t, flags, Len(body), body)
  <2>1. Encode(p) = EncodeAck(p)
    BY <1>1 DEF Encode, Acks, Simples
  <2> QED BY <1>1, <1>2, <1>3, <2>1 DEF EncodeAck
<1>6. DecodeBody(t, flags, body) = p
  <2>1. DecodeBody(t, flags, body) = DecodeAck(t, body)
    BY <1>1, <1>3 DEF DecodeBody, Acks, Simples
  <2>2. Uint16Value(body) = Read(p.id, <<>>)
    <3>1. Uint16Value(Uint16(p.id) \o <<>>) = Read(p.id, <<>>)
      BY <1>1, CatEmpty, Uint16Back
    <3>2. body \o <<>> = body
      BY CatEmpty
    <3> QED BY <1>2, <3>1, <3>2
  <2>3. Uint16Value(body).val = p.id
    BY <2>2 DEF Read
  <2> QED BY <1>1, <1>2, <1>3, <2>1, <2>3 DEF DecodeAck
<1>7. Carries(p, flags, body)
  BY <1>2, <1>3, <1>4, <1>5, <1>6, SmallLength DEF Carries
<1> QED BY <1>7 DEF Carried

\* PINGREQ, PINGRESP and DISCONNECT.
LEMMA SimpleCarried ==
    ASSUME NEW p \in Simple PROVE Carried(p)
<1>1. p.type \in Simples /\ p = [type |-> p.type]
  BY DEF Simple
<1>2. PICK body \in Bytes : body = <<>> /\ Len(body) = 0
  <2>1. <<>> \in Bytes /\ Len(<<>>) = 0
    BY DEF Bytes
  <2> QED BY <2>1
<1>3. p.type \in PacketTypes /\ 0 \in 0..15 /\ ValidateFlags(p.type, 0)
  BY <1>1, TypesAre DEF Simples, PacketTypes, RequiredFlags, ValidateFlags
<1>4. Encode(p) = Encoded(p.type, 0, Len(body), body)
  <2>1. Encode(p) = EncodeSimple(p)
    BY <1>1 DEF Encode, Simples, Acks
  <2> QED BY <1>1, <1>2, <2>1 DEF EncodeSimple
<1>5. DecodeBody(p.type, 0, body) = p
  <2>1. DecodeBody(p.type, 0, body) = DecodeSimple(p.type, body)
    BY <1>1 DEF DecodeBody, Simples, Acks
  <2> QED BY <1>1, <1>2, <2>1 DEF DecodeSimple
<1>6. Carries(p, 0, body)
  BY <1>2, <1>3, <1>4, <1>5, SmallLength DEF Carries
<1> QED BY <1>6 DEF Carried

\* CONNACK.
LEMMA ConnackCarried ==
    ASSUME NEW p \in Connack PROVE Carried(p)
<1>1. /\ p.type = "CONNACK" /\ p.sessionPresent \in BOOLEAN /\ p.code \in Byte
      /\ p = [type |-> "CONNACK", sessionPresent |-> p.sessionPresent, code |-> p.code]
      /\ p.sessionPresent => p.code = 0
  BY DEF Connack
<1>2. PICK b : b = SetBit(1, p.sessionPresent /\ p.code = 0)
  OBVIOUS
<1>3. b \in {0, 1} /\ (b = 1 <=> p.sessionPresent)
  BY <1>1, <1>2 DEF SetBit
<1>4. PICK body : body = <<b, p.code>>
  OBVIOUS
<1>5. body \in Bytes /\ Len(body) = 2 /\ body[1] = b /\ body[2] = p.code
  BY <1>1, <1>3, <1>4 DEF Bytes, Byte
<1>6. p.type \in PacketTypes /\ 0 \in 0..15 /\ ValidateFlags(p.type, 0)
  BY <1>1, TypesAre DEF PacketTypes, RequiredFlags, ValidateFlags
<1>7. Encode(p) = Encoded(p.type, 0, Len(body), body)
  <2>1. Encode(p) = ConnackBytes(p)
    BY <1>1 DEF Encode, Acks, Simples
  <2> QED BY <1>1, <1>2, <1>4, <1>5, <2>1 DEF ConnackBytes
<1>8. DecodeBody(p.type, 0, body) = p
  <2>1. DecodeBody(p.type, 0, body) = DecodeConnack(body)
    BY <1>1 DEF DecodeBody, Acks, Simples
  <2>2. p.sessionPresent = (b = 1)
    BY <1>1, <1>3
  <2> QED BY <1>1, <1>3, <1>5, <2>1, <2>2 DEF DecodeConnack
<1>9. Carries(p, 0, body)
  BY <1>5, <1>6, <1>7, <1>8, SmallLength DEF Carries
<1> QED BY <1>9 DEF Carried

\* SUBACK.
LEMMA SubackCarried ==
    ASSUME NEW p \in Suback PROVE Carried(p)
<1>1. /\ p.type = "SUBACK" /\ p.id \in Word /\ p.id # 0 /\ p.codes \in Seq({0, 1, 2, 128})
      /\ p = [type |-> "SUBACK", id |-> p.id, codes |-> p.codes]
      /\ p.codes # <<>> /\ 2 + Len(p.codes) <= MaxRemainingLength
  BY DEF Suback
<1>2. PICK c : c = p.codes
  OBVIOUS
<1>3. c \in Bytes /\ Len(c) \in Nat /\ Len(c) > 0 /\ ToSet(c) \subseteq {0, 1, 2, 128}
  <2>1. {0, 1, 2, 128} \subseteq Byte
    BY DEF Byte
  <2>2. c \in Seq({0, 1, 2, 128}) /\ c # <<>>
    BY <1>1, <1>2
  <2>3. c \in Seq(Byte)
    BY <2>1, <2>2, SeqMonotonic
  <2>4. Len(c) \in Nat /\ Len(c) > 0
    BY <2>2
  <2>5. ToSet(c) \subseteq {0, 1, 2, 128}
    BY <2>2 DEF ToSet
  <2> QED BY <2>3, <2>4, <2>5 DEF Bytes
<1>4. PICK u \in Bytes : u = Uint16(p.id) /\ Len(u) = 2
  BY <1>1, Uint16Type
<1>5. PICK body \in Bytes : body = u \o c /\ Len(body) = 2 + Len(c)
  <2>1. u \o c \in Bytes /\ Len(u \o c) = Len(u) + Len(c)
    BY <1>3, Cat
  <2> QED BY <1>4, <2>1
<1>6. p.type \in PacketTypes /\ 0 \in 0..15 /\ ValidateFlags(p.type, 0)
  BY <1>1, TypesAre DEF PacketTypes, RequiredFlags, ValidateFlags
<1>7. Encode(p) = Encoded(p.type, 0, Len(body), body)
  <2>1. Encode(p) = EncodeSuback(p)
    BY <1>1 DEF Encode, Acks, Simples
  <2> QED BY <1>1, <1>2, <1>4, <1>5, <2>1 DEF EncodeSuback
<1>8. DecodeBody(p.type, 0, body) = p
  <2>1. DecodeBody(p.type, 0, body) = DecodeSuback(body)
    BY <1>1 DEF DecodeBody, Acks, Simples
  <2>2. PICK id : id = Uint16Value(body)
    OBVIOUS
  <2>3. id = Read(p.id, c)
    BY <1>1, <1>3, <1>4, <1>5, <2>2, Uint16Back
  <2>4. id.val = p.id /\ id.rest = c
    BY <2>3 DEF Read
  <2>5. Len(body) >= 3
    BY <1>3, <1>5
  <2> QED BY <1>1, <1>2, <1>3, <2>1, <2>2, <2>4, <2>5 DEF DecodeSuback
<1>9. Len(body) <= MaxRemainingLength
  BY <1>1, <1>2, <1>5
<1>10. Carries(p, 0, body)
  BY <1>5, <1>6, <1>7, <1>8, <1>9 DEF Carries
<1> QED BY <1>10 DEF Carried

\* The bits of a PUBLISH header.
LEMMA PublishFlagBits ==
    ASSUME NEW p \in Publish
    PROVE  LET flags == PublishFlags(p)
           IN  /\ flags \in 0..15 /\ (flags \div 2) % 4 = p.qos
               /\ Bit(flags, 8) = p.dup /\ Bit(flags, 1) = p.retain
               /\ ValidateFlags("PUBLISH", flags)
<1>1. p.qos \in 0..2 /\ p.dup \in BOOLEAN /\ p.retain \in BOOLEAN /\ (p.dup => p.qos > 0)
  BY DEF Publish
<1>2. PICK d, r, q : /\ d = SetBit(8, p.dup) /\ r = SetBit(1, p.retain) /\ q = p.qos
  OBVIOUS
<1>3. /\ d \in {0, 8} /\ (d = 8 <=> p.dup) /\ r \in {0, 1} /\ (r = 1 <=> p.retain)
      /\ q \in {0, 1, 2} /\ (d = 8 => q > 0)
  BY <1>1, <1>2 DEF SetBit
<1>4. PICK flags : flags = d + 2 * q + r
  OBVIOUS
<1>5. /\ flags \in 0..15 /\ (flags \div 2) % 4 = q
      /\ ((flags \div 8) % 2 = 1 <=> d = 8) /\ ((flags \div 1) % 2 = 1 <=> r = 1)
  BY <1>3, <1>4, SMT
<1>6. flags = PublishFlags(p)
  BY <1>2, <1>4 DEF PublishFlags
<1>7. (Bit(flags, 8) <=> p.dup) /\ (Bit(flags, 1) <=> p.retain)
  BY <1>3, <1>5 DEF Bit
<1>8. Bit(flags, 8) = p.dup /\ Bit(flags, 1) = p.retain
  BY <1>1, <1>7 DEF Bit
<1>9. ValidateFlags("PUBLISH", flags)
  BY <1>3, <1>5, <1>7 DEF ValidateFlags
<1> QED BY <1>2, <1>5, <1>6, <1>8, <1>9

\* PUBLISH.
LEMMA PublishCarried ==
    ASSUME NEW p \in Publish PROVE Carried(p)
<1>1. /\ p.type = "PUBLISH" /\ p.qos \in 0..2 /\ p.topic \in Text /\ p.id \in Word
      /\ p.payload \in Bytes /\ ~ContainsWildcard(p.topic)
      /\ (p.id = 0 <=> p.qos = 0) /\ PublishLength(p) <= MaxRemainingLength
      /\ p = [type |-> "PUBLISH", dup |-> p.dup, qos |-> p.qos, retain |-> p.retain,
              topic |-> p.topic, id |-> p.id, payload |-> p.payload]
  BY DEF Publish, Bytes
<1>2. PICK flags \in 0..15 :
            /\ flags = PublishFlags(p) /\ (flags \div 2) % 4 = p.qos
            /\ Bit(flags, 8) = p.dup /\ Bit(flags, 1) = p.retain
            /\ ValidateFlags("PUBLISH", flags)
  BY PublishFlagBits
<1>3. p.topic \in Blob
  BY <1>1, CatEmpty, StringBack
<1>4. PICK a \in Bytes : /\ a = AppendString(p.topic) /\ Len(a) = StringSize(p.topic)
                         /\ StringSize(p.topic) \in Nat
  BY <1>3, AppendType
<1>5. PICK i \in Bytes : /\ i = IF p.qos > 0 THEN Uint16(p.id) ELSE <<>>
                         /\ Len(i) = IF p.qos > 0 THEN 2 ELSE 0
  <2>1. CASE p.qos > 0
    BY <1>1, <2>1, Uint16Type
  <2>2. CASE ~(p.qos > 0)
    <3>1. <<>> \in Bytes /\ Len(<<>>) = 0
      BY DEF Bytes
    <3> QED BY <2>2, <3>1
  <2> QED BY <2>1, <2>2
<1>6. PICK r \in Bytes : r = i \o p.payload /\ Len(r) = Len(i) + Len(p.payload)
  BY <1>1, Cat, ZenonT(60)
<1>7. PICK body \in Bytes : body = a \o r /\ Len(body) = Len(a) + Len(r)
  BY Cat
<1>8. Len(body) = PublishLength(p)
  <2>1. Len(p.payload) \in Nat /\ Len(i) \in Nat
    BY <1>1, <1>5 DEF Bytes
  <2>2. PICK z \in Nat : z = (IF p.qos > 0 THEN 2 ELSE 0) /\ Len(i) = z
    BY <1>5
  <2>3. PublishLength(p) = StringSize(p.topic) + Len(p.payload) + z
    BY <2>2 DEF PublishLength
  <2>4. Len(body) = StringSize(p.topic) + (z + Len(p.payload))
    BY <1>4, <1>6, <1>7, <2>2, Zenon
  <2> QED BY <1>4, <2>1, <2>3, <2>4
<1>9. Encode(p) = Encoded(p.type, flags, Len(body), body)
  <2>1. Encode(p) = EncodePublish(p)
    BY <1>1 DEF Encode, Acks, Simples
  <2>2. (a \o i) \o p.payload = body
    <3>1. (a \o i) \o p.payload = a \o (i \o p.payload)
      BY <1>1, Assoc, SMTT(60)
    <3> QED BY <1>6, <1>7, <3>1
  <2>3. ~(p.qos > 2 \/ (p.qos > 0 /\ p.id = 0))
    BY <1>1
  <2> QED BY <1>1, <1>2, <1>4, <1>5, <1>8, <2>1, <2>2, <2>3 DEF EncodePublish
<1>10. DecodeBody(p.type, flags, body) = p
  <2>1. DecodeBody(p.type, flags, body) = DecodePublish(flags, body)
    BY <1>1 DEF DecodeBody, Acks, Simples
  <2>2. PICK topic : topic = StringValue(body)
    OBVIOUS
  <2>3. topic = Read(p.topic, r)
    BY <1>1, <1>4, <1>7, <2>2, StringBack
  <2>4. topic.ok = TRUE /\ topic.val = p.topic /\ topic.rest = r
    BY <2>3 DEF Read
  <2>5. PICK id : id = IF HasPacketID(p.qos) THEN Uint16Value(r) ELSE Absent(r)
    OBVIOUS
  <2>6. id.ok = TRUE /\ id.val = p.id /\ id.rest = p.payload
    <3>1. CASE p.qos > 0
      <4>1. id = Read(p.id, p.payload)
        BY <1>1, <1>5, <1>6, <2>5, <3>1, Uint16Back DEF HasPacketID
      <4> QED BY <4>1 DEF Read
    <3>2. CASE ~(p.qos > 0)
      <4>1. p.id = 0 /\ r = p.payload
        <5>1. p.qos = 0 /\ i = <<>>
          BY <1>1, <1>5, <3>2
        <5>2. <<>> \o p.payload = p.payload
          BY <1>1, CatEmpty
        <5> QED BY <1>1, <1>6, <5>1, <5>2
      <4> QED BY <2>5, <3>2, <4>1 DEF HasPacketID, Absent, Read
    <3> QED BY <3>1, <3>2
  <2>7. HasPacketID(p.qos) => id.val # 0
    BY <1>1, <2>6 DEF HasPacketID
  <2> QED BY <1>1, <1>2, <2>1, <2>2, <2>4, <2>5, <2>6, <2>7 DEF DecodePublish
<1>11. Carries(p, flags, body)
  <2>1. p.type \in PacketTypes
    BY <1>1, TypesAre DEF PacketTypes
  <2> QED BY <1>1, <1>2, <1>7, <1>8, <1>9, <1>10, <2>1 DEF Carries
<1> QED BY <1>11 DEF Carried

\* An optional field is absent or has one value.
LEMMA OptionalIs ==
    ASSUME NEW S, NEW f \in Optional(S)
    PROVE  f = {} \/ \E v \in S : f = {v}
<1>1. f \subseteq S /\ \A x, y \in f : x = y
  BY DEF Optional
<1>2. CASE f # {}
  <2>1. PICK v \in f : TRUE
    BY <1>2
  <2>2. f = {v} /\ v \in S
    BY <1>1, <2>1
  <2> QED BY <2>2
<1> QED BY <1>2

\* An optional field on the wire.
LEMMA OptStringIs ==
    /\ OptString({}) = <<>> /\ OptSize({}) = 0 /\ <<>> \in Bytes /\ Len(<<>>) = 0
    /\ \A v : OptString({v}) = AppendString(v) /\ OptSize({v}) = StringSize(v)
<1>1. OptString({}) = <<>> /\ OptSize({}) = 0
  BY DEF OptString, OptSize
<1>2. <<>> \in Bytes /\ Len(<<>>) = 0
  BY DEF Bytes
<1>3. ASSUME NEW v
      PROVE  OptString({v}) = AppendString(v) /\ OptSize({v}) = StringSize(v)
  <2>1. (CHOOSE s \in {v} : TRUE) = v
    OBVIOUS
  <2> QED BY <2>1 DEF OptString, OptSize
<1> QED BY <1>1, <1>2, <1>3

\* Its type and its size.
LEMMA OptStringType ==
    ASSUME NEW f \in Optional(Blob)
    PROVE  /\ OptString(f) \in Bytes /\ Len(OptString(f)) = OptSize(f)
           /\ OptSize(f) \in Nat /\ OptSize(f) < 65538
<1>1. CASE f = {}
  BY <1>1, OptStringIs
<1>2. CASE f # {}
  <2>1. PICK v \in Blob : f = {v}
    BY <1>2, OptionalIs
  <2>2. OptString(f) = AppendString(v) /\ OptSize(f) = StringSize(v)
    BY <2>1, OptStringIs
  <2>3. /\ AppendString(v) \in Bytes /\ Len(AppendString(v)) = StringSize(v)
        /\ Len(v) \in Word
    BY AppendType
  <2>4. StringSize(v) \in Nat /\ StringSize(v) < 65538
    BY <2>3, SMT DEF StringSize, Word
  <2> QED BY <2>2, <2>3, <2>4
<1> QED BY <1>1, <1>2

\* A text is a blob, also where it is optional.
LEMMA TextIsBlob ==
    /\ Text \subseteq Blob /\ Optional(Text) \subseteq Optional(Blob)
    /\ \A w \in Optional(Will) : /\ {x.topic : x \in w} \in Optional(Text)
                                 /\ {x.payload : x \in w} \in Optional(Blob)
<1>1. Text \subseteq Blob
  BY Zenon DEF Text
<1>2. Optional(Text) \subseteq Optional(Blob)
  BY <1>1 DEF Optional
<1>3. ASSUME NEW w \in Optional(Will)
      PROVE  /\ {x.topic : x \in w} \in Optional(Text)
             /\ {x.payload : x \in w} \in Optional(Blob)
  <2>1. \A x \in Will : x.topic \in Text /\ x.payload \in Blob
    BY DEF Will
  <2>2. w \subseteq Will /\ \A x, y \in w : x = y
    BY DEF Optional
  <2> QED BY <2>1, <2>2 DEF Optional
<1> QED BY <1>1, <1>2, <1>3

\* The bits of the connect flags.
LEMMA ConnectFlagBits ==
    ASSUME NEW p \in Connect
    PROVE  LET flags == ConnectFlags(p)
           IN  /\ flags \in Byte /\ ConnectFlagsOK(flags)
               /\ Bit(flags, 2) = p.clean
               /\ Bit(flags, 4) <=> p.will # {}
               /\ Bit(flags, 64) <=> p.password # {}
               /\ Bit(flags, 128) <=> p.username # {}
               /\ \A w : p.will = {w} => WillQoS(flags) = w.qos /\ Bit(flags, 32) = w.retain
<1>1. /\ p.clean \in BOOLEAN /\ p.will \in Optional(Will)
      /\ p.password # {} => p.username # {}
  BY DEF Connect
<1>2. PICK c, w, x, y : /\ c = SetBit(2, p.clean) /\ w = SetBit(4, p.will # {})
                        /\ x = SetBit(64, p.password # {}) /\ y = SetBit(128, p.username # {})
  OBVIOUS
<1>3. /\ c \in {0, 2} /\ (c = 2 <=> p.clean) /\ w \in {0, 4} /\ (w = 4 <=> p.will # {})
      /\ x \in {0, 64} /\ (x = 64 <=> p.password # {})
      /\ y \in {0, 128} /\ (y = 128 <=> p.username # {}) /\ (x = 64 => y = 128)
  BY <1>1, <1>2 DEF SetBit
<1>4. PICK m : m = IF p.will = {} THEN 0
                   ELSE LET v == CHOOSE v \in p.will : TRUE
                        IN  8 * (v.qos % 4) + SetBit(32, v.retain)
  OBVIOUS
<1>5. ConnectFlags(p) = c + w + m + x + y
  BY <1>2, <1>4 DEF ConnectFlags
<1>6. PICK q, r : /\ m = 8 * q + r /\ q \in {0, 1, 2} /\ r \in {0, 32}
                  /\ (p.will = {} => q = 0 /\ r = 0)
                  /\ \A v : p.will = {v} => /\ v.qos = q /\ v.retain \in BOOLEAN
                                            /\ (r = 32 <=> v.retain)
  <2>1. CASE p.will = {}
    <3>1. m = 8 * 0 + 0
      BY <1>4, <2>1
    <3> QED BY <2>1, <3>1
  <2>2. CASE p.will # {}
    <3>1. PICK v \in Will : p.will = {v}
      BY <1>1, <2>2, OptionalIs
    <3>2. (CHOOSE z \in p.will : TRUE) = v
      BY <3>1
    <3>3. v.qos \in {0, 1, 2} /\ v.retain \in BOOLEAN
      BY DEF Will
    <3>4. m = 8 * (v.qos % 4) + SetBit(32, v.retain)
      BY <1>4, <2>2, <3>2
    <3>5. PICK q, r : q = v.qos /\ r = SetBit(32, v.retain)
      OBVIOUS
    <3>6. q \in {0, 1, 2} /\ q % 4 = q /\ r \in {0, 32} /\ (r = 32 <=> v.retain)
      BY <3>3, <3>5, SMT DEF SetBit
    <3>7. m = 8 * q + r
      BY <3>4, <3>5, <3>6
    <3>8. \A z : p.will = {z} => z = v
      BY <3>1
    <3>9. \A z : p.will = {z} => z.qos = q /\ z.retain \in BOOLEAN /\ (r = 32 <=> z.retain)
      BY <3>3, <3>5, <3>6, <3>8
    <3>10. p.will = {} => q = 0 /\ r = 0
      BY <2>2
    <3> QED BY <3>6, <3>7, <3>9, <3>10
  <2> QED BY <2>1, <2>2
<1>7. PICK flags : flags = c + w + m + x + y
  OBVIOUS
<1>8. w = 0 => q = 0 /\ r = 0
  BY <1>3, <1>6
<1>9. /\ flags \in 0..255 /\ (flags \div 8) % 4 = q
      /\ (flags \div 1) % 2 # 1
      /\ ((flags \div 2) % 2 = 1 <=> c = 2) /\ ((flags \div 4) % 2 = 1 <=> w = 4)
      /\ ((flags \div 32) % 2 = 1 <=> r = 32)
      /\ ((flags \div 64) % 2 = 1 <=> x = 64) /\ ((flags \div 128) % 2 = 1 <=> y = 128)
  <2>1. /\ c \in {0, 2} /\ w \in {0, 4} /\ q \in {0, 1, 2} /\ r \in {0, 32}
        /\ x \in {0, 64} /\ y \in {0, 128}
    BY <1>3, <1>6
  <2>2. flags = c + w + 8 * q + r + x + y
    BY <1>6, <1>7, <2>1
  <2> HIDE DEF Connect
  <2>3. flags \in 0..255 /\ (flags \div 8) % 4 = q
    BY <2>1, <2>2, SMT
  <2>4. (flags \div 1) % 2 # 1 /\ ((flags \div 2) % 2 = 1 <=> c = 2)
    BY <2>1, <2>2, SMT
  <2>5. ((flags \div 4) % 2 = 1 <=> w = 4) /\ ((flags \div 32) % 2 = 1 <=> r = 32)
    BY <2>1, <2>2, SMT
  <2>6. ((flags \div 64) % 2 = 1 <=> x = 64) /\ ((flags \div 128) % 2 = 1 <=> y = 128)
    BY <2>1, <2>2, SMT
  <2> QED BY <2>3, <2>4, <2>5, <2>6
<1>10. /\ Bit(flags, 2) <=> p.clean
       /\ Bit(flags, 4) <=> p.will # {}
       /\ Bit(flags, 64) <=> p.password # {}
       /\ Bit(flags, 128) <=> p.username # {}
       /\ Bit(flags, 32) <=> r = 32
       /\ ~Bit(flags, 1) /\ WillQoS(flags) = q
  BY <1>3, <1>9 DEF Bit, WillQoS
<1>11. Bit(flags, 2) = p.clean
  BY <1>1, <1>10 DEF Bit
<1>12. ConnectFlagsOK(flags)
  BY <1>3, <1>6, <1>8, <1>10 DEF ConnectFlagsOK
<1>13. ASSUME NEW v, p.will = {v}
       PROVE  WillQoS(flags) = v.qos /\ Bit(flags, 32) = v.retain
  <2>1. v.qos = q /\ v.retain \in BOOLEAN /\ (Bit(flags, 32) <=> v.retain)
    BY <1>6, <1>10, <1>13
  <2>2. Bit(flags, 32) = v.retain
    BY <2>1 DEF Bit
  <2> QED BY <1>10, <2>1, <2>2
<1>14. flags = ConnectFlags(p) /\ flags \in Byte
  BY <1>5, <1>7, <1>9 DEF Byte
<1> QED BY <1>10, <1>11, <1>12, <1>13, <1>14

\* The fields that are always there, as decodeConnect reads them.
LEMMA ConnectHeadBack ==
    ASSUME NEW name \in Text, NEW level \in Byte, NEW flags \in Byte, NEW alive \in Word,
           NEW id \in Text, NEW rest \in Bytes
    PROVE  ConnectHead((((AppendString(name) \o <<level, flags>>) \o Uint16(alive))
                            \o AppendString(id)) \o rest)
             = [ok |-> TRUE, name |-> name, level |-> level, flags |-> flags,
                keepAlive |-> alive, id |-> id, rest |-> rest]
<1>1. PICK a \in Bytes, b \in Bytes, d \in Bytes, e \in Bytes :
         /\ a = AppendString(name) /\ b = <<level, flags>>
         /\ d = Uint16(alive) /\ e = AppendString(id)
  <2>1. AppendString(name) \in Bytes /\ AppendString(id) \in Bytes
    BY TextIsBlob, AppendType
  <2>2. <<level, flags>> \in Bytes
    BY DEF Bytes
  <2> QED BY <2>1, <2>2, Uint16Type
<1>2. PICK b1 \in Bytes, b2 \in Bytes : b1 = <<level>> /\ b2 = <<flags>>
  <2>1. <<level>> \in Bytes /\ <<flags>> \in Bytes
    BY DEF Bytes
  <2> QED BY <2>1
<1>3. b = b1 \o b2
  <2>1. PICK z \in Bytes : z = b1 \o b2
    BY Cat
  <2>2. Len(b1) = 1 /\ Len(b2) = 1 /\ b1[1] = level /\ b2[1] = flags
    BY <1>2
  <2>3. /\ Len(z) = Len(b1) + Len(b2)
        /\ \A i \in 1..Len(b1) : z[i] = b1[i]
        /\ \A i \in 1..Len(b2) : z[Len(b1) + i] = b2[i]
    BY <2>1, Cat
  <2>4. Len(z) = 2 /\ z[1] = level /\ z[2] = flags
    BY <2>2, <2>3
  <2>5. Len(b) = 2 /\ b[1] = level /\ b[2] = flags
    BY <1>1
  <2>6. \A i \in 1..Len(b) : b[i] = z[i]
    BY <2>4, <2>5
  <2> QED BY <2>1, <2>4, <2>5, <2>6, SameBytes
<1>4. PICK s4 \in Bytes : s4 = e \o rest
  BY Cat
<1>5. PICK s3 \in Bytes : s3 = d \o s4
  BY Cat
<1>6. PICK s2 \in Bytes : s2 = b2 \o s3
  BY Cat
<1>7. PICK s1 \in Bytes : s1 = b1 \o s2
  BY Cat
<1>8. PICK body : body = (((a \o b) \o d) \o e) \o rest
  OBVIOUS
<1>9. body = a \o s1
  <2>1. PICK ab \in Bytes : ab = a \o b
    BY Cat
  <2>2. PICK abd \in Bytes : abd = ab \o d
    BY Cat
  <2>3. (abd \o e) \o rest = abd \o (e \o rest)
    <3>1. Nested(abd, e, rest)
      BY NestedAll
    <3> QED BY <3>1, Zenon DEF Nested
  <2>4. (ab \o d) \o s4 = ab \o (d \o s4)
    <3>1. Nested(ab, d, s4)
      BY NestedAll
    <3> QED BY <3>1, Zenon DEF Nested
  <2>5. (a \o b) \o s3 = a \o (b \o s3)
    <3>1. Nested(a, b, s3)
      BY NestedAll
    <3> QED BY <3>1, Zenon DEF Nested
  <2>6. (b1 \o b2) \o s3 = b1 \o (b2 \o s3)
    <3>1. Nested(b1, b2, s3)
      BY NestedAll
    <3> QED BY <3>1, Zenon DEF Nested
  <2>7. body = (abd \o e) \o rest
    BY <1>8, <2>1, <2>2, Zenon
  <2>8. body = abd \o s4
    BY <1>4, <2>3, <2>7, Zenon
  <2>9. body = ab \o s3
    BY <1>5, <2>2, <2>4, <2>8, Zenon
  <2>10. body = a \o (b \o s3)
    BY <2>1, <2>5, <2>9, Zenon
  <2>11. b \o s3 = s1
    BY <1>3, <1>6, <1>7, <2>6, Zenon
  <2> QED BY <2>10, <2>11, Zenon
<1>10. PICK r1 : r1 = StringValue(body)
  OBVIOUS
<1>11. r1 = Read(name, s1)
  BY <1>1, <1>9, <1>10, StringBack
<1>12. r1.ok = TRUE /\ r1.val = name /\ r1.rest = s1
  BY <1>11 DEF Read
<1>13. PICK r2 : r2 = ByteValue(s1)
  OBVIOUS
<1>14. r2 = Read(level, s2)
  BY <1>2, <1>7, <1>13, ByteBack
<1>15. r2.ok = TRUE /\ r2.val = level /\ r2.rest = s2
  BY <1>14 DEF Read
<1>16. PICK r3 : r3 = ByteValue(s2)
  OBVIOUS
<1>17. r3 = Read(flags, s3)
  BY <1>2, <1>6, <1>16, ByteBack
<1>18. r3.ok = TRUE /\ r3.val = flags /\ r3.rest = s3
  BY <1>17 DEF Read
<1>19. PICK r4 : r4 = Uint16Value(s3)
  OBVIOUS
<1>20. r4 = Read(alive, s4)
  BY <1>1, <1>5, <1>19, Uint16Back
<1>21. r4.ok = TRUE /\ r4.val = alive /\ r4.rest = s4
  BY <1>20 DEF Read
<1>22. PICK r5 : r5 = StringValue(s4)
  OBVIOUS
<1>23. r5 = Read(id, rest)
  BY <1>1, <1>4, <1>22, StringBack
<1>24. r5.ok = TRUE /\ r5.val = id /\ r5.rest = rest
  BY <1>23 DEF Read
<1>25. ConnectHead(body)
         = [ok |-> r1.ok /\ r2.ok /\ r3.ok /\ r4.ok /\ r5.ok, name |-> r1.val,
            level |-> r2.val, flags |-> r3.val, keepAlive |-> r4.val, id |-> r5.val,
            rest |-> r5.rest]
  BY <1>10, <1>12, <1>13, <1>15, <1>16, <1>18, <1>19, <1>21, <1>22, Zenon DEF ConnectHead
<1>26. (r1.ok /\ r2.ok /\ r3.ok /\ r4.ok /\ r5.ok) = TRUE
  BY <1>12, <1>15, <1>18, <1>21, <1>24
<1> QED BY <1>1, <1>8, <1>12, <1>15, <1>18, <1>21, <1>24, <1>25, <1>26

\* The fields that the flags call for.
LEMMA ConnectTailBack ==
    ASSUME NEW p \in Connect
    PROVE  LET tail == ConnectTail(ConnectFlags(p), ConnectOptions(p))
           IN  /\ tail.ok = TRUE /\ tail.rest = <<>>
               /\ \A w : p.will = {w} => tail.topic = w.topic /\ tail.payload = w.payload
               /\ \A u : p.username = {u} => tail.username = u
               /\ \A v : p.password = {v} => tail.password = v
<1>1. /\ p.will \in Optional(Will) /\ p.username \in Optional(Text)
      /\ p.password \in Optional(Blob)
  BY DEF Connect
<1>2. PICK f : f = ConnectFlags(p)
  OBVIOUS
<1>3. /\ Bit(f, 4) <=> p.will # {}
      /\ Bit(f, 64) <=> p.password # {}
      /\ Bit(f, 128) <=> p.username # {}
  BY <1>2, ConnectFlagBits
<1>4. PICK wt \in Optional(Text), wp \in Optional(Blob) :
         wt = {x.topic : x \in p.will} /\ wp = {x.payload : x \in p.will}
  BY <1>1, TextIsBlob
<1>5. PICK o1 \in Bytes, o2 \in Bytes, o3 \in Bytes, o4 \in Bytes :
         /\ o1 = OptString(wt) /\ o2 = OptString(wp)
         /\ o3 = OptString(p.username) /\ o4 = OptString(p.password)
  <2>1. wt \in Optional(Blob) /\ p.username \in Optional(Blob)
    BY <1>1, TextIsBlob
  <2> QED BY <1>1, <2>1, OptStringType
<1>6. PICK s3 \in Bytes : s3 = o3 \o o4
  BY Cat
<1>7. PICK s2 \in Bytes : s2 = o2 \o s3
  BY Cat
<1>8. PICK s1 \in Bytes : s1 = o1 \o s2
  BY Cat
<1>9. ConnectOptions(p) = s1
  <2>1. ConnectOptions(p) = ((o1 \o o2) \o o3) \o o4
    BY <1>4, <1>5, Zenon DEF ConnectOptions
  <2>2. PICK o12 \in Bytes : o12 = o1 \o o2
    BY Cat
  <2>3. (o12 \o o3) \o o4 = o12 \o (o3 \o o4)
    <3>1. Nested(o12, o3, o4)
      BY NestedAll
    <3> QED BY <3>1, Zenon DEF Nested
  <2>4. (o1 \o o2) \o s3 = o1 \o (o2 \o s3)
    <3>1. Nested(o1, o2, s3)
      BY NestedAll
    <3> QED BY <3>1, Zenon DEF Nested
  <2> QED BY <1>6, <1>7, <1>8, <2>1, <2>2, <2>3, <2>4, Zenon
<1>10. PICK r1 : r1 = IF Bit(f, 4) THEN StringValue(s1) ELSE Absent(s1)
  OBVIOUS
<1>11. PICK r2 : r2 = IF Bit(f, 4) THEN BytesValue(r1.rest) ELSE r1
  OBVIOUS
<1>12. PICK r3 : r3 = IF Bit(f, 128) THEN StringValue(r2.rest) ELSE r2
  OBVIOUS
<1>13. PICK r4 : r4 = IF Bit(f, 64) THEN BytesValue(r3.rest) ELSE r3
  OBVIOUS
<1>14. ConnectTail(f, s1)
         = [ok |-> r1.ok /\ r2.ok /\ r3.ok /\ r4.ok, topic |-> r1.val,
            payload |-> r2.val, username |-> r3.val, password |-> r4.val, rest |-> r4.rest]
  BY <1>10, <1>11, <1>12, <1>13 DEF ConnectTail
<1>15. /\ r1.ok = TRUE /\ r2.ok = TRUE /\ r2.rest = s3
       /\ \A w : p.will = {w} => r1.val = w.topic /\ r2.val = w.payload
  <2>1. CASE p.will = {}
    <3>1. wt = {} /\ wp = {}
      BY <1>4, <2>1
    <3>2. o1 = <<>> /\ o2 = <<>>
      BY <1>5, <3>1, OptStringIs
    <3>3. s1 = s3
      BY <1>7, <1>8, <3>2, CatEmpty
    <3>4. r2 = Read(0, s3) /\ r1 = Read(0, s3)
      BY <1>3, <1>10, <1>11, <2>1, <3>3 DEF Absent
    <3> QED BY <2>1, <3>4 DEF Read
  <2>2. CASE p.will # {}
    <3>1. PICK w \in Will : p.will = {w}
      BY <1>1, <2>2, OptionalIs
    <3>2. w.topic \in Text /\ w.payload \in Blob
      BY DEF Will
    <3>3. wt = {w.topic} /\ wp = {w.payload}
      BY <1>4, <3>1
    <3>4. o1 = AppendString(w.topic) /\ o2 = AppendString(w.payload)
      BY <1>5, <3>3, OptStringIs
    <3>5. r1 = Read(w.topic, s2)
      BY <1>3, <1>8, <1>10, <2>2, <3>2, <3>4, StringBack
    <3>6. r1.ok = TRUE /\ r1.val = w.topic /\ r1.rest = s2
      BY <3>5 DEF Read
    <3>7. r2 = Read(w.payload, s3)
      BY <1>3, <1>7, <1>11, <2>2, <3>2, <3>4, <3>6, BytesBack
    <3>8. r2.ok = TRUE /\ r2.val = w.payload /\ r2.rest = s3
      BY <3>7 DEF Read
    <3>9. \A z : p.will = {z} => z = w
      BY <3>1
    <3> QED BY <3>6, <3>8, <3>9
  <2> QED BY <2>1, <2>2
<1>16. /\ r3.ok = TRUE /\ r3.rest = o4
       /\ \A u : p.username = {u} => r3.val = u
  <2>1. CASE p.username = {}
    <3>1. o3 = <<>>
      BY <1>5, <2>1, OptStringIs
    <3>2. s3 = o4
      BY <1>6, <3>1, CatEmpty
    <3> QED BY <1>3, <1>12, <1>15, <2>1, <3>2
  <2>2. CASE p.username # {}
    <3>1. PICK u \in Text : p.username = {u}
      BY <1>1, <2>2, OptionalIs
    <3>2. o3 = AppendString(u)
      BY <1>5, <3>1, OptStringIs
    <3>3. r3 = Read(u, o4)
      BY <1>3, <1>6, <1>12, <1>15, <2>2, <3>2, StringBack
    <3>4. r3.ok = TRUE /\ r3.val = u /\ r3.rest = o4
      BY <3>3 DEF Read
    <3>5. \A z : p.username = {z} => z = u
      BY <3>1
    <3> QED BY <3>4, <3>5
  <2> QED BY <2>1, <2>2
<1>17. /\ r4.ok = TRUE /\ r4.rest = <<>>
       /\ \A v : p.password = {v} => r4.val = v
  <2>1. CASE p.password = {}
    <3>1. o4 = <<>>
      BY <1>5, <2>1, OptStringIs
    <3> QED BY <1>3, <1>13, <1>16, <2>1, <3>1
  <2>2. CASE p.password # {}
    <3>1. PICK v \in Blob : p.password = {v}
      BY <1>1, <2>2, OptionalIs
    <3>2. o4 = AppendString(v)
      BY <1>5, <3>1, OptStringIs
    <3>3. o4 = AppendString(v) \o <<>> /\ <<>> \in Bytes
      BY <3>2, CatEmpty
    <3>4. r4 = Read(v, <<>>)
      BY <1>3, <1>13, <1>16, <2>2, <3>3, BytesBack
    <3>5. r4.ok = TRUE /\ r4.val = v /\ r4.rest = <<>>
      BY <3>4 DEF Read
    <3>6. \A z : p.password = {z} => z = v
      BY <3>1
    <3> QED BY <3>5, <3>6
  <2> QED BY <2>1, <2>2
<1>18. (r1.ok /\ r2.ok /\ r3.ok /\ r4.ok) = TRUE
  BY <1>15, <1>16, <1>17
<1>19. PICK tail : /\ tail = ConnectTail(f, s1)
                   /\ tail = [ok |-> TRUE, topic |-> r1.val, payload |-> r2.val,
                              username |-> r3.val, password |-> r4.val, rest |-> r4.rest]
  BY <1>14, <1>18
<1>20. /\ tail.ok = TRUE /\ tail.rest = <<>> /\ tail.topic = r1.val
       /\ tail.payload = r2.val /\ tail.username = r3.val /\ tail.password = r4.val
  BY <1>17, <1>19
<1>21. tail = ConnectTail(ConnectFlags(p), ConnectOptions(p))
  BY <1>2, <1>9, <1>19
<1> QED BY <1>15, <1>16, <1>17, <1>20, <1>21

\* One position of ValidUTF8, given the positions after it.
UTF8Step(s, v, i) ==
    i > Len(s) \/ \E c \in Characters : Fits(s, i, c) /\ v[i + Len(c)]

\* The protocol's name is a text: validUTF8 takes it.
LEMMA ProtocolNameText == ProtocolName \in Text
<1> DEFINE Solves(s, v) == v = [i \in 1..(Len(s) + 1) |-> UTF8Step(s, v, i)]
<1>1. \A s : ValidUTF8(s) = (CHOOSE v : Solves(s, v))[1]
  BY Zenon DEF ValidUTF8, UTF8Step
<1>2. PICK s : s = ProtocolName
  OBVIOUS
<1>3. /\ s \in Bytes /\ Len(s) = 4 /\ Len(s) + 1 = 5
      /\ \A i \in 1..4 : s[i] \in 1..127
  BY <1>2 DEF ProtocolName, Bytes, Byte
<1>4. ASSUME NEW v, NEW i \in 1..4, v[i + 1] PROVE UTF8Step(s, v, i) = TRUE
  <2>1. PICK c : c = <<1..127>>
    OBVIOUS
  <2>2. c \in Characters
    BY <2>1, Zenon DEF Characters
  <2>3. Len(c) = 1 /\ c[1] = 1..127
    BY <2>1
  <2>4. Fits(s, i, c)
    <3>1. i + 1 - 1 = i /\ i <= Len(s) /\ s[i] \in 1..127
      BY <1>3
    <3> QED BY <2>3, <3>1 DEF Fits
  <2>5. UTF8Step(s, v, i)
    BY <1>4, <2>2, <2>3, <2>4, Zenon DEF UTF8Step
  <2> QED BY <2>5, Zenon DEF UTF8Step
<1>5. ASSUME NEW v PROVE UTF8Step(s, v, 5) = TRUE
  <2>1. 5 > Len(s)
    BY <1>3
  <2>2. UTF8Step(s, v, 5)
    BY <2>1, Zenon DEF UTF8Step
  <2> QED BY <2>2, Zenon DEF UTF8Step
<1>6. \E v : Solves(s, v)
  <2>1. PICK v : v = [i \in 1..5 |-> TRUE]
    OBVIOUS
  <2>2. ASSUME NEW i \in 1..5 PROVE UTF8Step(s, v, i) = TRUE
    <3>1. CASE i = 5
      BY <1>5, <3>1, Zenon
    <3>2. CASE i # 5
      <4>1. i \in 1..4 /\ i + 1 \in 1..5
        BY <3>2
      <4>2. v[i + 1] = TRUE
        BY <2>1, <4>1
      <4>3. v[i + 1]
        BY <4>2, Zenon
      <4> QED BY <1>4, <4>1, <4>3, Zenon
    <3> QED BY <3>1, <3>2, Zenon
  <2>3. [i \in 1..5 |-> UTF8Step(s, v, i)] = [i \in 1..5 |-> TRUE]
    BY <2>2, Zenon
  <2> QED BY <1>3, <2>1, <2>3, Zenon
<1>7. PICK v : Solves(s, v) /\ v = CHOOSE w : Solves(s, w)
  <2> HIDE DEF Solves
  <2> QED BY <1>6
<1>8. \A i \in 1..5 : v[i] = UTF8Step(s, v, i)
  BY <1>3, <1>7, Zenon
<1>9. v[5]
  <2>1. 5 \in 1..5
    OBVIOUS
  <2> QED BY <1>5, <1>8, <2>1, Zenon
<1>10. ASSUME NEW i \in 1..4, v[i + 1] PROVE v[i]
  <2>1. i \in 1..5
    OBVIOUS
  <2> QED BY <1>4, <1>8, <1>10, <2>1, Zenon
<1>11. v[1]
  <2>1. /\ 4 + 1 = 5 /\ 3 + 1 = 4 /\ 2 + 1 = 3 /\ 1 + 1 = 2
        /\ 1 \in 1..4 /\ 2 \in 1..4 /\ 3 \in 1..4 /\ 4 \in 1..4
    OBVIOUS
  <2>2. v[4]
    BY <1>9, <1>10, <2>1, Zenon
  <2>3. v[3]
    BY <1>10, <2>1, <2>2, Zenon
  <2>4. v[2]
    BY <1>10, <2>1, <2>3, Zenon
  <2> QED BY <1>10, <2>1, <2>4, Zenon
<1>12. ValidUTF8(s)
  <2> HIDE DEF Solves
  <2>1. ValidUTF8(s) = v[1]
    BY <1>1, <1>7, Zenon
  <2> QED BY <1>11, <2>1, Zenon
<1>13. Len(s) \in Word
  BY <1>3, SMT DEF Word
<1> QED BY <1>2, <1>3, <1>12, <1>13, Zenon DEF Text, Blob, Bytes

\* A CONNECT's length is its body's, and small.
LEMMA ConnectLengthIs ==
    ASSUME NEW p \in Connect
    PROVE  /\ ConnectOptions(p) \in Bytes
           /\ ConnectLength(p) = 10 + StringSize(p.id) + Len(ConnectOptions(p))
           /\ ConnectLength(p) \in Nat /\ ConnectLength(p) <= MaxRemainingLength
<1>1. /\ p.will \in Optional(Will) /\ p.username \in Optional(Blob)
      /\ p.password \in Optional(Blob) /\ p.id \in Blob
  <2>1. /\ p.will \in Optional(Will) /\ p.username \in Optional(Text)
        /\ p.password \in Optional(Blob) /\ p.id \in Text
    BY DEF Connect
  <2> QED BY <2>1, TextIsBlob
<1>2. PICK wt \in Optional(Blob), wp \in Optional(Blob) :
         wt = {x.topic : x \in p.will} /\ wp = {x.payload : x \in p.will}
  BY <1>1, TextIsBlob
<1>3. PICK o1 \in Bytes, o2 \in Bytes, o3 \in Bytes, o4 \in Bytes :
         /\ o1 = OptString(wt) /\ o2 = OptString(wp)
         /\ o3 = OptString(p.username) /\ o4 = OptString(p.password)
  BY <1>1, OptStringType
<1>4. PICK n1 \in Nat, n2 \in Nat, n3 \in Nat, n4 \in Nat :
         /\ n1 = OptSize(wt) /\ n2 = OptSize(wp)
         /\ n3 = OptSize(p.username) /\ n4 = OptSize(p.password)
         /\ n1 = Len(o1) /\ n2 = Len(o2) /\ n3 = Len(o3) /\ n4 = Len(o4)
  BY <1>1, <1>3, OptStringType
<1>5. n1 < 65538 /\ n2 < 65538 /\ n3 < 65538 /\ n4 < 65538
  <2>1. n1 < 65538
    <3>1. wt \in Optional(Blob)
      BY <1>1
    <3>2. OptSize(wt) < 65538
      BY <3>1, OptStringType, SMT
    <3> QED BY <1>4, <3>2, SMT
  <2>2. n2 < 65538
    <3>1. wp \in Optional(Blob)
      BY <1>1
    <3>2. OptSize(wp) < 65538
      BY <3>1, OptStringType, SMT
    <3> QED BY <1>4, <3>2, SMT
  <2>3. n3 < 65538
    <3>1. p.username \in Optional(Blob)
      BY <1>1
    <3>2. OptSize(p.username) < 65538
      BY <3>1, OptStringType, SMT
    <3> QED BY <1>4, <3>2, SMT
  <2>4. n4 < 65538
    <3>1. p.password \in Optional(Blob)
      BY <1>1
    <3>2. OptSize(p.password) < 65538
      BY <3>1, OptStringType, SMT
    <3> QED BY <1>4, <3>2, SMT
  <2> QED BY <2>1, <2>2, <2>3, <2>4, SMT
<1>6. PICK o12 \in Bytes : o12 = o1 \o o2 /\ Len(o12) = Len(o1) + Len(o2)
  BY Cat
<1>7. PICK o13 \in Bytes : o13 = o12 \o o3 /\ Len(o13) = Len(o12) + Len(o3)
  BY Cat
<1>8. PICK o14 \in Bytes : o14 = o13 \o o4 /\ Len(o14) = Len(o13) + Len(o4)
  BY Cat
<1>9. ConnectOptions(p) = o14
  BY <1>2, <1>3, <1>6, <1>7, <1>8, Zenon DEF ConnectOptions
<1>10. Len(o14) = n1 + n2 + n3 + n4
  BY <1>4, <1>6, <1>7, <1>8, Zenon
<1>11. PICK m \in Nat : m = StringSize(p.id) /\ m < 65538
  <2>1. StringSize(p.id) \in Nat /\ Len(p.id) \in Word
    BY <1>1, AppendType
  <2>2. StringSize(p.id) < 65538
    BY <2>1, SMT DEF Word, StringSize
  <2> QED BY <2>1, <2>2, SMT
<1>12. StringSize(ProtocolName) = 6
  BY SMT DEF StringSize, ProtocolName
<1>13. ConnectLength(p) = 6 + 1 + 1 + 2 + m + n1 + n2 + n3 + n4
  <2>1. /\ OptSize({w.topic : w \in p.will}) = n1 /\ OptSize({w.payload : w \in p.will}) = n2
        /\ OptSize(p.username) = n3 /\ OptSize(p.password) = n4
    BY <1>2, <1>4, Zenon
  <2>2. StringSize(p.id) = m
    BY <1>11, SMT
  <2> QED BY <1>12, <2>1, <2>2, SMT DEF ConnectLength
<1>14. ConnectLength(p) = 10 + m + (n1 + n2 + n3 + n4) /\ ConnectLength(p) \in Nat
  BY <1>13, SMT
<1>15. ConnectLength(p) < 400000
  BY <1>5, <1>11, <1>14, SMT
<1>16. 400000 <= MaxRemainingLength
  BY SMT DEF MaxRemainingLength
<1>17. ConnectLength(p) <= MaxRemainingLength
  <2>1. MaxRemainingLength \in Nat
    BY SMT DEF MaxRemainingLength
  <2> QED BY <1>14, <1>15, <1>16, <2>1, SMT
<1> QED BY <1>9, <1>10, <1>11, <1>14, <1>17, SMT

\* CONNECT.
LEMMA ConnectCarried ==
    ASSUME NEW p \in Connect PROVE Carried(p)
<1>1. /\ p.type = "CONNECT" /\ p.level \in Byte /\ p.clean \in BOOLEAN
      /\ p.keepAlive \in Word /\ p.id \in Text
      /\ p.will \in Optional(Will) /\ p.username \in Optional(Text)
      /\ p.password \in Optional(Blob)
      /\ p = [type |-> "CONNECT", level |-> p.level, clean |-> p.clean,
              keepAlive |-> p.keepAlive, id |-> p.id, will |-> p.will,
              username |-> p.username, password |-> p.password]
  BY DEF Connect
<1>2. PICK f \in Byte :
         /\ f = ConnectFlags(p) /\ ConnectFlagsOK(f)
         /\ Bit(f, 2) = p.clean
         /\ Bit(f, 4) <=> p.will # {}
         /\ Bit(f, 64) <=> p.password # {}
         /\ Bit(f, 128) <=> p.username # {}
         /\ \A w : p.will = {w} => WillQoS(f) = w.qos /\ Bit(f, 32) = w.retain
  BY ConnectFlagBits
<1>3. PICK o \in Bytes : /\ o = ConnectOptions(p)
                         /\ ConnectLength(p) = 10 + StringSize(p.id) + Len(o)
                         /\ ConnectLength(p) \in Nat /\ ConnectLength(p) <= MaxRemainingLength
  BY ConnectLengthIs
<1>4. PICK a \in Bytes, b \in Bytes, d \in Bytes, e \in Bytes :
         /\ a = AppendString(ProtocolName) /\ b = <<p.level, f>>
         /\ d = Uint16(p.keepAlive) /\ e = AppendString(p.id)
         /\ Len(a) = 6 /\ Len(b) = 2 /\ Len(d) = 2 /\ Len(e) = StringSize(p.id)
  <2>1. /\ AppendString(ProtocolName) \in Bytes /\ AppendString(p.id) \in Bytes
        /\ Len(AppendString(ProtocolName)) = StringSize(ProtocolName)
        /\ Len(AppendString(p.id)) = StringSize(p.id)
    BY <1>1, TextIsBlob, ProtocolNameText, AppendType
  <2>2. <<p.level, f>> \in Bytes /\ Len(<<p.level, f>>) = 2
    BY <1>1 DEF Bytes
  <2>3. StringSize(ProtocolName) = 6
    BY SMT DEF StringSize, ProtocolName
  <2>4. Uint16(p.keepAlive) \in Bytes /\ Len(Uint16(p.keepAlive)) = 2
    BY <1>1, Uint16Type
  <2> QED BY <2>1, <2>2, <2>3, <2>4
<1>5. PICK ab \in Bytes : ab = a \o b /\ Len(ab) = Len(a) + Len(b)
  BY Cat
<1>6. PICK ad \in Bytes : ad = ab \o d /\ Len(ad) = Len(ab) + Len(d)
  BY Cat
<1>7. PICK ae \in Bytes : ae = ad \o e /\ Len(ae) = Len(ad) + Len(e)
  BY Cat
<1>8. PICK body \in Bytes : body = ae \o o /\ Len(body) = Len(ae) + Len(o)
  BY Cat
<1>9. Len(body) = ConnectLength(p)
  <2>1. Len(body) = 6 + 2 + 2 + StringSize(p.id) + Len(o)
    BY <1>4, <1>5, <1>6, <1>7, <1>8, ZenonT(60)
  <2>2. StringSize(p.id) \in Nat /\ Len(o) \in Nat
    BY <1>1, TextIsBlob, AppendType DEF Bytes
  <2> QED BY <1>3, <2>1, <2>2
<1>10. Encode(p) = Encoded(p.type, 0, Len(body), body)
  <2>1. Encode(p) = EncodeConnect(p)
    BY <1>1 DEF Encode, Acks, Simples
  <2>2. EncodeConnect(p) = Encoded("CONNECT", 0, ConnectLength(p), body)
    BY <1>2, <1>3, <1>4, <1>5, <1>6, <1>7, <1>8, Zenon DEF EncodeConnect
  <2> QED BY <1>1, <1>9, <2>1, <2>2
<1>11. DecodeBody(p.type, 0, body) = p
  <2>1. DecodeBody(p.type, 0, body) = DecodeConnect(body)
    BY <1>1 DEF DecodeBody, Acks, Simples
  <2>2. PICK head : head = ConnectHead(body)
    OBVIOUS
  <2>3. head = [ok |-> TRUE, name |-> ProtocolName, level |-> p.level, flags |-> f,
                keepAlive |-> p.keepAlive, id |-> p.id, rest |-> o]
    <3>1. body = (((AppendString(ProtocolName) \o <<p.level, f>>) \o Uint16(p.keepAlive))
                     \o AppendString(p.id)) \o o
      BY <1>4, <1>5, <1>6, <1>7, <1>8, Zenon
    <3> QED BY <1>1, <2>2, <3>1, ProtocolNameText, ConnectHeadBack
  <2>4. /\ head.ok = TRUE /\ head.name = ProtocolName /\ head.level = p.level
        /\ head.flags = f /\ head.keepAlive = p.keepAlive /\ head.id = p.id /\ head.rest = o
    BY <2>3
  <2>5. PICK tail : tail = ConnectTail(f, o)
    OBVIOUS
  <2>6. /\ tail.ok = TRUE /\ tail.rest = <<>>
        /\ \A w : p.will = {w} => tail.topic = w.topic /\ tail.payload = w.payload
        /\ \A u : p.username = {u} => tail.username = u
        /\ \A v : p.password = {v} => tail.password = v
    BY <1>2, <1>3, <2>5, ConnectTailBack
  <2>7. DecodeConnect(body) = ConnectOf(head, tail)
    BY <2>2, <2>4, <2>5 DEF DecodeConnect
  <2>8. PICK w : w = IF Bit(f, 4) THEN {[topic |-> tail.topic, payload |-> tail.payload,
                                         qos |-> WillQoS(f), retain |-> Bit(f, 32)]} ELSE {}
    OBVIOUS
  <2>9. w = p.will
    <3>1. CASE p.will = {}
      BY <1>2, <2>8, <3>1
    <3>2. CASE p.will # {}
      <4>1. PICK x \in Will : p.will = {x}
        BY <1>1, <3>2, OptionalIs
      <4>2. x = [topic |-> x.topic, payload |-> x.payload, qos |-> x.qos,
                 retain |-> x.retain]
        BY DEF Will
      <4>3. /\ tail.topic = x.topic /\ tail.payload = x.payload
            /\ WillQoS(f) = x.qos /\ Bit(f, 32) = x.retain
        BY <1>2, <2>6, <4>1
      <4>4. Bit(f, 4)
        BY <1>2, <3>2
      <4> QED BY <2>8, <4>1, <4>2, <4>3, <4>4
    <3> QED BY <3>1, <3>2
  <2>10. PICK u : u = IF Bit(f, 128) THEN {tail.username} ELSE {}
    OBVIOUS
  <2>11. u = p.username
    <3>1. CASE p.username = {}
      BY <1>2, <2>10, <3>1
    <3>2. CASE p.username # {}
      <4>1. PICK x \in Text : p.username = {x}
        BY <1>1, <3>2, OptionalIs
      <4> QED BY <1>2, <2>6, <2>10, <4>1
    <3> QED BY <3>1, <3>2
  <2>12. PICK v : v = IF Bit(f, 64) THEN {tail.password} ELSE {}
    OBVIOUS
  <2>13. v = p.password
    <3>1. CASE p.password = {}
      BY <1>2, <2>12, <3>1
    <3>2. CASE p.password # {}
      <4>1. PICK x \in Blob : p.password = {x}
        BY <1>1, <3>2, OptionalIs
      <4> QED BY <1>2, <2>6, <2>12, <4>1
    <3> QED BY <3>1, <3>2
  <2>14. ConnectOf(head, tail)
           = [type |-> "CONNECT", level |-> head.level, clean |-> Bit(f, 2),
              keepAlive |-> head.keepAlive, id |-> head.id, will |-> w, username |-> u,
              password |-> v]
    BY <1>2, <2>4, <2>6, <2>8, <2>10, <2>12 DEF ConnectOf
  <2> QED BY <1>1, <1>2, <2>1, <2>4, <2>7, <2>9, <2>11, <2>13, <2>14
<1>12. Carries(p, 0, body)
  <2>1. p.type \in PacketTypes /\ 0 \in 0..15 /\ ValidateFlags(p.type, 0)
    BY <1>1, TypesAre DEF PacketTypes, RequiredFlags, ValidateFlags
  <2>2. Len(body) <= MaxRemainingLength
    BY <1>3, <1>9
  <2> QED BY <1>8, <1>10, <1>11, <2>1, <2>2 DEF Carries
<1> QED BY <1>12 DEF Carried

----------------------------------------------------------------------------
(***************************************************************************)
(* SUBSCRIBE and UNSUBSCRIBE: the encoders' loops and the decoders'.       *)
(***************************************************************************)
\* One turn of each loop, from what the turn before left.
LengthTurn(t, s, g, k) == IF k = 0 THEN 2 ELSE g[k - 1] + EntrySize(t, s[k])
BytesTurn(t, s, g, k)  == IF k = 0 THEN <<>> ELSE g[k - 1] \o Entry(t, s[k])
DecodeTurn(t, s, g, k) ==
    IF k = 0 THEN Read(<<>>, s)
    ELSE IF g[k - 1].ok /\ g[k - 1].rest # <<>> THEN NextFilter(t, g[k - 1]) ELSE g[k - 1]

\* The sizes are added up turn by turn: the recursion has a solution.
LEMMA LengthUnfolds ==
    ASSUME NEW t, NEW s, Len(s) \in Nat
    PROVE  LET g == FiltersLength(t, s)
           IN  g = [k \in 0..Len(s) |-> LengthTurn(t, s, g, k)]
<1> DEFINE Solves(g, m) == g = [k \in 0..m |-> LengthTurn(t, s, g, k)]
           T == {m \in Nat : \E g : Solves(g, m)}
<1>1. ASSUME NEW g, NEW h, NEW k \in Nat, k = 0 \/ g[k - 1] = h[k - 1]
      PROVE  LengthTurn(t, s, g, k) = LengthTurn(t, s, h, k)
  BY <1>1, Zenon DEF LengthTurn
<1>2. 0 \in T
  <2>1. PICK h : h = <<>>
    OBVIOUS
  <2>2. PICK g : g = [k \in 0..0 |-> LengthTurn(t, s, h, k)]
    OBVIOUS
  <2>3. \A k \in 0..0 : k \in Nat /\ k = 0
    OBVIOUS
  <2>4. \A k \in 0..0 : LengthTurn(t, s, g, k) = LengthTurn(t, s, h, k)
    BY <1>1, <2>3, Zenon
  <2>5. Solves(g, 0)
    BY <2>2, <2>4, Zenon
  <2> QED BY <2>5
<1>3. ASSUME NEW m \in Nat, m \in T PROVE m + 1 \in T
  <2>1. PICK g : Solves(g, m)
    BY <1>3
  <2>2. PICK h : h = [k \in 0..(m + 1) |-> IF k = m + 1 THEN LengthTurn(t, s, g, k) ELSE g[k]]
    OBVIOUS
  <2>3. \A k \in 0..m : g[k] = LengthTurn(t, s, g, k)
    BY <2>1, Zenon
  <2>4. \A k \in 0..m : h[k] = g[k]
    BY <2>2
  <2>5. ASSUME NEW k \in 0..(m + 1) PROVE LengthTurn(t, s, h, k) = LengthTurn(t, s, g, k)
    <3>1. k \in Nat /\ (k = 0 \/ k - 1 \in 0..m)
      OBVIOUS
    <3> QED BY <1>1, <2>4, <3>1, Zenon
  <2>6. \A k \in 0..(m + 1) : k = m + 1 \/ k \in 0..m
    OBVIOUS
  <2>7. \A k \in 0..(m + 1) : h[k] = LengthTurn(t, s, h, k)
    <3> SUFFICES ASSUME NEW k \in 0..(m + 1) PROVE h[k] = LengthTurn(t, s, h, k)
      OBVIOUS
    <3>1. LengthTurn(t, s, h, k) = LengthTurn(t, s, g, k)
      BY <2>5
    <3>2. h[k] = IF k = m + 1 THEN LengthTurn(t, s, g, k) ELSE g[k]
      BY <2>2
    <3>3. k # m + 1 => g[k] = LengthTurn(t, s, g, k)
      BY <2>3, <2>6
    <3> QED BY <3>1, <3>2, <3>3
  <2>8. h = [k \in 0..(m + 1) |-> h[k]]
    BY <2>2
  <2>9. Solves(h, m + 1)
    BY <2>7, <2>8, Zenon
  <2> QED BY <2>9
<1>4. Len(s) \in T
  <2> HIDE DEF T
  <2>1. Nat \subseteq T
    BY <1>2, <1>3, SetInduction
  <2> QED BY <2>1
<1>5. \E g : Solves(g, Len(s))
  BY <1>4
<1>6. FiltersLength(t, s) = CHOOSE g : Solves(g, Len(s))
  BY Zenon DEF FiltersLength, LengthTurn
<1>7. Solves(FiltersLength(t, s), Len(s))
  <2> HIDE DEF Solves
  <2> QED BY <1>5, <1>6
<1> QED BY <1>7

\* So are the bytes put together.
LEMMA BytesUnfolds ==
    ASSUME NEW t, NEW s, Len(s) \in Nat
    PROVE  LET g == FiltersBytes(t, s)
           IN  g = [k \in 0..Len(s) |-> BytesTurn(t, s, g, k)]
<1> DEFINE Solves(g, m) == g = [k \in 0..m |-> BytesTurn(t, s, g, k)]
           T == {m \in Nat : \E g : Solves(g, m)}
<1>1. ASSUME NEW g, NEW h, NEW k \in Nat, k = 0 \/ g[k - 1] = h[k - 1]
      PROVE  BytesTurn(t, s, g, k) = BytesTurn(t, s, h, k)
  BY <1>1, Zenon DEF BytesTurn
<1>2. 0 \in T
  <2>1. PICK h : h = <<>>
    OBVIOUS
  <2>2. PICK g : g = [k \in 0..0 |-> BytesTurn(t, s, h, k)]
    OBVIOUS
  <2>3. \A k \in 0..0 : k \in Nat /\ k = 0
    OBVIOUS
  <2>4. \A k \in 0..0 : BytesTurn(t, s, g, k) = BytesTurn(t, s, h, k)
    BY <1>1, <2>3, Zenon
  <2>5. Solves(g, 0)
    BY <2>2, <2>4, Zenon
  <2> QED BY <2>5
<1>3. ASSUME NEW m \in Nat, m \in T PROVE m + 1 \in T
  <2>1. PICK g : Solves(g, m)
    BY <1>3
  <2>2. PICK h : h = [k \in 0..(m + 1) |-> IF k = m + 1 THEN BytesTurn(t, s, g, k) ELSE g[k]]
    OBVIOUS
  <2>3. \A k \in 0..m : g[k] = BytesTurn(t, s, g, k)
    BY <2>1, Zenon
  <2>4. \A k \in 0..m : h[k] = g[k]
    BY <2>2
  <2>5. ASSUME NEW k \in 0..(m + 1) PROVE BytesTurn(t, s, h, k) = BytesTurn(t, s, g, k)
    <3>1. k \in Nat /\ (k = 0 \/ k - 1 \in 0..m)
      OBVIOUS
    <3> QED BY <1>1, <2>4, <3>1, Zenon
  <2>6. \A k \in 0..(m + 1) : k = m + 1 \/ k \in 0..m
    OBVIOUS
  <2>7. \A k \in 0..(m + 1) : h[k] = BytesTurn(t, s, h, k)
    <3> SUFFICES ASSUME NEW k \in 0..(m + 1) PROVE h[k] = BytesTurn(t, s, h, k)
      OBVIOUS
    <3>1. BytesTurn(t, s, h, k) = BytesTurn(t, s, g, k)
      BY <2>5
    <3>2. h[k] = IF k = m + 1 THEN BytesTurn(t, s, g, k) ELSE g[k]
      BY <2>2
    <3>3. k # m + 1 => g[k] = BytesTurn(t, s, g, k)
      BY <2>3, <2>6
    <3> QED BY <3>1, <3>2, <3>3
  <2>8. h = [k \in 0..(m + 1) |-> h[k]]
    BY <2>2
  <2>9. Solves(h, m + 1)
    BY <2>7, <2>8, Zenon
  <2> QED BY <2>9
<1>4. Len(s) \in T
  <2> HIDE DEF T
  <2>1. Nat \subseteq T
    BY <1>2, <1>3, SetInduction
  <2> QED BY <2>1
<1>5. \E g : Solves(g, Len(s))
  BY <1>4
<1>6. FiltersBytes(t, s) = CHOOSE g : Solves(g, Len(s))
  BY Zenon DEF FiltersBytes, BytesTurn
<1>7. Solves(FiltersBytes(t, s), Len(s))
  <2> HIDE DEF Solves
  <2> QED BY <1>5, <1>6
<1> QED BY <1>7

\* So are the filters read.
LEMMA LoopUnfolds ==
    ASSUME NEW t, NEW s, Len(s) \in Nat
    PROVE  LET g == FilterLoop(t, s)
           IN  g = [k \in 0..Len(s) |-> DecodeTurn(t, s, g, k)]
<1> DEFINE Solves(g, m) == g = [k \in 0..m |-> DecodeTurn(t, s, g, k)]
           T == {m \in Nat : \E g : Solves(g, m)}
<1>1. ASSUME NEW g, NEW h, NEW k \in Nat, k = 0 \/ g[k - 1] = h[k - 1]
      PROVE  DecodeTurn(t, s, g, k) = DecodeTurn(t, s, h, k)
  BY <1>1, Zenon DEF DecodeTurn
<1>2. 0 \in T
  <2>1. PICK h : h = <<>>
    OBVIOUS
  <2>2. PICK g : g = [k \in 0..0 |-> DecodeTurn(t, s, h, k)]
    OBVIOUS
  <2>3. \A k \in 0..0 : k \in Nat /\ k = 0
    OBVIOUS
  <2>4. \A k \in 0..0 : DecodeTurn(t, s, g, k) = DecodeTurn(t, s, h, k)
    BY <1>1, <2>3, Zenon
  <2>5. Solves(g, 0)
    BY <2>2, <2>4, Zenon
  <2> QED BY <2>5
<1>3. ASSUME NEW m \in Nat, m \in T PROVE m + 1 \in T
  <2>1. PICK g : Solves(g, m)
    BY <1>3
  <2>2. PICK h : h = [k \in 0..(m + 1) |-> IF k = m + 1 THEN DecodeTurn(t, s, g, k) ELSE g[k]]
    OBVIOUS
  <2>3. \A k \in 0..m : g[k] = DecodeTurn(t, s, g, k)
    BY <2>1, Zenon
  <2>4. \A k \in 0..m : h[k] = g[k]
    BY <2>2
  <2>5. ASSUME NEW k \in 0..(m + 1) PROVE DecodeTurn(t, s, h, k) = DecodeTurn(t, s, g, k)
    <3>1. k \in Nat /\ (k = 0 \/ k - 1 \in 0..m)
      OBVIOUS
    <3> QED BY <1>1, <2>4, <3>1, Zenon
  <2>6. \A k \in 0..(m + 1) : k = m + 1 \/ k \in 0..m
    OBVIOUS
  <2>7. \A k \in 0..(m + 1) : h[k] = DecodeTurn(t, s, h, k)
    <3> SUFFICES ASSUME NEW k \in 0..(m + 1) PROVE h[k] = DecodeTurn(t, s, h, k)
      OBVIOUS
    <3>1. DecodeTurn(t, s, h, k) = DecodeTurn(t, s, g, k)
      BY <2>5
    <3>2. h[k] = IF k = m + 1 THEN DecodeTurn(t, s, g, k) ELSE g[k]
      BY <2>2
    <3>3. k # m + 1 => g[k] = DecodeTurn(t, s, g, k)
      BY <2>3, <2>6
    <3> QED BY <3>1, <3>2, <3>3
  <2>8. h = [k \in 0..(m + 1) |-> h[k]]
    BY <2>2
  <2>9. Solves(h, m + 1)
    BY <2>7, <2>8, Zenon
  <2> QED BY <2>9
<1>4. Len(s) \in T
  <2> HIDE DEF T
  <2>1. Nat \subseteq T
    BY <1>2, <1>3, SetInduction
  <2> QED BY <2>1
<1>5. \E g : Solves(g, Len(s))
  BY <1>4
<1>6. FilterLoop(t, s) = CHOOSE g : Solves(g, Len(s))
  BY Zenon DEF FilterLoop, DecodeTurn
<1>7. Solves(FilterLoop(t, s), Len(s))
  <2> HIDE DEF Solves
  <2> QED BY <1>5, <1>6
<1> QED BY <1>7

\* What one turn writes and reads: a filter, whose QoS is 0 in an UNSUBSCRIBE.
Kinds      == {"SUBSCRIBE", "UNSUBSCRIBE"}
Entries(t) == {f \in [filter : Text, qos : 0..2] : t = "UNSUBSCRIBE" => f.qos = 0}

\* The bytes of an entry: as many as its size says, and at least one.
LEMMA EntryType ==
    ASSUME NEW t \in Kinds, NEW f \in Entries(t)
    PROVE  /\ Entry(t, f) \in Bytes /\ Len(Entry(t, f)) = EntrySize(t, f)
           /\ EntrySize(t, f) \in Nat /\ EntrySize(t, f) > 0
<1>1. f.filter \in Blob /\ f.qos \in 0..2
  BY TextIsBlob, Zenon DEF Entries
<1>2. PICK a \in Bytes : /\ a = AppendString(f.filter) /\ Len(a) = StringSize(f.filter)
                         /\ Len(a) \in Nat /\ Len(a) >= 2
  <2>1. /\ AppendString(f.filter) \in Bytes /\ Len(f.filter) \in Nat
        /\ Len(AppendString(f.filter)) = StringSize(f.filter)
    BY <1>1, AppendType DEF Bytes
  <2> QED BY <2>1 DEF StringSize
<1>3. PICK q \in Bytes : /\ q = (IF t = "SUBSCRIBE" THEN <<f.qos>> ELSE <<>>)
                         /\ Len(q) = (IF t = "SUBSCRIBE" THEN 1 ELSE 0)
  <2>1. f.qos \in Byte
    BY <1>1 DEF Byte
  <2>2. <<f.qos>> \in Bytes /\ Len(<<f.qos>>) = 1
    BY <2>1 DEF Bytes
  <2>3. <<>> \in Bytes /\ Len(<<>>) = 0
    BY DEF Bytes
  <2> QED BY <2>2, <2>3
<1>4. a \o q \in Bytes /\ Len(a \o q) = Len(a) + Len(q)
  BY Cat
<1>5. Entry(t, f) = a \o q
  BY <1>2, <1>3, Zenon DEF Entry
<1>6. EntrySize(t, f) = Len(a) + Len(q)
  BY <1>2, <1>3, Zenon DEF EntrySize
<1> QED BY <1>2, <1>3, <1>4, <1>5, <1>6

\* A turn of the decoder reads the entry that a turn of the encoder wrote.
LEMMA EntryBack ==
    ASSUME NEW t \in Kinds, NEW f \in Entries(t), NEW u \in Bytes, NEW r,
           r.rest = Entry(t, f) \o u
    PROVE  NextFilter(t, r) = Read(Append(r.val, f), u)
<1>1. f.filter \in Text /\ f.qos \in 0..2 /\ f = [filter |-> f.filter, qos |-> f.qos]
  BY DEF Entries
<1>2. t = "UNSUBSCRIBE" => f.qos = 0
  BY DEF Entries
<1>3. PICK a \in Bytes : a = AppendString(f.filter)
  BY <1>1, TextIsBlob, AppendType
<1>4. PICK q \in Bytes : q = (IF t = "SUBSCRIBE" THEN <<f.qos>> ELSE <<>>)
  <2>1. f.qos \in Byte
    BY <1>1 DEF Byte
  <2>2. <<f.qos>> \in Bytes /\ <<>> \in Bytes
    BY <2>1, EmptySeq DEF Bytes
  <2> QED BY <2>2
<1>5. PICK qu \in Bytes : qu = q \o u
  BY Cat
<1>6. r.rest = a \o qu
  <2>1. Entry(t, f) = a \o q
    BY <1>3, <1>4, Zenon DEF Entry
  <2>2. Nested(a, q, u)
    BY NestedAll
  <2> QED BY <1>5, <2>1, <2>2, Zenon DEF Nested
<1>7. PICK filter : filter = StringValue(r.rest) /\ filter = Read(f.filter, qu)
  BY <1>1, <1>3, <1>6, StringBack
<1>8. filter.ok = TRUE /\ filter.val = f.filter /\ filter.rest = qu
  BY <1>7 DEF Read
<1>9. PICK qos : /\ qos = IF t = "SUBSCRIBE" THEN ByteValue(filter.rest)
                          ELSE Absent(filter.rest)
                 /\ qos = Read(f.qos, u)
  <2>1. CASE t = "SUBSCRIBE"
    <3>1. f.qos \in Byte
      BY <1>1 DEF Byte
    <3>2. qu = <<f.qos>> \o u
      BY <1>4, <1>5, <2>1
    <3> QED BY <1>8, <2>1, <3>1, <3>2, ByteBack
  <2>2. CASE t = "UNSUBSCRIBE"
    <3>1. qu = u
      BY <1>4, <1>5, <2>2, CatEmpty
    <3> QED BY <1>2, <1>8, <2>2, <3>1 DEF Absent
  <2> QED BY <2>1, <2>2 DEF Kinds
<1>10. qos.ok = TRUE /\ qos.val = f.qos /\ qos.rest = u /\ qos.val <= 2
  BY <1>1, <1>9 DEF Read
<1>11. NextFilter(t, r)
         = [ok |-> filter.ok /\ qos.ok /\ qos.val <= 2,
            val |-> Append(r.val, [filter |-> filter.val, qos |-> qos.val]),
            rest |-> qos.rest]
  BY <1>7, <1>9, Zenon DEF NextFilter
<1>12. (filter.ok /\ qos.ok /\ qos.val <= 2) = TRUE
  BY <1>8, <1>10
<1>13. [filter |-> filter.val, qos |-> qos.val] = f
  BY <1>1, <1>8, <1>10, Zenon
<1> QED BY <1>10, <1>11, <1>12, <1>13, Zenon DEF Read

\* The encoders' loops: the bytes and the length that goes before them agree after
\* every turn, and every turn writes something.
LEMMA FiltersType ==
    ASSUME NEW t \in Kinds, NEW fs \in Seq(Entries(t))
    PROVE  \A k \in 0..Len(fs) :
              /\ FiltersBytes(t, fs)[k] \in Bytes
              /\ FiltersLength(t, fs)[k] = 2 + Len(FiltersBytes(t, fs)[k])
              /\ Len(FiltersBytes(t, fs)[k]) \in Nat
              /\ Len(FiltersBytes(t, fs)[k]) >= k
<1>1. Len(fs) \in Nat
  OBVIOUS
<1>2. PICK B, L : B = FiltersBytes(t, fs) /\ L = FiltersLength(t, fs)
  OBVIOUS
<1>3. /\ B = [k \in 0..Len(fs) |-> BytesTurn(t, fs, B, k)]
      /\ L = [k \in 0..Len(fs) |-> LengthTurn(t, fs, L, k)]
  <2>1. B = [k \in 0..Len(fs) |-> BytesTurn(t, fs, B, k)]
    <3>1. FiltersBytes(t, fs) = [k \in 0..Len(fs) |-> BytesTurn(t, fs, FiltersBytes(t, fs), k)]
      BY <1>1, BytesUnfolds
    <3> QED BY <1>2, <3>1, Zenon
  <2>2. L = [k \in 0..Len(fs) |-> LengthTurn(t, fs, L, k)]
    <3>1. FiltersLength(t, fs)
            = [k \in 0..Len(fs) |-> LengthTurn(t, fs, FiltersLength(t, fs), k)]
      BY <1>1, LengthUnfolds
    <3> QED BY <1>2, <3>1, Zenon
  <2> QED BY <2>1, <2>2
<1>4. \A k \in 0..Len(fs) : B[k] = BytesTurn(t, fs, B, k) /\ L[k] = LengthTurn(t, fs, L, k)
  BY <1>3, Zenon
<1> DEFINE Good(k) == /\ B[k] \in Bytes /\ L[k] = 2 + Len(B[k])
                      /\ Len(B[k]) \in Nat /\ Len(B[k]) >= k
           T == {k \in Nat : k <= Len(fs) => Good(k)}
<1>5. 0 \in T
  <2>1. 0 \in 0..Len(fs)
    BY <1>1
  <2>2. B[0] = <<>> /\ L[0] = 2
    BY <1>4, <2>1, Zenon DEF BytesTurn, LengthTurn
  <2>3. <<>> \in Bytes /\ Len(<<>>) = 0
    BY DEF Bytes
  <2> QED BY <2>2, <2>3
<1>6. ASSUME NEW k \in Nat, k \in T PROVE k + 1 \in T
  <2> SUFFICES ASSUME k + 1 <= Len(fs) PROVE Good(k + 1)
    OBVIOUS
  <2>1. Good(k)
    BY <1>1, <1>6
  <2>2. k + 1 \in 0..Len(fs) /\ k + 1 \in 1..Len(fs) /\ k + 1 # 0 /\ (k + 1) - 1 = k
    BY <1>1
  <2>3. PICK f \in Entries(t) : f = fs[k + 1]
    BY <2>2
  <2>4. B[k + 1] = B[k] \o Entry(t, f) /\ L[k + 1] = L[k] + EntrySize(t, f)
    BY <1>4, <2>2, <2>3, Zenon DEF BytesTurn, LengthTurn
  <2>5. PICK e \in Bytes : /\ e = Entry(t, f) /\ Len(e) = EntrySize(t, f)
                           /\ Len(e) \in Nat /\ Len(e) > 0
    BY EntryType, Zenon
  <2>6. PICK b \in Bytes : b = B[k]
    BY <2>1
  <2>7. b \o e \in Bytes /\ Len(b \o e) = Len(b) + Len(e)
    BY Cat
  <2>8. B[k + 1] \in Bytes /\ Len(B[k + 1]) = Len(b) + Len(e) /\ L[k + 1] = L[k] + Len(e)
    BY <2>4, <2>5, <2>6, <2>7, Zenon
  <2> QED BY <2>1, <2>5, <2>6, <2>8, SMTT(60)
<1> HIDE DEF T
<1>7. Nat \subseteq T
  BY <1>5, <1>6, SetInduction
<1>8. \A k \in 0..Len(fs) : k \in Nat /\ k <= Len(fs)
  BY <1>1
<1> QED BY <1>2, <1>7, <1>8, Zenon DEF T

\* What a turn of the encoder adds comes after what was there.
LEMMA FiltersGrow ==
    ASSUME NEW t \in Kinds, NEW fs \in Seq(Entries(t)), NEW k \in 0..Len(fs)
    PROVE  /\ FiltersBytes(t, fs)[0] = <<>>
           /\ \A i \in 0..(Len(fs) - 1) :
                 FiltersBytes(t, fs)[i + 1] = FiltersBytes(t, fs)[i] \o Entry(t, fs[i + 1])
           /\ \E u \in Bytes : FiltersBytes(t, fs)[Len(fs)] = FiltersBytes(t, fs)[k] \o u
<1>1. Len(fs) \in Nat /\ k \in Nat /\ k <= Len(fs)
  OBVIOUS
<1>2. PICK B : B = FiltersBytes(t, fs)
  OBVIOUS
<1>3. B = [i \in 0..Len(fs) |-> BytesTurn(t, fs, B, i)]
  <2>1. FiltersBytes(t, fs) = [i \in 0..Len(fs) |-> BytesTurn(t, fs, FiltersBytes(t, fs), i)]
    BY <1>1, BytesUnfolds
  <2> QED BY <1>2, <2>1, Zenon
<1>4. \A i \in 0..Len(fs) : B[i] = BytesTurn(t, fs, B, i)
  BY <1>3, Zenon
<1>5. \A i \in 0..Len(fs) : B[i] \in Bytes
  BY <1>2, FiltersType, Zenon
<1>6. ASSUME NEW i \in 0..(Len(fs) - 1) PROVE B[i + 1] = B[i] \o Entry(t, fs[i + 1])
  <2>1. i + 1 \in 0..Len(fs) /\ i + 1 # 0 /\ (i + 1) - 1 = i
    BY <1>1
  <2> QED BY <1>4, <2>1, Zenon DEF BytesTurn
<1>7. B[0] = <<>>
  <2>1. 0 \in 0..Len(fs)
    BY <1>1
  <2> QED BY <1>4, <2>1, Zenon DEF BytesTurn
<1> DEFINE T == {d \in Nat : k + d <= Len(fs) => \E u \in Bytes : B[k + d] = B[k] \o u}
<1>8. 0 \in T
  <2>1. k + 0 = k
    BY <1>1
  <2>2. B[k] \o <<>> = B[k] /\ <<>> \in Bytes
    BY <1>5, CatEmpty
  <2> QED BY <2>1, <2>2
<1>9. ASSUME NEW d \in Nat, d \in T PROVE d + 1 \in T
  <2> SUFFICES ASSUME k + (d + 1) <= Len(fs)
               PROVE  \E u \in Bytes : B[k + (d + 1)] = B[k] \o u
    OBVIOUS
  <2>1. PICK i \in 0..(Len(fs) - 1) : i = k + d
    BY <1>1
  <2>2. i <= Len(fs) /\ i + 1 \in 1..Len(fs) /\ k + (d + 1) = i + 1
    BY <1>1, <2>1
  <2>3. PICK u \in Bytes : B[i] = B[k] \o u
    BY <1>9, <2>1, <2>2
  <2>4. PICK e \in Bytes : e = Entry(t, fs[i + 1])
    <3>1. fs[i + 1] \in Entries(t)
      BY <2>2
    <3> QED BY <3>1, EntryType
  <2>5. PICK b \in Bytes : b = B[k]
    BY <1>5
  <2>6. B[i + 1] = (b \o u) \o e
    BY <1>6, <2>3, <2>4, <2>5, Zenon
  <2>7. Nested(b, u, e)
    BY NestedAll
  <2>8. B[i + 1] = b \o (u \o e) /\ u \o e \in Bytes
    BY <2>6, <2>7, Cat DEF Nested
  <2> QED BY <2>2, <2>5, <2>8
<1>10. \E u \in Bytes : B[Len(fs)] = B[k] \o u
  <2> HIDE DEF T
  <2>1. Nat \subseteq T
    BY <1>8, <1>9, SetInduction
  <2>2. PICK d \in Nat : k + d = Len(fs)
    BY <1>1
  <2>3. d \in T
    BY <2>1
  <2>4. k + d <= Len(fs)
    BY <1>1, <2>2
  <2>5. \E u \in Bytes : B[k + d] = B[k] \o u
    BY <2>3, <2>4 DEF T
  <2> QED BY <2>2, <2>5, Zenon
<1> QED BY <1>2, <1>6, <1>7, <1>10, Zenon

\* One more element.
LEMMA OneMore ==
    ASSUME NEW S, NEW s \in Seq(S), NEW k \in 0..(Len(s) - 1)
    PROVE  Append(SubSeq(s, 1, k), s[k + 1]) = SubSeq(s, 1, k + 1)
<1>1. Len(s) \in Nat /\ k \in Nat /\ k + 1 <= Len(s) /\ k + 1 \in 1..Len(s)
  OBVIOUS
<1>2. PICK a \in Seq(S) : /\ a = SubSeq(s, 1, k) /\ Len(a) = k
                         /\ \A i \in 1..k : a[i] = s[i]
  <2>1. SubSeq(s, 1, k) \in Seq(S) /\ Len(SubSeq(s, 1, k)) = k
    BY <1>1
  <2>2. \A i \in 1..k : SubSeq(s, 1, k)[i] = s[i]
    BY <1>1
  <2> QED BY <2>1, <2>2
<1>3. PICK b \in Seq(S) : /\ b = SubSeq(s, 1, k + 1) /\ Len(b) = k + 1
                         /\ \A i \in 1..(k + 1) : b[i] = s[i]
  <2>1. SubSeq(s, 1, k + 1) \in Seq(S) /\ Len(SubSeq(s, 1, k + 1)) = k + 1
    BY <1>1
  <2>2. \A i \in 1..(k + 1) : SubSeq(s, 1, k + 1)[i] = s[i]
    BY <1>1
  <2> QED BY <2>1, <2>2
<1>4. s[k + 1] \in S
  BY <1>1
<1>5. PICK c \in Seq(S) : /\ c = Append(a, s[k + 1]) /\ Len(c) = k + 1
                         /\ (\A i \in 1..k : c[i] = a[i]) /\ c[k + 1] = s[k + 1]
  <2>1. Append(a, s[k + 1]) \in Seq(S) /\ Len(Append(a, s[k + 1])) = k + 1
    BY <1>2, <1>4
  <2>2. /\ \A i \in 1..k : Append(a, s[k + 1])[i] = a[i]
        /\ Append(a, s[k + 1])[k + 1] = s[k + 1]
    BY <1>2, <1>4
  <2> QED BY <2>1, <2>2
<1>6. \A i \in 1..Len(c) : c[i] = b[i]
  BY <1>1, <1>2, <1>3, <1>5
<1>7. c = b
  BY <1>3, <1>5, <1>6, SeqEqual, Zenon
<1> QED BY <1>2, <1>3, <1>5, <1>7

\* The decoders' loop reads what the encoders' wrote.
LEMMA LoopBack ==
    ASSUME NEW t \in Kinds, NEW fs \in Seq(Entries(t)), NEW body \in Bytes,
           body = FiltersBytes(t, fs)[Len(fs)]
    PROVE  FilterLoop(t, body)[Len(body)] = Read(fs, <<>>)
<1>1. PICK n \in Nat : n = Len(fs)
  OBVIOUS
<1>2. Len(body) \in Nat
  BY DEF Bytes
<1>3. PICK B : B = FiltersBytes(t, fs)
  OBVIOUS
<1>4. \A k \in 0..n : B[k] \in Bytes /\ Len(B[k]) \in Nat /\ Len(B[k]) >= k
  BY <1>1, <1>3, FiltersType
<1>5. n <= Len(body) /\ body = B[n]
  BY <1>1, <1>3, <1>4
<1>6. /\ B[0] = <<>>
      /\ \A k \in 0..(n - 1) : B[k + 1] = B[k] \o Entry(t, fs[k + 1])
  <2>1. 0 \in 0..Len(fs)
    OBVIOUS
  <2> QED BY <1>1, <1>3, <2>1, FiltersGrow
<1>7. \A k \in 0..n : \E u \in Bytes : body = B[k] \o u
  BY <1>1, <1>3, FiltersGrow
<1>8. PICK after : after = FilterLoop(t, body)
  OBVIOUS
<1>9. \A k \in 0..Len(body) : after[k] = DecodeTurn(t, body, after, k)
  <2>1. FilterLoop(t, body)
          = [k \in 0..Len(body) |-> DecodeTurn(t, body, FilterLoop(t, body), k)]
    BY <1>2, LoopUnfolds
  <2> QED BY <1>8, <2>1, Zenon
<1> DEFINE Good(k) == after[k] = Read(SubSeq(fs, 1, k), From(body, Len(B[k]) + 1))
           T == {k \in Nat : k <= n => Good(k)}
<1>10. 0 \in T
  <2>1. 0 \in 0..Len(body)
    BY <1>2
  <2>2. after[0] = Read(<<>>, body)
    BY <1>9, <2>1, Zenon DEF DecodeTurn
  <2>3. SubSeq(fs, 1, 0) = <<>>
    OBVIOUS
  <2>4. From(body, Len(B[0]) + 1) = body
    <3>1. <<>> \o body = body /\ <<>> \in Bytes /\ Len(<<>>) = 0
      BY CatEmpty
    <3>2. From(<<>> \o body, Len(<<>>) + 1) = body
      BY <3>1, FirstAndRest
    <3> QED BY <1>6, <3>1, <3>2, Zenon
  <2> QED BY <2>2, <2>3, <2>4, Zenon
<1>11. ASSUME NEW k \in Nat, k \in T PROVE k + 1 \in T
  <2> SUFFICES ASSUME k + 1 <= n PROVE Good(k + 1)
    OBVIOUS
  <2>1. /\ k <= n /\ k \in 0..n /\ k + 1 \in 0..n /\ k \in 0..(n - 1) /\ k + 1 \in 1..n
        /\ k + 1 \in 0..Len(body) /\ k + 1 # 0 /\ (k + 1) - 1 = k
    BY <1>2, <1>5
  <2>2. PICK v, r : v = SubSeq(fs, 1, k) /\ r = after[k]
    OBVIOUS
  <2>3. PICK f \in Entries(t) : f = fs[k + 1]
    BY <1>1, <2>1
  <2>4. PICK e \in Bytes : e = Entry(t, f) /\ Len(e) > 0 /\ Len(e) \in Nat
    BY EntryType, Zenon
  <2>5. PICK u \in Bytes : body = B[k + 1] \o u
    BY <1>7, <2>1
  <2>6. PICK b \in Bytes : b = B[k]
    BY <1>4, <2>1
  <2>7. PICK eu \in Bytes : eu = e \o u /\ Len(eu) = Len(e) + Len(u) /\ Len(u) \in Nat
    BY Cat
  <2>8. PICK be \in Bytes : be = b \o e
    BY Cat
  <2>9. B[k + 1] = be
    BY <1>6, <2>1, <2>3, <2>4, <2>6, <2>8
  <2>10. body = b \o eu
    <3>1. Nested(b, e, u)
      BY NestedAll
    <3> QED BY <2>5, <2>7, <2>8, <2>9, <3>1, Zenon DEF Nested
  <2>11. From(body, Len(b) + 1) = eu /\ From(body, Len(be) + 1) = u
    <3>1. From(b \o eu, Len(b) + 1) = eu
      BY FirstAndRest
    <3>2. From(be \o u, Len(be) + 1) = u
      BY FirstAndRest
    <3> QED BY <2>5, <2>9, <2>10, <3>1, <3>2, Zenon
  <2>12. r = Read(v, eu)
    BY <1>11, <2>1, <2>2, <2>6, <2>11, Zenon
  <2>13. r.ok = TRUE /\ r.val = v /\ r.rest = eu
    BY <2>12 DEF Read
  <2>14. eu # <<>>
    <3>1. Len(<<>>) = 0
      OBVIOUS
    <3> QED BY <2>4, <2>7, <3>1
  <2>15. after[k + 1] = NextFilter(t, r)
    <3>1. after[k + 1] = DecodeTurn(t, body, after, k + 1)
      BY <1>9, <2>1
    <3> QED BY <2>1, <2>2, <2>13, <2>14, <3>1, Zenon DEF DecodeTurn
  <2>16. NextFilter(t, r) = Read(Append(r.val, f), u)
    <3>1. r.rest = Entry(t, f) \o u
      BY <2>4, <2>7, <2>13, Zenon
    <3> QED BY <3>1, EntryBack, Zenon
  <2>17. Append(v, f) = SubSeq(fs, 1, k + 1)
    BY <1>1, <2>1, <2>2, <2>3, OneMore
  <2> QED BY <2>9, <2>11, <2>13, <2>15, <2>16, <2>17, Zenon
<1>12. after[n] = Read(fs, <<>>)
  <2> HIDE DEF T
  <2>1. Nat \subseteq T
    BY <1>10, <1>11, SetInduction
  <2>2. Good(n)
    BY <2>1 DEF T
  <2>3. SubSeq(fs, 1, n) = fs
    BY <1>1, SubSeqFull
  <2>4. From(body, Len(B[n]) + 1) = <<>>
    <3>1. body \o <<>> = body /\ <<>> \in Bytes
      BY CatEmpty
    <3>2. From(body \o <<>>, Len(body) + 1) = <<>>
      BY <3>1, FirstAndRest
    <3> QED BY <1>5, <3>1, <3>2, Zenon
  <2> QED BY <2>2, <2>3, <2>4, Zenon
<1> DEFINE U == {d \in Nat : n + d <= Len(body) => after[n + d] = Read(fs, <<>>)}
<1>13. 0 \in U
  <2>1. n + 0 = n
    OBVIOUS
  <2> QED BY <1>12, <2>1
<1>14. ASSUME NEW d \in Nat, d \in U PROVE d + 1 \in U
  <2> SUFFICES ASSUME n + (d + 1) <= Len(body)
               PROVE  after[n + (d + 1)] = Read(fs, <<>>)
    OBVIOUS
  <2>1. PICK m \in Nat : m = n + d
    OBVIOUS
  <2>2. /\ n + d <= Len(body) /\ n + (d + 1) = m + 1 /\ m + 1 \in 0..Len(body)
        /\ m + 1 # 0 /\ (m + 1) - 1 = m
    BY <1>2, <2>1
  <2>3. after[m] = Read(fs, <<>>)
    BY <1>14, <2>1, <2>2
  <2>4. after[m].rest = <<>>
    BY <2>3 DEF Read
  <2>5. after[m + 1] = DecodeTurn(t, body, after, m + 1)
    BY <1>9, <2>2
  <2>6. after[m + 1] = after[m]
    BY <2>2, <2>4, <2>5, Zenon DEF DecodeTurn
  <2> QED BY <2>2, <2>3, <2>6, Zenon
<1> HIDE DEF U
<1>15. Nat \subseteq U
  BY <1>13, <1>14, SetInduction
<1>16. PICK d \in Nat : n + d = Len(body)
  BY <1>2, <1>5, SMTT(60)
<1>17. after[n + d] = Read(fs, <<>>)
  <2>1. n + d <= Len(body)
    BY <1>2, <1>16
  <2> QED BY <1>15, <2>1 DEF U
<1> QED BY <1>8, <1>16, <1>17, Zenon

\* SUBSCRIBE and UNSUBSCRIBE.
LEMMA SubscribeCarried ==
    ASSUME NEW p \in Subscribe PROVE Carried(p)
<1>1. /\ p.type \in Kinds /\ p.id \in Word /\ p.id # 0
      /\ p.filters \in Seq([filter : Text, qos : 0..2])
      /\ p = [type |-> p.type, id |-> p.id, filters |-> p.filters]
  BY DEF Subscribe, FilterList, Kinds
<1>2. /\ p.filters # <<>>
      /\ p.type = "UNSUBSCRIBE" => \A i \in 1..Len(p.filters) : p.filters[i].qos = 0
      /\ FiltersLength(p.type, p.filters)[Len(p.filters)] <= MaxRemainingLength
  BY Zenon DEF Subscribe
<1>3. PICK t \in Kinds : t = p.type
  BY <1>1
<1>4. PICK fs \in Seq(Entries(t)) : fs = p.filters /\ Len(fs) \in Nat /\ fs # <<>>
  <2>1. \A i \in 1..Len(p.filters) : p.filters[i] \in [filter : Text, qos : 0..2]
    BY <1>1, ElementOfSeq, Zenon
  <2>2. \A i \in 1..Len(p.filters) : p.filters[i] \in Entries(t)
    BY <1>2, <1>3, <2>1, Zenon DEF Entries
  <2>3. p.filters \in [1..Len(p.filters) -> Entries(t)] /\ Len(p.filters) \in Nat
    BY <1>1, <2>2
  <2>4. p.filters \in Seq(Entries(t))
    BY <2>3, SeqDef
  <2> QED BY <1>2, <2>3, <2>4
<1>5. PICK b \in Bytes : /\ b = FiltersBytes(t, fs)[Len(fs)]
                         /\ FiltersLength(t, fs)[Len(fs)] = 2 + Len(b) /\ Len(b) \in Nat
  <2>1. Len(fs) \in 0..Len(fs)
    BY <1>4
  <2> QED BY <2>1, FiltersType
<1>6. PICK u \in Bytes : u = Uint16(p.id) /\ Len(u) = 2
  BY <1>1, Uint16Type
<1>7. PICK body \in Bytes : body = u \o b /\ Len(body) = 2 + Len(b)
  <2>1. u \o b \in Bytes /\ Len(u \o b) = Len(u) + Len(b)
    BY Cat
  <2> QED BY <1>6, <2>1
<1>8. PICK flags : flags = RequiredFlags(t)
  OBVIOUS
<1>9. t \in PacketTypes /\ flags \in 0..15 /\ ValidateFlags(t, flags)
  BY <1>8, TypesAre DEF Kinds, PacketTypes, RequiredFlags, ValidateFlags
<1>10. Encode(p) = Encoded(t, flags, Len(body), body)
  <2>1. Encode(p) = EncodeFilters(p)
    BY <1>1 DEF Encode, Acks, Simples, Kinds
  <2>2. EncodeFilters(p) = Encoded(t, flags, FiltersLength(t, fs)[Len(fs)],
                                   u \o FiltersBytes(t, fs)[Len(fs)])
    BY <1>1, <1>2, <1>3, <1>4, <1>6, <1>8, Zenon DEF EncodeFilters
  <2> QED BY <1>5, <1>7, <2>1, <2>2, Zenon
<1>11. DecodeBody(t, flags, body) = p
  <2>1. DecodeBody(t, flags, body) = DecodeFilters(t, body)
    BY DEF DecodeBody, Acks, Simples, Kinds
  <2>2. PICK id : id = Uint16Value(body) /\ id = Read(p.id, b)
    BY <1>1, <1>6, <1>7, Uint16Back
  <2>3. id.ok = TRUE /\ id.val = p.id /\ id.rest = b
    BY <2>2 DEF Read
  <2>4. PICK read : read = FilterLoop(t, b)[Len(b)] /\ read = Read(fs, <<>>)
    BY <1>5, LoopBack
  <2>5. read.ok = TRUE /\ read.val = fs
    BY <2>4 DEF Read
  <2>6. DecodeFilters(t, body) = [type |-> t, id |-> p.id, filters |-> fs]
    BY <1>1, <1>4, <2>2, <2>3, <2>4, <2>5, Zenon DEF DecodeFilters
  <2> QED BY <1>1, <1>3, <1>4, <2>1, <2>6, Zenon
<1>12. Len(body) <= MaxRemainingLength
  BY <1>2, <1>3, <1>4, <1>5, <1>7
<1>13. Carries(p, flags, body)
  BY <1>3, <1>7, <1>9, <1>10, <1>11, <1>12, Zenon DEF Carries
<1> QED BY <1>13 DEF Carried
----------------------------------------------------------------------------
(***************************************************************************)
(* What is encoded is decoded again.                                       *)
(***************************************************************************)
\* Every packet that the format can carry is carried.
LEMMA EveryPacketCarried == \A p \in Packet : Carried(p)
  BY ConnectCarried, ConnackCarried, PublishCarried, AckCarried, SimpleCarried,
     SubscribeCarried, SubackCarried, Zenon DEF Packet

\* Decode undoes Encode for every packet that the format can carry: nothing of a
\* packet is lost between the encoders of packet.go and its decoders.
THEOREM DecodeUndoesEncode == \A p \in Packet : Decode(Encode(p)) = p
<1> SUFFICES ASSUME NEW p \in Packet PROVE Decode(Encode(p)) = p
  OBVIOUS
<1>1. PICK flags, body : Carries(p, flags, body)
  BY EveryPacketCarried DEF Carried
<1>2. /\ p.type \in PacketTypes /\ ValidateFlags(p.type, flags)
      /\ flags \in 0..15 /\ body \in Bytes /\ Len(body) <= MaxRemainingLength
      /\ Encode(p) = Encoded(p.type, flags, Len(body), body)
      /\ DecodeBody(p.type, flags, body) = p
  BY <1>1, Zenon DEF Carries
<1>3. <<>> \in Bytes
  BY EmptySeq DEF Bytes
<1>4. Decode(Encoded(p.type, flags, Len(body), body) \o <<>>) = DecodeBody(p.type, flags, body)
  BY <1>2, <1>3, EncodedRead
<1>5. Encoded(p.type, flags, Len(body), body) \in Bytes
  BY <1>2, EncodedType
<1>6. Encoded(p.type, flags, Len(body), body) \o <<>> = Encoded(p.type, flags, Len(body), body)
  BY <1>5, CatEmpty
<1> QED BY <1>2, <1>4, <1>6, Zenon

\* The remaining length survives for every length that four bytes can spell, and
\* takes as many bytes as remainingLengthSize reckons.
THEOREM LengthSurvives ==
    \A n \in 0..MaxRemainingLength :
        DecodeRemainingLength(EncodeRemainingLength(n))
            = [ok |-> TRUE, value |-> n, consumed |-> RemainingLengthSize(n)]
<1> SUFFICES ASSUME NEW n \in 0..MaxRemainingLength
             PROVE  DecodeRemainingLength(EncodeRemainingLength(n))
                      = [ok |-> TRUE, value |-> n, consumed |-> RemainingLengthSize(n)]
  OBVIOUS
<1>1. PICK s \in Seq(Byte) : s = EncodeRemainingLength(n) /\ Len(s) = RemainingLengthSize(n)
                             /\ RemainingLengthSize(n) \in 1..4
  BY EncodedDigits
<1>2. RemainingLengthSize(n) <= Len(s)
  BY <1>1
<1>3. \A i \in 1..RemainingLengthSize(n) : s[i] = EncodeRemainingLength(n)[i]
  BY <1>1
<1> QED BY <1>1, <1>2, <1>3, LengthReadBack

\* Every set of packets and of lengths survives, whatever the connection does.
THEOREM RoundTripAlways == NoneAltered /\ (Spec => []RoundTrip)
<1>1. Altered(Packets) = {}
  BY WireAssumption, DecodeUndoesEncode, Zenon DEF Altered
<1>2. Miscounted(Lengths) = {}
  BY WireAssumption, LengthSurvives, Zenon DEF Miscounted
<1>3. NoneAltered
  BY <1>1, <1>2, Zenon DEF NoneAltered
<1>4. RoundTrip
  BY <1>3, Zenon DEF RoundTrip
<1> QED BY <1>3, <1>4, PTL
----------------------------------------------------------------------------
(***************************************************************************)
(* Packets stay apart on a stream.                                         *)
(***************************************************************************)
\* Where the length in some bytes ends.
LEMMA BytesLengthEnd ==
    \A s \in Bytes :
        \/ LengthEnd(s) = 0
        \/ /\ LengthEnd(s) \in 1..4 /\ LengthEnd(s) <= Len(s)
           /\ ~Bit(s[LengthEnd(s)], 128)
           /\ \A i \in 1..(LengthEnd(s) - 1) : Bit(s[i], 128)
  BY LengthEndFound DEF Bytes

\* A length is read from its own bytes, whatever follows them.
LEMMA LengthAlone ==
    ASSUME NEW v \in Bytes, NEW w \in Bytes, NEW m \in 1..4, m = LengthEnd(v),
           m <= Len(w), \A i \in 1..m : w[i] = v[i]
    PROVE  LengthEnd(w) = m /\ DecodeRemainingLength(w) = DecodeRemainingLength(v)
<1>1. ~Bit(v[m], 128) /\ \A i \in 1..(m - 1) : Bit(v[i], 128)
  <2>1. \/ m = 0
        \/ ~Bit(v[m], 128) /\ \A i \in 1..(m - 1) : Bit(v[i], 128)
    BY LengthEndFound DEF Bytes
  <2> QED BY <2>1
<1>2. ~Bit(w[m], 128) /\ \A i \in 1..(m - 1) : Bit(w[i], 128)
  <2>1. m \in 1..m /\ \A i \in 1..(m - 1) : i \in 1..m
    OBVIOUS
  <2> QED BY <1>1, <2>1, Zenon
<1>3. LengthEnd(w) = m
  BY <1>2, LengthEndIs DEF Bytes
<1> DEFINE digit(s, i) == IF i <= m THEN (s[i] % 128) * Multiplier[i] ELSE 0
<1>4. /\ digit(w, 1) = digit(v, 1) /\ digit(w, 2) = digit(v, 2)
      /\ digit(w, 3) = digit(v, 3) /\ digit(w, 4) = digit(v, 4)
  <2>1. /\ 1 <= m => 1 \in 1..m
        /\ 2 <= m => 2 \in 1..m
        /\ 3 <= m => 3 \in 1..m
        /\ 4 <= m => 4 \in 1..m
    OBVIOUS
  <2> QED BY <2>1, Zenon
<1>5. /\ DecodeRemainingLength(w)
           = [ok |-> m > 0, consumed |-> m,
              value |-> digit(w, 1) + digit(w, 2) + digit(w, 3) + digit(w, 4)]
      /\ DecodeRemainingLength(v)
           = [ok |-> m > 0, consumed |-> m,
              value |-> digit(v, 1) + digit(v, 2) + digit(v, 3) + digit(v, 4)]
  BY <1>3 DEF DecodeRemainingLength
<1> HIDE DEF digit
<1> QED BY <1>3, <1>4, <1>5, Zenon

\* What comes after the first byte.
LEMMA TailIs ==
    ASSUME NEW s \in Bytes, s # <<>>
    PROVE  /\ Tail(s) \in Bytes /\ Len(s) \in Nat /\ Len(s) >= 1 /\ Len(Tail(s)) = Len(s) - 1
           /\ \A i \in 1..(Len(s) - 1) : Tail(s)[i] = s[i + 1]
           /\ s[1] \in Byte
<1>1. Len(s) \in Nat /\ Len(s) >= 1
  BY DEF Bytes
<1>2. /\ Tail(s) \in Seq(Byte) /\ Len(Tail(s)) = Len(s) - 1
      /\ \A i \in 1..Len(Tail(s)) : Tail(s)[i] = s[i + 1]
  BY HeadTailProperties DEF Bytes
<1>3. s[1] \in Byte
  BY <1>1 DEF Bytes
<1> QED BY <1>1, <1>2, <1>3 DEF Bytes

\* Reader.ReadPacket and Decode take the same bytes for the same packet, whatever
\* the bytes are, up to the size limit that only the reader has.
THEOREM StreamAgreesWithBuffer ==
    \A buf \in Seq(Byte) \ {<<>>} : ~TooLarge(buf) => ReadFrom(buf).val = Decode(buf)
<1> SUFFICES ASSUME NEW buf \in Bytes, buf # <<>>, ~TooLarge(buf)
             PROVE  ReadFrom(buf).val = Decode(buf)
  BY DEF Bytes
<1>1. PICK v \in Bytes : /\ v = Tail(buf) /\ Len(v) = Len(buf) - 1
                         /\ \A i \in 1..(Len(buf) - 1) : v[i] = buf[i + 1]
  BY TailIs
<1>2. Len(buf) \in Nat /\ Len(buf) >= 1
  BY TailIs
<1>3. PICK m : m = LengthEnd(v)
  OBVIOUS
<1>4. m = 0 \/ (m \in 1..4 /\ m <= Len(v))
  BY <1>3, LengthEndFound DEF Bytes
<1>5. PICK d : d = DecodeRemainingLength(v)
  OBVIOUS
<1>6. d.ok = (m > 0) /\ d.consumed = m
  BY <1>3, <1>5 DEF DecodeRemainingLength
<1>7. \A x, y : Read(x, y).val = x
  BY DEF Read
<1>8. CASE ~HeaderOK(buf[1])
  <2>1. ReadFrom(buf) = Read(Bad, <<>>)
    BY <1>8, Zenon DEF ReadFrom
  <2>2. Decode(buf) = Bad
    BY <1>8, Zenon DEF Decode
  <2> QED BY <1>7, <2>1, <2>2
<1>9. CASE m = 0
  <2>1. ReadFrom(buf) = Read(Bad, <<>>)
    BY <1>1, <1>3, <1>9, Zenon DEF ReadFrom
  <2>2. d.ok = FALSE
    <3>1. (m > 0) = FALSE
      BY <1>9
    <3> QED BY <1>6, <3>1, Zenon
  <2>3. Decode(buf) = Bad
    BY <1>1, <1>5, <2>2, Zenon DEF Decode
  <2> QED BY <1>7, <2>1, <2>3
<1>10. CASE HeaderOK(buf[1]) /\ m # 0
  <2>1. m \in 1..4 /\ m \in Nat /\ m <= Len(v) /\ ~(Len(buf) < 2) /\ 1 + m <= Len(buf)
        /\ (1 + m) + 1 = 2 + m
    BY <1>1, <1>2, <1>4, <1>10
  <2>2. PICK w \in Bytes : /\ w = SubSeq(buf, 2, 1 + m) /\ Len(w) = m
                           /\ \A i \in 1..m : w[i] = buf[i + 1]
    <3>1. /\ SubSeq(buf, 2, 1 + m) \in Bytes
          /\ Len(SubSeq(buf, 2, 1 + m)) = (1 + m) - 2 + 1
          /\ \A i \in 1..((1 + m) - 2 + 1) : SubSeq(buf, 2, 1 + m)[i] = buf[2 + i - 1]
      BY <2>1, Part
    <3>2. (1 + m) - 2 + 1 = m /\ \A i \in 1..m : 2 + i - 1 = i + 1
      BY <2>1
    <3> QED BY <3>1, <3>2, ZenonT(60)
  <2>3. DecodeRemainingLength(w) = d
    <3>1. \A i \in 1..m : w[i] = v[i]
      BY <1>1, <1>2, <2>1, <2>2
    <3>2. m <= Len(w)
      BY <2>1, <2>2
    <3> QED BY <1>3, <1>5, <2>1, <3>1, <3>2, LengthAlone
  <2>4. d.ok = TRUE
    <3>1. (m > 0) = TRUE
      BY <2>1
    <3> QED BY <1>6, <3>1, Zenon
  <2>5. ~(d.value > MaxPacketSize)
    BY <1>1, <1>5, Zenon DEF TooLarge
  <2>6. PICK end : end = (1 + m) + d.value
    OBVIOUS
  <2>7. Decode(buf) = IF Len(buf) < end THEN Bad
                      ELSE DecodeBody(Types[buf[1] \div 16], buf[1] % 16,
                                      SubSeq(buf, 2 + m, end))
    BY <1>1, <1>5, <1>6, <1>10, <2>1, <2>4, <2>6, Zenon DEF Decode
  <2>8. ReadFrom(buf) = IF Len(buf) < end THEN Read(Bad, <<>>)
                        ELSE Read(DecodeBody(Types[buf[1] \div 16], buf[1] % 16,
                                             SubSeq(buf, 2 + m, end)), From(buf, end + 1))
    BY <1>1, <1>3, <1>10, <2>2, <2>3, <2>5, <2>6, Zenon DEF ReadFrom
  <2> QED BY <1>7, <2>7, <2>8, Zenon
<1> QED BY <1>8, <1>9, <1>10

\* A packet that is written, with more after it, is read and leaves what is after.
LEMMA ReadBack ==
    ASSUME NEW p \in Packet, ~TooLarge(Encode(p)), NEW rest \in Bytes
    PROVE  /\ ReadFrom(Encode(p) \o rest) = Read(p, rest)
           /\ Encode(p) \in Bytes
<1>1. PICK flags, body : Carries(p, flags, body)
  BY EveryPacketCarried DEF Carried
<1>2. /\ p.type \in PacketTypes /\ ValidateFlags(p.type, flags)
      /\ flags \in 0..15 /\ body \in Bytes /\ Len(body) <= MaxRemainingLength
      /\ Encode(p) = Encoded(p.type, flags, Len(body), body)
      /\ DecodeBody(p.type, flags, body) = p
  BY <1>1, Zenon DEF Carries
<1>3. PICK e \in Bytes : e = Encode(p)
  BY <1>2, EncodedType
<1>4. <<>> \in Bytes /\ e \o <<>> = e
  BY CatEmpty
<1>5. Framed(e, 16 * Nibble(p.type) + flags, RemainingLengthSize(Len(body)), Len(body),
             body, <<>>)
  BY <1>2, <1>3, <1>4, EncodedFramed
<1>6. DecodeRemainingLength(Tail(e)).value = Len(body)
  BY <1>5 DEF Framed
<1>7. Len(body) <= MaxPacketSize
  <2>1. ~(Len(body) > MaxPacketSize)
    BY <1>3, <1>6, Zenon DEF TooLarge
  <2>2. Len(body) \in Nat /\ MaxPacketSize \in Nat
    BY <1>2, CodecAssumption DEF CodecAssumption, Bytes
  <2> QED BY <2>1, <2>2
<1>8. ReadFrom(Encoded(p.type, flags, Len(body), body) \o rest)
        = Read(DecodeBody(p.type, flags, body), rest)
  BY <1>2, <1>7, EncodedRead
<1> QED BY <1>2, <1>3, <1>8, Zenon

\* A stream that breaks off inside a packet gives none.
LEMMA CutOff ==
    ASSUME NEW p \in Packet, NEW j \in Nat, j < Len(Encode(p))
    PROVE  ReadFrom(SubSeq(Encode(p), 1, j)).val = Bad
<1>1. PICK flags, body : Carries(p, flags, body)
  BY EveryPacketCarried DEF Carried
<1>2. /\ p.type \in PacketTypes /\ ValidateFlags(p.type, flags)
      /\ flags \in 0..15 /\ body \in Bytes /\ Len(body) <= MaxRemainingLength
      /\ Encode(p) = Encoded(p.type, flags, Len(body), body)
  BY <1>1, Zenon DEF Carries
<1>3. PICK k, n : k = RemainingLengthSize(Len(body)) /\ n = Len(body)
  OBVIOUS
<1>4. PICK e \in Bytes : e = Encode(p) /\ Len(e) = 1 + k + n
  BY <1>2, <1>3, EncodedType
<1>5. <<>> \in Bytes /\ e \o <<>> = e
  BY CatEmpty
<1>6. Framed(e, 16 * Nibble(p.type) + flags, k, n, body, <<>>)
  BY <1>2, <1>3, <1>4, <1>5, EncodedFramed
<1>7. /\ k \in 1..4 /\ k \in Nat /\ n \in Nat /\ LengthEnd(Tail(e)) = k
      /\ DecodeRemainingLength(Tail(e)).value = n
      /\ Len(e) \in Nat /\ Len(e) >= 2 /\ e # <<>>
  BY <1>6 DEF Framed, Bytes
<1>8. PICK v \in Bytes : /\ v = Tail(e) /\ Len(v) = Len(e) - 1
                         /\ \A i \in 1..(Len(e) - 1) : v[i] = e[i + 1]
  BY <1>7, TailIs
<1>9. PICK s \in Bytes : s = SubSeq(e, 1, j) /\ Len(s) = j /\ \A i \in 1..j : s[i] = e[i]
  <2>1. /\ SubSeq(e, 1, j) \in Bytes /\ Len(SubSeq(e, 1, j)) = j - 1 + 1
        /\ \A i \in 1..(j - 1 + 1) : SubSeq(e, 1, j)[i] = e[1 + i - 1]
    BY <1>4, <1>7, Part
  <2>2. j - 1 + 1 = j /\ \A i \in 1..j : 1 + i - 1 = i
    OBVIOUS
  <2> QED BY <2>1, <2>2, Zenon
<1>10. ReadFrom(s) = Read(Bad, <<>>)
  <2>1. CASE s = <<>>
    BY <2>1, Zenon DEF ReadFrom
  <2>2. CASE s # <<>>
    <3>1. PICK w \in Bytes : /\ w = Tail(s) /\ Len(w) = j - 1 /\ j >= 1
                             /\ \A i \in 1..(j - 1) : w[i] = s[i + 1]
      <4>1. /\ Tail(s) \in Bytes /\ Len(s) >= 1 /\ Len(Tail(s)) = Len(s) - 1
            /\ \A i \in 1..(Len(s) - 1) : Tail(s)[i] = s[i + 1]
        BY <2>2, TailIs
      <4> QED BY <1>9, <4>1, Zenon
    <3>2. \A i \in 1..(j - 1) : w[i] = v[i]
      BY <1>4, <1>7, <1>8, <1>9, <3>1
    <3>3. CASE j - 1 < k
      <4>1. LengthEnd(w) = 0
        <5>1. PICK x : x = LengthEnd(w)
          OBVIOUS
        <5>2. \A i \in 1..(k - 1) : Bit(v[i], 128)
          <6>1. \/ k = 0
                \/ \A i \in 1..(k - 1) : Bit(v[i], 128)
            BY <1>7, <1>8, BytesLengthEnd, Zenon
          <6> QED BY <1>7, <6>1
        <5>3. x = 0 \/ (x \in 1..4 /\ x <= Len(w) /\ ~Bit(w[x], 128))
          <6>1. \/ LengthEnd(w) = 0
                \/ /\ LengthEnd(w) \in 1..4 /\ LengthEnd(w) <= Len(w)
                   /\ ~Bit(w[LengthEnd(w)], 128)
            BY BytesLengthEnd
          <6> QED BY <5>1, <6>1
        <5>4. x # 0 => x \in 1..(k - 1) /\ x \in 1..(j - 1)
          BY <1>7, <3>1, <3>3, <5>3
        <5>5. x = 0
          BY <3>2, <5>2, <5>3, <5>4, Zenon
        <5> QED BY <5>1, <5>5
      <4> QED BY <3>1, <4>1, Zenon DEF ReadFrom
    <3>4. CASE ~(j - 1 < k)
      <4>1. k <= Len(w) /\ k <= j - 1 /\ 1 + k <= j
        BY <1>7, <3>1, <3>4
      <4>2. LengthEnd(w) = k
        <5>1. \A i \in 1..k : w[i] = v[i]
          BY <1>7, <3>2, <4>1
        <5> QED BY <1>7, <1>8, <4>1, <5>1, LengthAlone
      <4>3. PICK l \in Bytes : /\ l = SubSeq(s, 2, 1 + k) /\ Len(l) = k
                               /\ \A i \in 1..k : l[i] = s[i + 1]
        <5>1. /\ SubSeq(s, 2, 1 + k) \in Bytes
              /\ Len(SubSeq(s, 2, 1 + k)) = (1 + k) - 2 + 1
              /\ \A i \in 1..((1 + k) - 2 + 1) : SubSeq(s, 2, 1 + k)[i] = s[2 + i - 1]
          <6>1. 2 \in Nat /\ 1 + k \in Nat /\ 2 >= 1 /\ 2 <= (1 + k) + 1 /\ 1 + k <= Len(s)
            BY <1>7, <1>9, <4>1
          <6> QED BY <6>1, Part
        <5>2. (1 + k) - 2 + 1 = k /\ \A i \in 1..k : 2 + i - 1 = i + 1
          BY <1>7
        <5>3. \A i \in 1..k : SubSeq(s, 2, 1 + k)[i] = s[i + 1]
          BY <5>1, <5>2
        <5> QED BY <5>1, <5>2, <5>3
      <4>4. DecodeRemainingLength(l).value = n
        <5>1. \A i \in 1..k : l[i] = v[i]
          BY <1>7, <3>1, <3>2, <4>1, <4>3
        <5>2. k <= Len(l)
          BY <1>7, <4>3
        <5>3. DecodeRemainingLength(l) = DecodeRemainingLength(v)
          BY <1>7, <1>8, <5>1, <5>2, LengthAlone
        <5> QED BY <1>7, <1>8, <5>3
      <4>5. Len(s) < 1 + k + n
        BY <1>4, <1>7, <1>9
      <4> QED BY <3>1, <4>2, <4>3, <4>4, <4>5, Zenon DEF ReadFrom
    <3> QED BY <3>3, <3>4
  <2> QED BY <2>1, <2>2
<1> QED BY <1>4, <1>9, <1>10 DEF Read

\* Of two packets that follow one another on a stream the first is read first and
\* leaves exactly the second, and a stream that breaks off inside a packet gives
\* none: ReadPacket finds every packet's end.
THEOREM PacketsStayApart ==
    \A p, q \in Packet :
        /\ ~TooLarge(Encode(p)) /\ ~TooLarge(Encode(q))
             => /\ ReadFrom(Encode(p) \o Encode(q)) = Read(p, Encode(q))
                /\ ReadFrom(Encode(q)) = Read(q, <<>>)
        /\ \A s \in Prefixes(Encode(p)) \ {Encode(p)} : ReadFrom(s).val = Bad
<1> SUFFICES ASSUME NEW p \in Packet, NEW q \in Packet
             PROVE  /\ ~TooLarge(Encode(p)) /\ ~TooLarge(Encode(q))
                         => /\ ReadFrom(Encode(p) \o Encode(q)) = Read(p, Encode(q))
                            /\ ReadFrom(Encode(q)) = Read(q, <<>>)
                    /\ \A s \in Prefixes(Encode(p)) \ {Encode(p)} : ReadFrom(s).val = Bad
  OBVIOUS
<1>1. ASSUME ~TooLarge(Encode(p)), ~TooLarge(Encode(q))
      PROVE  /\ ReadFrom(Encode(p) \o Encode(q)) = Read(p, Encode(q))
             /\ ReadFrom(Encode(q)) = Read(q, <<>>)
  <2>1. <<>> \in Bytes
    BY EmptySeq DEF Bytes
  <2>2. ReadFrom(Encode(q) \o <<>>) = Read(q, <<>>) /\ Encode(q) \in Bytes
    BY <1>1, <2>1, ReadBack
  <2>3. Encode(q) \o <<>> = Encode(q)
    BY <2>2, CatEmpty
  <2>4. ReadFrom(Encode(p) \o Encode(q)) = Read(p, Encode(q))
    BY <1>1, <2>2, ReadBack
  <2> QED BY <2>2, <2>3, <2>4, Zenon
<1>2. ASSUME NEW s \in Prefixes(Encode(p)), s # Encode(p) PROVE ReadFrom(s).val = Bad
  <2>1. PICK flags, body : Carries(p, flags, body)
    BY EveryPacketCarried DEF Carried
  <2>2. PICK e \in Bytes : e = Encode(p)
    <3>1. /\ p.type \in PacketTypes /\ ValidateFlags(p.type, flags)
          /\ flags \in 0..15 /\ body \in Bytes /\ Len(body) <= MaxRemainingLength
          /\ Encode(p) = Encoded(p.type, flags, Len(body), body)
      BY <2>1, Zenon DEF Carries
    <3> QED BY <3>1, EncodedType
  <2>3. PICK j \in 0..Len(e) : s = SubSeq(e, 1, j)
    BY <1>2, <2>2 DEF Prefixes
  <2>4. Len(e) \in Nat /\ SubSeq(e, 1, Len(e)) = e
    BY SubSeqFull DEF Bytes
  <2>5. j # Len(e)
    BY <1>2, <2>2, <2>3, <2>4
  <2>6. j \in Nat /\ j < Len(e)
    <3>1. Len(e) \in Nat /\ j \in 0..Len(e) /\ j # Len(e)
      BY <2>4, <2>5
    <3> QED BY <3>1
  <2> QED BY <2>2, <2>3, <2>6, CutOff
<1> QED BY <1>1, <1>2

\* Every set of packets and of inputs is framed, whatever the connection does.
THEOREM FramingAlways == AllFramed /\ (Spec => []Framing)
<1>1. Smeared(Packets) = {}
  <2> DEFINE sent  == {p \in Packets : \E e \in {Encode(p)} : ~TooLarge(e)}
             after == {<<>>} \cup {Encode(q) : q \in sent}
  <2>1. ASSUME NEW p \in sent PROVE p \in Packet /\ ~TooLarge(Encode(p))
    BY WireAssumption, Zenon DEF WireAssumption
  <2>2. ASSUME NEW rest \in after PROVE rest \in Bytes
    <3>1. <<>> \in Bytes
      BY EmptySeq DEF Bytes
    <3>2. ASSUME NEW q \in sent PROVE Encode(q) \in Bytes
      BY <2>1, <3>1, ReadBack, Zenon
    <3> QED BY <3>1, <3>2, Zenon
  <2>3. ASSUME NEW p \in sent, NEW rest \in after
        PROVE  ReadFrom(Encode(p) \o rest) = Read(p, rest)
    BY <2>1, <2>2, ReadBack, Zenon
  <2>4. ASSUME NEW p \in sent, NEW s \in Prefixes(Encode(p)) \ {Encode(p)}
        PROVE  ReadFrom(s).val = Bad
    BY <2>1, PacketsStayApart, Zenon
  <2> HIDE DEF sent, after
  <2>5. Smeared(Packets)
          = {p \in sent : \E e \in {Encode(p)} :
               \/ \E rest \in after : \E s \in {e \o rest} : ReadFrom(s) # Read(p, rest)
               \/ \E s \in Prefixes(e) \ {e} : ReadFrom(s).val # Bad}
    BY Zenon DEF Smeared, sent, after
  <2>6. ASSUME NEW p \in sent
        PROVE  ~\E e \in {Encode(p)} :
                   \/ \E rest \in after : \E s \in {e \o rest} : ReadFrom(s) # Read(p, rest)
                   \/ \E s \in Prefixes(e) \ {e} : ReadFrom(s).val # Bad
    BY <2>3, <2>4, ZenonT(60)
  <2> QED BY <2>5, <2>6, Zenon
<1>2. Disputed(Inputs) = {}
  BY WireAssumption, StreamAgreesWithBuffer, Zenon DEF Disputed, WireAssumption
<1>3. AllFramed
  BY <1>1, <1>2, Zenon DEF AllFramed
<1>4. Framing
  BY <1>3, Zenon DEF Framing
<1> QED BY <1>3, <1>4, PTL
----------------------------------------------------------------------------
(***************************************************************************)
(* What is decoded was encoded.                                            *)
(***************************************************************************)
\* A number that is put together from four digits, and one that is taken apart.
Spells(n, a, b, c, d) ==
    /\ a \in Nat /\ b \in Nat /\ c \in Nat /\ d \in Nat
    /\ a < 128 /\ b < 128 /\ c < 128 /\ d < 128
    /\ n = a + b * 128 + c * 16384 + d * 2097152

Digits(n, a, b, c, d) ==
    /\ n \in Nat /\ n < 128 * 2097152
    /\ n % 128 = a /\ (n \div 128) % 128 = b
    /\ (n \div 16384) % 128 = c /\ (n \div 2097152) % 128 = d

\* Four digits make a number whose digits they are.
LEMMA DigitsOf == \A n, a, b, c, d : Spells(n, a, b, c, d) => Digits(n, a, b, c, d)
<1> SUFFICES ASSUME NEW a \in Nat, NEW b \in Nat, NEW c \in Nat, NEW d \in Nat,
                    a < 128, b < 128, c < 128, d < 128,
                    NEW n, n = a + b * 128 + c * 16384 + d * 2097152
             PROVE  /\ n \in Nat /\ n < 128 * 2097152
                    /\ n % 128 = a /\ (n \div 128) % 128 = b
                    /\ (n \div 16384) % 128 = c /\ (n \div 2097152) % 128 = d
  BY SMT DEF Spells, Digits
<1>1. n \in Nat /\ n < 128 * 2097152
  BY SMT
<1>2. PICK x \in Nat : x = b + 128 * c + 16384 * d /\ n = a + 128 * x
  <2>1. b + 128 * c + 16384 * d \in Nat /\ n = a + 128 * (b + 128 * c + 16384 * d)
    BY SMT
  <2> QED BY <2>1, SMT
<1>3. PICK y \in Nat : y = c + 128 * d /\ x = b + 128 * y
  <2>1. c + 128 * d \in Nat /\ x = b + 128 * (c + 128 * d)
    BY <1>2, SMT
  <2> QED BY <2>1, SMT
<1>4. n % 128 = a /\ n \div 128 = x
  BY <1>2, SMT
<1>5. x % 128 = b /\ n \div 16384 = y
  <2>1. x % 128 = b
    BY <1>3, SMT
  <2>2. n = (a + 128 * b) + 16384 * y /\ a + 128 * b < 16384
    BY <1>2, <1>3, SMT
  <2> QED BY <2>1, <2>2, SMT
<1>6. y % 128 = c /\ n \div 2097152 = d
  <2>1. y % 128 = c
    BY <1>3, SMT
  <2>2. n = (a + 128 * b + 16384 * c) + 2097152 * d /\ a + 128 * b + 16384 * c < 2097152
    BY SMT
  <2> QED BY <2>1, <2>2, SMT
<1>7. d % 128 = d
  BY SMT
<1> QED BY <1>1, <1>4, <1>5, <1>6, <1>7, SMT

\* A byte is its value and its continuation bit.
LEMMA ByteBits ==
    ASSUME NEW b \in Byte
    PROVE  /\ b % 128 \in Nat /\ b % 128 < 128
           /\ b = (b % 128) + SetBit(128, Bit(b, 128))
<1>1. b \in Nat /\ b < 256
  BY DEF Byte
<1>2. CASE b < 128
  <2>1. b % 128 = b /\ ~Bit(b, 128)
    BY <1>1, <1>2, SMT DEF Bit
  <2> QED BY <1>1, <1>2, <2>1, SMT DEF SetBit
<1>3. CASE ~(b < 128)
  <2>1. b % 128 = b - 128 /\ Bit(b, 128)
    BY <1>1, <1>3, SMT DEF Bit
  <2> QED BY <1>1, <1>3, <2>1, SMT DEF SetBit
<1> QED BY <1>2, <1>3

\* A length that is read from as few bytes as it needs is spelled the way that
\* the encoder spells it.
LEMMA LengthForth ==
    ASSUME NEW v \in Bytes, NEW m \in 1..4, m = LengthEnd(v), NEW n,
           n = DecodeRemainingLength(v).value, m = RemainingLengthSize(n)
    PROVE  /\ n \in 0..MaxRemainingLength
           /\ \A i \in 1..m : v[i] = EncodeRemainingLength(n)[i]
<1>1. /\ m <= Len(v) /\ ~Bit(v[m], 128) /\ \A i \in 1..(m - 1) : Bit(v[i], 128)
  <2>1. \/ LengthEnd(v) = 0
        \/ /\ LengthEnd(v) \in 1..4 /\ LengthEnd(v) <= Len(v)
           /\ ~Bit(v[LengthEnd(v)], 128)
           /\ \A i \in 1..(LengthEnd(v) - 1) : Bit(v[i], 128)
    BY BytesLengthEnd
  <2>2. m # 0
    OBVIOUS
  <2> QED BY <2>1, <2>2, Zenon
<1>2. \A i \in 1..m : v[i] \in Byte
  BY <1>1 DEF Bytes
<1> DEFINE dig(i) == IF i <= m THEN v[i] % 128 ELSE 0
<1>3. \A i \in 1..4 : dig(i) \in Nat /\ dig(i) < 128
  <2> SUFFICES ASSUME NEW i \in 1..4 PROVE dig(i) \in Nat /\ dig(i) < 128
    OBVIOUS
  <2>1. CASE i <= m
    <3>1. v[i] \in Byte
      BY <1>2, <2>1
    <3> QED BY <2>1, <3>1, ByteBits
  <2>2. CASE ~(i <= m)
    BY <2>2
  <2> QED BY <2>1, <2>2
<1>4. n = dig(1) + dig(2) * 128 + dig(3) * 16384 + dig(4) * 2097152
  <2> DEFINE digit(i) == IF i <= m THEN (v[i] % 128) * Multiplier[i] ELSE 0
  <2>1. n = digit(1) + digit(2) + digit(3) + digit(4)
    <3>1. DecodeRemainingLength(v)
            = [ok |-> m > 0, value |-> digit(1) + digit(2) + digit(3) + digit(4),
               consumed |-> m]
      BY DEF DecodeRemainingLength
    <3> HIDE DEF digit
    <3> QED BY <3>1
  <2>2. \A i \in 1..4 : digit(i) = dig(i) * Multiplier[i]
    <3> SUFFICES ASSUME NEW i \in 1..4 PROVE digit(i) = dig(i) * Multiplier[i]
      OBVIOUS
    <3>1. Multiplier[i] \in Nat
      BY Multipliers, SMT
    <3>2. CASE i <= m
      BY <3>2, Zenon
    <3>3. CASE ~(i <= m)
      <4>1. digit(i) = 0 /\ dig(i) = 0
        BY <3>3, Zenon
      <4> HIDE DEF digit, dig
      <4> QED BY <3>1, <4>1, SMT
    <3> QED BY <3>2, <3>3, Zenon
  <2> HIDE DEF digit, dig
  <2>3. /\ digit(1) = dig(1) * Multiplier[1] /\ digit(2) = dig(2) * Multiplier[2]
        /\ digit(3) = dig(3) * Multiplier[3] /\ digit(4) = dig(4) * Multiplier[4]
    BY <2>2, SMT
  <2>4. dig(1) * 1 = dig(1)
    BY <1>3, SMT
  <2> QED BY <2>1, <2>3, <2>4, Multipliers, SMT
<1>5. \A i \in 1..m : dig(i) = v[i] % 128
  OBVIOUS
<1> HIDE DEF dig
<1>6. /\ n \in Nat /\ n < 128 * 2097152
      /\ n % 128 = dig(1) /\ (n \div 128) % 128 = dig(2)
      /\ (n \div 16384) % 128 = dig(3) /\ (n \div 2097152) % 128 = dig(4)
  <2>1. PICK a \in Nat, b \in Nat, c \in Nat, d \in Nat :
            /\ a = dig(1) /\ b = dig(2) /\ c = dig(3) /\ d = dig(4)
            /\ a < 128 /\ b < 128 /\ c < 128 /\ d < 128
    BY <1>3, SMT
  <2>2. n = a + b * 128 + c * 16384 + d * 2097152
    BY <1>4, <2>1, SMT
  <2>3. /\ n \in Nat /\ n < 128 * 2097152
        /\ n % 128 = a /\ (n \div 128) % 128 = b
        /\ (n \div 16384) % 128 = c /\ (n \div 2097152) % 128 = d
    <3>1. Spells(n, a, b, c, d)
      BY <2>1, <2>2, SMT DEF Spells
    <3>2. Digits(n, a, b, c, d)
      BY <3>1, DigitsOf
    <3> QED BY <3>2, SMT DEF Digits
  <2> QED BY <2>1, <2>3, SMT
<1>7. \A i \in 1..4 : (n \div Multiplier[i]) % 128 = dig(i)
  <2>1. n \div 1 = n
    BY <1>6, SMT
  <2> QED BY <1>6, <2>1, Multipliers, SMT
<1>8. n \in 0..MaxRemainingLength
  <2>1. MaxRemainingLength \in Nat /\ n <= MaxRemainingLength
    BY <1>6, SMT DEF MaxRemainingLength
  <2>2. n \in Nat
    BY <1>6, SMT
  <2> QED BY <2>1, <2>2, SMT
<1>9. ASSUME NEW i \in 1..m PROVE v[i] = EncodeRemainingLength(n)[i]
  <2>1. EncodeRemainingLength(n)[i] = ((n \div Multiplier[i]) % 128) + SetBit(128, i < m)
    BY <1>8, EncodedDigits
  <2>2. (n \div Multiplier[i]) % 128 = v[i] % 128
    <3>1. i \in 1..4
      OBVIOUS
    <3> QED BY <1>5, <1>7, <3>1, Zenon
  <2>3. Bit(v[i], 128) = (i < m)
    <3>1. CASE i = m
      BY <1>1, <3>1 DEF Bit
    <3>2. CASE i # m
      <4>1. i \in 1..(m - 1) /\ i < m
        BY <3>2
      <4> QED BY <1>1, <4>1 DEF Bit
    <3> QED BY <3>1, <3>2
  <2>4. v[i] = (v[i] % 128) + SetBit(128, Bit(v[i], 128))
    BY <1>2, ByteBits
  <2> QED BY <2>1, <2>2, <2>3, <2>4, Zenon
<1> QED BY <1>8, <1>9

\* A refusing CONNACK that claims a session.
ClaimsSession(p) == p.type = "CONNACK" /\ p.sessionPresent /\ p.code # 0

\* Whatever a body decodes to is encoded with that very body.
Stems(t, flags, body) ==
    \A p : p = DecodeBody(t, flags, body) /\ p # Bad /\ ~ClaimsSession(p)
             => Encode(p) = Encoded(t, flags, Len(body), body)

\* A sequence without bytes is the empty one.
LEMMA NoBytes == \A s \in Bytes : Len(s) = 0 => s = <<>>
  BY EmptySeq DEF Bytes

\* Two bytes are a number.
LEMMA TwoByteBody ==
    ASSUME NEW body \in Bytes, Len(body) = 2
    PROVE  /\ Uint16Value(body).val \in Word /\ body = Uint16(Uint16Value(body).val)
<1>1. Uint16Value(body).ok
  BY DEF Uint16Value, Read
<1>2. PICK r : r = Uint16Value(body)
  OBVIOUS
<1>3. r.val \in Word /\ r.rest \in Bytes /\ body = Uint16(r.val) \o r.rest
      /\ Len(body) = 2 + Len(r.rest)
  BY <1>1, <1>2, Uint16Forth
<1>4. Len(r.rest) = 0
  <2>1. Len(r.rest) \in Nat
    BY <1>3 DEF Bytes
  <2>2. 2 = 2 + Len(r.rest)
    BY <1>3, Zenon
  <2> QED BY <2>1, <2>2
<1>5. r.rest = <<>> /\ Uint16(r.val) \in Bytes
  BY <1>3, <1>4, NoBytes, Uint16Type
<1>6. Uint16(r.val) \o <<>> = Uint16(r.val)
  BY <1>5, CatEmpty
<1> QED BY <1>2, <1>3, <1>5, <1>6, Zenon

\* PUBACK, PUBREC, PUBREL, PUBCOMP and UNSUBACK.
LEMMA AckStems ==
    ASSUME NEW t \in Acks, NEW flags, ValidateFlags(t, flags), NEW body \in Bytes
    PROVE  Stems(t, flags, body)
<1>1. flags = RequiredFlags(t)
  BY DEF Acks, ValidateFlags
<1> SUFFICES ASSUME NEW p, p = DecodeBody(t, flags, body), p # Bad
             PROVE  Encode(p) = Encoded(t, flags, Len(body), body)
  BY Zenon DEF Stems
<1>2. p = DecodeAck(t, body)
  BY DEF DecodeBody, Acks, Simples
<1>3. PICK n : n = Uint16Value(body).val
  OBVIOUS
<1>4. Len(body) = 2 /\ n # 0 /\ p = [type |-> t, id |-> n]
  BY <1>2, <1>3, Zenon DEF DecodeAck
<1>5. body = Uint16(n)
  BY <1>3, <1>4, TwoByteBody
<1>6. p.type = t /\ p.id = n
  BY <1>4
<1>7. Encode(p) = EncodeAck(p)
  BY <1>6 DEF Encode, Acks, Simples
<1>8. EncodeAck(p) = Encoded(t, RequiredFlags(t), 2, Uint16(n))
  BY <1>4, <1>6, Zenon DEF EncodeAck
<1> QED BY <1>1, <1>4, <1>5, <1>7, <1>8, Zenon

\* PINGREQ, PINGRESP and DISCONNECT.
LEMMA SimpleStems ==
    ASSUME NEW t \in Simples, NEW flags, ValidateFlags(t, flags), NEW body \in Bytes
    PROVE  Stems(t, flags, body)
<1>1. flags = 0
  BY DEF Simples, ValidateFlags, RequiredFlags
<1> SUFFICES ASSUME NEW p, p = DecodeBody(t, flags, body), p # Bad
             PROVE  Encode(p) = Encoded(t, flags, Len(body), body)
  BY Zenon DEF Stems
<1>2. p = DecodeSimple(t, body)
  BY DEF DecodeBody, Acks, Simples
<1>3. body = <<>> /\ p = [type |-> t]
  BY <1>2, Zenon DEF DecodeSimple
<1>4. p.type = t
  BY <1>3
<1>5. Encode(p) = EncodeSimple(p)
  BY <1>4 DEF Encode, Acks, Simples
<1>6. Len(<<>>) = 0
  OBVIOUS
<1> QED BY <1>1, <1>3, <1>4, <1>5, <1>6, Zenon DEF EncodeSimple

\* CONNACK.
LEMMA ConnackStems ==
    ASSUME NEW flags, ValidateFlags("CONNACK", flags), NEW body \in Bytes
    PROVE  Stems("CONNACK", flags, body)
<1>1. flags = 0
  BY DEF ValidateFlags, RequiredFlags
<1> SUFFICES ASSUME NEW p, p = DecodeBody("CONNACK", flags, body), p # Bad, ~ClaimsSession(p)
             PROVE  Encode(p) = Encoded("CONNACK", flags, Len(body), body)
  BY Zenon DEF Stems
<1>2. p = DecodeConnack(body)
  BY DEF DecodeBody, Acks, Simples
<1>3. /\ Len(body) = 2 /\ body[1] \in {0, 1}
      /\ p = [type |-> "CONNACK", sessionPresent |-> body[1] = 1, code |-> body[2]]
  BY <1>2, Zenon DEF DecodeConnack
<1>4. /\ p.type = "CONNACK" /\ p.sessionPresent = (body[1] = 1) /\ p.code = body[2]
  BY <1>3
<1>5. (body[1] = 1) => body[2] = 0
  BY <1>4, Zenon DEF ClaimsSession
<1>6. PICK x : x = SetBit(1, p.sessionPresent /\ p.code = 0)
  OBVIOUS
<1>7. x = body[1]
  <2>1. CASE body[1] = 1
    <3>1. p.sessionPresent /\ p.code = 0
      BY <1>4, <1>5, <2>1, Zenon
    <3> QED BY <1>6, <2>1, <3>1, Zenon DEF SetBit
  <2>2. CASE body[1] = 0
    <3>1. body[1] # 1
      BY <2>2
    <3>2. ~(p.sessionPresent /\ p.code = 0)
      BY <1>4, <3>1, Zenon
    <3> QED BY <1>6, <2>2, <3>2, Zenon DEF SetBit
  <2> QED BY <1>3, <2>1, <2>2
<1>8. <<body[1], body[2]>> = body
  <2>1. body[1] \in Byte /\ body[2] \in Byte
    <3>1. Len(body) = 2
      BY <1>3, Zenon
    <3>2. 1 \in 1..Len(body) /\ 2 \in 1..Len(body)
      BY <3>1
    <3> QED BY <3>2, ElementOfSeq, Zenon DEF Bytes
  <2>2. PICK c \in Bytes : /\ c = <<body[1], body[2]>> /\ Len(c) = 2
                           /\ c[1] = body[1] /\ c[2] = body[2]
    <3>1. PICK a \in Byte, b \in Byte : a = body[1] /\ b = body[2]
      BY <2>1
    <3>2. <<a, b>> \in Bytes /\ Len(<<a, b>>) = 2 /\ <<a, b>>[1] = a /\ <<a, b>>[2] = b
      BY DEF Bytes
    <3> QED BY <3>1, <3>2, Zenon
  <2>3. \A i \in 1..Len(c) : c[i] = body[i]
    BY <2>2
  <2>4. c = body
    BY <1>3, <2>2, <2>3, SameBytes
  <2> QED BY <2>2, <2>4
<1>9. Encode(p) = ConnackBytes(p)
  BY <1>4 DEF Encode, Acks, Simples
<1>10. ConnackBytes(p) = Encoded("CONNACK", 0, 2, <<x, body[2]>>)
  BY <1>4, <1>6, Zenon DEF ConnackBytes
<1> QED BY <1>1, <1>3, <1>7, <1>8, <1>9, <1>10, Zenon

\* SUBACK.
LEMMA SubackStems ==
    ASSUME NEW flags, ValidateFlags("SUBACK", flags), NEW body \in Bytes
    PROVE  Stems("SUBACK", flags, body)
<1>1. flags = 0
  BY DEF ValidateFlags, RequiredFlags
<1> SUFFICES ASSUME NEW p, p = DecodeBody("SUBACK", flags, body), p # Bad
             PROVE  Encode(p) = Encoded("SUBACK", flags, Len(body), body)
  BY Zenon DEF Stems
<1>2. p = DecodeSuback(body)
  BY DEF DecodeBody, Acks, Simples
<1>3. PICK id : id = Uint16Value(body)
  OBVIOUS
<1>4. /\ Len(body) >= 3 /\ id.val # 0
      /\ p = [type |-> "SUBACK", id |-> id.val, codes |-> id.rest]
  BY <1>2, <1>3, Zenon DEF DecodeSuback
<1>5. id.ok
  <2>1. Len(body) \in Nat
    BY DEF Bytes
  <2>2. ~(Len(body) < 2)
    BY <1>4, <2>1
  <2>3. id = Read(256 * body[1] + body[2], From(body, 3))
    BY <1>3, <2>2, Zenon DEF Uint16Value
  <2> QED BY <2>3 DEF Read
<1>6. body = Uint16(id.val) \o id.rest /\ Len(body) = 2 + Len(id.rest)
  BY <1>3, <1>5, Uint16Forth
<1>7. p.type = "SUBACK" /\ p.id = id.val /\ p.codes = id.rest
  BY <1>4
<1>8. Encode(p) = EncodeSuback(p)
  BY <1>7 DEF Encode, Acks, Simples
<1>9. EncodeSuback(p) = Encoded("SUBACK", 0, 2 + Len(id.rest), Uint16(id.val) \o id.rest)
  BY <1>4, <1>7, Zenon DEF EncodeSuback
<1> QED BY <1>1, <1>6, <1>8, <1>9, Zenon

\* The flags of a PUBLISH are put together from what was read from them.
LEMMA PublishFlagsBack ==
    ASSUME NEW flags \in 0..15, ValidateFlags("PUBLISH", flags)
    PROVE  /\ SetBit(8, Bit(flags, 8)) + 2 * ((flags \div 2) % 4) + SetBit(1, Bit(flags, 1))
                = flags
           /\ (flags \div 2) % 4 \in 0..2
<1>1. (flags \div 2) % 4 # 3
  BY Zenon DEF ValidateFlags
<1>2. flags \in {0, 1, 2, 3, 4, 5, 6, 7, 8, 9, 10, 11, 12, 13, 14, 15}
  BY SMT
<1>3. PICK a, b, q : /\ a = SetBit(8, Bit(flags, 8)) /\ b = SetBit(1, Bit(flags, 1))
                     /\ q = (flags \div 2) % 4
  OBVIOUS
<1>4. a = (IF flags >= 8 THEN 8 ELSE 0)
  BY <1>2, <1>3, SMT DEF Bit, SetBit
<1>5. b = flags % 2
  BY <1>2, <1>3, SMT DEF Bit, SetBit
<1>6. a + 2 * q + b = flags /\ q \in 0..3
  <2>1. q = (flags \div 2) % 4
    BY <1>3, Zenon
  <2>2. CASE flags < 8
    <3>1. a = 0
      BY <1>4, <2>2, SMT
    <3>2. q = flags \div 2 /\ q \in 0..3 /\ 2 * q + b = flags
      BY <1>5, <2>1, <2>2, SMT
    <3> QED BY <3>1, <3>2, SMT
  <2>3. CASE ~(flags < 8)
    <3>1. a = 8
      BY <1>4, <2>3, SMT
    <3>2. q = (flags \div 2) - 4 /\ q \in 0..3 /\ 8 + 2 * q + b = flags
      BY <1>5, <2>1, <2>3, SMT
    <3> QED BY <3>1, <3>2, SMT
  <2> QED BY <2>2, <2>3
<1>7. q # 3 /\ q \in 0..3
  BY <1>1, <1>3, <1>6, Zenon
<1>8. q \in 0..2
  BY <1>7
<1> QED BY <1>3, <1>6, <1>8, Zenon

\* PUBLISH.
LEMMA PublishStems ==
    ASSUME NEW flags \in 0..15, ValidateFlags("PUBLISH", flags), NEW body \in Bytes
    PROVE  Stems("PUBLISH", flags, body)
<1> SUFFICES ASSUME NEW p, p = DecodeBody("PUBLISH", flags, body), p # Bad
             PROVE  Encode(p) = Encoded("PUBLISH", flags, Len(body), body)
  BY Zenon DEF Stems
<1>1. p = DecodePublish(flags, body)
  BY DEF DecodeBody, Acks, Simples
<1>2. PICK qos : qos = (flags \div 2) % 4
  OBVIOUS
<1>3. PICK topic : topic = StringValue(body)
  OBVIOUS
<1>4. PICK id : id = IF HasPacketID(qos) THEN Uint16Value(topic.rest) ELSE Absent(topic.rest)
  OBVIOUS
<1>5. /\ topic.ok /\ id.ok
      /\ HasPacketID(qos) => id.val # 0
      /\ p = [type |-> "PUBLISH", dup |-> Bit(flags, 8), qos |-> qos, retain |-> Bit(flags, 1),
              topic |-> topic.val, id |-> id.val, payload |-> id.rest]
  BY <1>1, <1>2, <1>3, <1>4, Zenon DEF DecodePublish
<1>6. /\ p.type = "PUBLISH" /\ p.qos = qos /\ p.topic = topic.val /\ p.id = id.val
      /\ p.payload = id.rest /\ p.dup = Bit(flags, 8) /\ p.retain = Bit(flags, 1)
  BY <1>5
<1>7. PublishFlags(p) = flags /\ qos \in 0..2
  BY <1>2, <1>6, PublishFlagsBack, Zenon DEF PublishFlags
<1>8. PICK a \in Bytes, r \in Bytes :
         /\ a = AppendString(topic.val) /\ r = topic.rest /\ body = a \o r
         /\ Len(a) = StringSize(topic.val)
  <2>1. /\ topic.val \in Text /\ topic.rest \in Bytes
        /\ body = AppendString(topic.val) \o topic.rest
    BY <1>3, <1>5, StringForth
  <2>2. AppendString(topic.val) \in Bytes
        /\ Len(AppendString(topic.val)) = StringSize(topic.val)
    BY <2>1, TextIsBlob, AppendType
  <2> QED BY <2>1, <2>2
<1>9. PICK u \in Bytes, y \in Bytes :
         /\ u = (IF p.qos > 0 THEN Uint16(p.id) ELSE <<>>) /\ y = p.payload
         /\ r = u \o y /\ Len(u) = (IF p.qos > 0 THEN 2 ELSE 0)
  <2>1. CASE HasPacketID(qos)
    <3>1. id = Uint16Value(r)
      BY <1>4, <1>8, <2>1, Zenon
    <3>2. /\ id.val \in Word /\ id.rest \in Bytes /\ r = Uint16(id.val) \o id.rest
      BY <1>5, <3>1, Uint16Forth
    <3>3. Uint16(id.val) \in Bytes /\ Len(Uint16(id.val)) = 2
      BY <3>2, Uint16Type
    <3>4. p.qos > 0
      BY <1>6, <2>1, Zenon DEF HasPacketID
    <3> QED BY <1>6, <3>2, <3>3, <3>4, Zenon
  <2>2. CASE ~HasPacketID(qos)
    <3>1. id = Read(0, r)
      BY <1>4, <1>8, <2>2, Zenon DEF Absent
    <3>2. id.rest = r
      BY <3>1 DEF Read
    <3>3. <<>> \o r = r /\ <<>> \in Bytes /\ Len(<<>>) = 0
      BY CatEmpty
    <3>4. ~(p.qos > 0)
      BY <1>6, <2>2, Zenon DEF HasPacketID
    <3>5. /\ <<>> = (IF p.qos > 0 THEN Uint16(p.id) ELSE <<>>)
          /\ Len(<<>>) = (IF p.qos > 0 THEN 2 ELSE 0)
      <4>1. (IF p.qos > 0 THEN Uint16(p.id) ELSE <<>>) = <<>>
        BY <3>4
      <4>2. (IF p.qos > 0 THEN 2 ELSE 0) = 0
        BY <3>4
      <4> QED BY <3>3, <4>1, <4>2
    <3>6. r = p.payload
      BY <1>6, <3>2, Zenon
    <3>7. r = <<>> \o r
      BY <3>3, Zenon
    <3> QED BY <3>3, <3>5, <3>6, <3>7
  <2> QED BY <2>1, <2>2
<1>10. PICK au \in Bytes : au = a \o u /\ Len(au) = Len(a) + Len(u)
  BY Cat
<1>11. body = au \o y /\ Len(body) = Len(au) + Len(y)
  <2>1. Nested(a, u, y)
    BY NestedAll
  <2>2. body = au \o y
    BY <1>8, <1>9, <1>10, <2>1, Zenon DEF Nested
  <2>3. Len(au \o y) = Len(au) + Len(y)
    BY Cat
  <2> QED BY <2>2, <2>3, Zenon
<1>12. PublishLength(p) = Len(body)
  <2>1. PublishLength(p) = Len(a) + Len(y) + Len(u)
    BY <1>6, <1>8, <1>9, Zenon DEF PublishLength
  <2>2. Len(a) \in Nat /\ Len(y) \in Nat /\ Len(u) \in Nat
    BY DEF Bytes
  <2>3. Len(body) = Len(a) + Len(u) + Len(y)
    BY <1>10, <1>11, Zenon
  <2> QED BY <2>1, <2>2, <2>3
<1>13. Encode(p) = EncodePublish(p)
  BY <1>6 DEF Encode, Acks, Simples
<1>14. ~(p.qos > 2 \/ (p.qos > 0 /\ p.id = 0))
  <2>1. ~(p.qos > 2)
    BY <1>6, <1>7
  <2>2. p.qos > 0 => p.id # 0
    BY <1>5, <1>6, Zenon DEF HasPacketID
  <2> QED BY <2>1, <2>2, Zenon
<1>15. EncodePublish(p) = Encoded("PUBLISH", flags, Len(body), body)
  BY <1>6, <1>7, <1>8, <1>9, <1>10, <1>11, <1>12, <1>14, Zenon DEF EncodePublish
<1> QED BY <1>13, <1>15, Zenon

\* A turn of the decoder reads an entry, and at least one byte.
LEMMA EntryForth ==
    ASSUME NEW t \in Kinds, NEW r, r.rest \in Bytes, NextFilter(t, r).ok
    PROVE  LET next == NextFilter(t, r)
           IN  \E f \in Entries(t) :
                  /\ next.val = Append(r.val, f) /\ next.rest \in Bytes
                  /\ r.rest = Entry(t, f) \o next.rest
                  /\ Len(next.rest) < Len(r.rest)
<1>1. PICK filter : filter = StringValue(r.rest)
  OBVIOUS
<1>2. PICK qos : qos = IF t = "SUBSCRIBE" THEN ByteValue(filter.rest) ELSE Absent(filter.rest)
  OBVIOUS
<1>3. PICK next : next = NextFilter(t, r)
  OBVIOUS
<1>4. next = [ok |-> filter.ok /\ qos.ok /\ qos.val <= 2,
              val |-> Append(r.val, [filter |-> filter.val, qos |-> qos.val]),
              rest |-> qos.rest]
  BY <1>1, <1>2, <1>3, Zenon DEF NextFilter
<1>5. PICK f : f = [filter |-> filter.val, qos |-> qos.val]
  OBVIOUS
<1>6. next.ok = (filter.ok /\ qos.ok /\ qos.val <= 2) /\ next.val = Append(r.val, f)
      /\ next.rest = qos.rest
  BY <1>4, <1>5, Zenon
<1>7. filter.ok /\ qos.ok /\ qos.val <= 2
  BY <1>3, <1>6, Zenon
<1>8. /\ filter.val \in Text /\ filter.rest \in Bytes
      /\ r.rest = AppendString(filter.val) \o filter.rest
  BY <1>1, <1>7, StringForth
<1>9. PICK q \in Bytes : /\ q = (IF t = "SUBSCRIBE" THEN <<qos.val>> ELSE <<>>)
                         /\ qos.rest \in Bytes /\ filter.rest = q \o qos.rest
                         /\ qos.val \in 0..2 /\ (t = "UNSUBSCRIBE" => qos.val = 0)
  <2>1. CASE t = "SUBSCRIBE"
    <3>1. qos = ByteValue(filter.rest)
      BY <1>2, <2>1, Zenon
    <3>2. qos.val \in Byte /\ qos.rest \in Bytes /\ filter.rest = <<qos.val>> \o qos.rest
      BY <1>7, <1>8, <3>1, ByteForth
    <3>3. qos.val \in 0..2
      <4>1. qos.val <= 2
        BY <1>7, Zenon
      <4>2. qos.val \in Nat
        <5>1. \A b \in Byte : b \in Nat
          BY DEF Byte
        <5> QED BY <3>2, <5>1, Zenon
      <4> QED BY <4>1, <4>2
    <3>4. <<qos.val>> \in Bytes
      BY <3>2 DEF Bytes
    <3> QED BY <2>1, <3>2, <3>3, <3>4
  <2>2. CASE t = "UNSUBSCRIBE"
    <3>1. qos = Read(0, filter.rest)
      BY <1>2, <2>2 DEF Absent
    <3>2. qos.val = 0 /\ qos.rest = filter.rest
      BY <3>1 DEF Read
    <3>3. <<>> \o filter.rest = filter.rest /\ <<>> \in Bytes
      BY <1>8, CatEmpty
    <3>4. <<>> = (IF t = "SUBSCRIBE" THEN <<qos.val>> ELSE <<>>) /\ qos.val \in 0..2
      BY <2>2, <3>2
    <3>5. filter.rest = <<>> \o qos.rest /\ qos.rest \in Bytes
      BY <1>8, <3>2, <3>3, Zenon
    <3> QED BY <3>2, <3>3, <3>4, <3>5, Zenon
  <2> QED BY <2>1, <2>2 DEF Kinds
<1>10. f.filter = filter.val /\ f.qos = qos.val
  BY <1>5
<1>11. f \in Entries(t)
  <2>1. f \in [filter : Text, qos : 0..2]
    BY <1>5, <1>8, <1>9
  <2> QED BY <1>9, <1>10, <2>1, Zenon DEF Entries
<1>12. PICK e \in Bytes : e = Entry(t, f) /\ Len(e) \in Nat /\ Len(e) > 0
  BY <1>11, EntryType, Zenon
<1>13. PICK s \in Bytes : s = qos.rest
  BY <1>9
<1>14. r.rest = e \o s
  <2>1. PICK a \in Bytes : a = AppendString(filter.val)
    BY <1>8, TextIsBlob, AppendType
  <2>2. e = a \o q
    BY <1>9, <1>10, <1>12, <2>1, Zenon DEF Entry
  <2>3. Nested(a, q, s)
    BY NestedAll
  <2> QED BY <1>8, <1>9, <1>13, <2>1, <2>2, <2>3, Zenon DEF Nested
<1>15. Len(e \o s) = Len(e) + Len(s) /\ Len(s) \in Nat
  BY Cat
<1>16. Len(next.rest) < Len(r.rest)
  <2>1. Len(s) < Len(e \o s)
    BY <1>12, <1>15
  <2> QED BY <1>6, <1>13, <1>14, <2>1, Zenon
<1> QED BY <1>3, <1>6, <1>9, <1>11, <1>12, <1>13, <1>14, <1>16, Zenon

\* One filter more is one entry more.
LEMMA FiltersAppend ==
    ASSUME NEW t \in Kinds, NEW fs \in Seq(Entries(t)), NEW f \in Entries(t)
    PROVE  /\ Append(fs, f) \in Seq(Entries(t)) /\ Len(Append(fs, f)) = Len(fs) + 1
           /\ FiltersBytes(t, Append(fs, f))[Len(fs) + 1]
                = FiltersBytes(t, fs)[Len(fs)] \o Entry(t, f)
<1>1. PICK n \in Nat : n = Len(fs)
  OBVIOUS
<1>2. PICK gs \in Seq(Entries(t)) :
         /\ gs = Append(fs, f) /\ Len(gs) = n + 1
         /\ (\A i \in 1..n : gs[i] = fs[i]) /\ gs[n + 1] = f
  BY <1>1, AppendProperties
<1>3. PICK B, C : B = FiltersBytes(t, fs) /\ C = FiltersBytes(t, gs)
  OBVIOUS
<1>4. B[0] = <<>> /\ \A i \in 0..(n - 1) : B[i + 1] = B[i] \o Entry(t, fs[i + 1])
  <2>1. 0 \in 0..Len(fs)
    OBVIOUS
  <2> QED BY <1>1, <1>3, <2>1, FiltersGrow
<1>5. C[0] = <<>> /\ \A i \in 0..n : C[i + 1] = C[i] \o Entry(t, gs[i + 1])
  <2>1. 0 \in 0..Len(gs) /\ Len(gs) - 1 = n
    BY <1>2
  <2> QED BY <1>3, <2>1, FiltersGrow
<1> DEFINE T == {k \in Nat : k <= n => C[k] = B[k]}
<1>6. 0 \in T
  BY <1>4, <1>5
<1>7. ASSUME NEW k \in Nat, k \in T PROVE k + 1 \in T
  <2> SUFFICES ASSUME k + 1 <= n PROVE C[k + 1] = B[k + 1]
    OBVIOUS
  <2>1. k <= n /\ k \in 0..n /\ k \in 0..(n - 1) /\ k + 1 \in 1..n
    OBVIOUS
  <2>2. C[k] = B[k]
    BY <1>7, <2>1
  <2> QED BY <1>2, <1>4, <1>5, <2>1, <2>2, Zenon
<1> HIDE DEF T
<1>8. n \in T
  BY <1>6, <1>7, SetInduction
<1>9. C[n] = B[n] /\ n \in 0..n
  BY <1>8 DEF T
<1> QED BY <1>1, <1>2, <1>3, <1>5, <1>9, Zenon

\* The decoders' loop: the filters that it has read so far, written again, and the
\* bytes that are left are the bytes that it was given; it leaves none.
LEMMA LoopForth ==
    ASSUME NEW t \in Kinds, NEW body \in Bytes, NEW read,
           read = FilterLoop(t, body)[Len(body)], read.ok
    PROVE  /\ read.val \in Seq(Entries(t))
           /\ body = FiltersBytes(t, read.val)[Len(read.val)]
<1>1. PICK n \in Nat : n = Len(body)
  BY DEF Bytes
<1>2. PICK after : after = FilterLoop(t, body)
  OBVIOUS
<1>3. \A k \in 0..n : after[k] = DecodeTurn(t, body, after, k)
  <2>1. FilterLoop(t, body)
          = [k \in 0..Len(body) |-> DecodeTurn(t, body, FilterLoop(t, body), k)]
    BY <1>1, LoopUnfolds
  <2> QED BY <1>1, <1>2, <2>1, Zenon
<1> DEFINE Good(r, k) == /\ r.val \in Seq(Entries(t)) /\ r.rest \in Bytes
                         /\ body = FiltersBytes(t, r.val)[Len(r.val)] \o r.rest
                         /\ r.rest = <<>> \/ Len(r.rest) + k <= n
           T == {k \in Nat : k <= n /\ after[k].ok => Good(after[k], k)}
<1>4. 0 \in T
  <2>1. 0 \in 0..n
    OBVIOUS
  <2>2. PICK r : r = after[0] /\ r = Read(<<>>, body)
    BY <1>3, <2>1, Zenon DEF DecodeTurn
  <2>3. r.val = <<>> /\ r.rest = body
    BY <2>2 DEF Read
  <2>4. <<>> \in Seq(Entries(t)) /\ Len(<<>>) = 0
    BY EmptySeq
  <2>5. FiltersBytes(t, <<>>)[0] = <<>>
    <3>1. 0 \in 0..Len(<<>>)
      BY <2>4
    <3> QED BY <2>4, <3>1, FiltersGrow
  <2>6. <<>> \o body = body
    BY CatEmpty
  <2>7. body = FiltersBytes(t, r.val)[Len(r.val)] \o r.rest
    BY <2>3, <2>4, <2>5, <2>6, Zenon
  <2>8. Len(r.rest) + 0 <= n
    BY <1>1, <2>3
  <2>9. Good(r, 0)
    BY <2>3, <2>4, <2>7, <2>8, Zenon
  <2> HIDE DEF Good
  <2> QED BY <2>2, <2>9
<1>5. ASSUME NEW k \in Nat, k \in T PROVE k + 1 \in T
  <2> SUFFICES ASSUME k + 1 <= n, after[k + 1].ok PROVE Good(after[k + 1], k + 1)
    <3> HIDE DEF Good
    <3> QED OBVIOUS
  <2>1. k <= n /\ k + 1 \in 0..n /\ k + 1 # 0 /\ (k + 1) - 1 = k
    OBVIOUS
  <2>2. PICK r, s : r = after[k] /\ s = after[k + 1]
    OBVIOUS
  <2>3. s = IF r.ok /\ r.rest # <<>> THEN NextFilter(t, r) ELSE r
    <3>1. s = DecodeTurn(t, body, after, k + 1)
      BY <1>3, <2>1, <2>2, Zenon
    <3>2. s = IF after[k].ok /\ after[k].rest # <<>> THEN NextFilter(t, after[k]) ELSE after[k]
      BY <2>1, <3>1, Zenon DEF DecodeTurn
    <3> QED BY <2>2, <3>2, Zenon
  <2>4. s.ok
    BY <2>2, Zenon
  <2>5. r.ok
    BY <2>3, <2>4, Zenon
  <2>6. Good(r, k)
    <3> HIDE DEF Good
    <3> QED BY <1>5, <2>1, <2>2, <2>5, Zenon
  <2>7. CASE r.rest = <<>>
    <3>1. s = r
      BY <2>3, <2>7, Zenon
    <3>2. Good(s, k + 1)
      BY <2>6, <2>7, <3>1, Zenon
    <3> HIDE DEF Good
    <3> QED BY <2>2, <3>2, Zenon
  <2>8. CASE r.rest # <<>>
    <3>1. s = NextFilter(t, r)
      BY <2>3, <2>5, <2>8, Zenon
    <3>2. r.rest \in Bytes /\ NextFilter(t, r).ok
      BY <2>4, <2>6, <3>1, Zenon
    <3>3. PICK f \in Entries(t) :
             /\ s.val = Append(r.val, f) /\ s.rest \in Bytes
             /\ r.rest = Entry(t, f) \o s.rest /\ Len(s.rest) < Len(r.rest)
      BY <3>1, <3>2, EntryForth
    <3>4. PICK fs \in Seq(Entries(t)) : fs = r.val
      BY <2>6, Zenon
    <3>5. /\ Append(fs, f) \in Seq(Entries(t)) /\ Len(Append(fs, f)) = Len(fs) + 1
          /\ FiltersBytes(t, Append(fs, f))[Len(fs) + 1]
               = FiltersBytes(t, fs)[Len(fs)] \o Entry(t, f)
      BY FiltersAppend
    <3>6. PICK a \in Bytes, e \in Bytes, u \in Bytes :
             a = FiltersBytes(t, fs)[Len(fs)] /\ e = Entry(t, f) /\ u = s.rest
      <4>1. Len(fs) \in 0..Len(fs)
        OBVIOUS
      <4>2. FiltersBytes(t, fs)[Len(fs)] \in Bytes
        BY <4>1, FiltersType
      <4>3. Entry(t, f) \in Bytes
        BY EntryType
      <4> QED BY <3>3, <4>2, <4>3, Zenon
    <3>7. body = a \o (e \o u)
      BY <2>6, <3>3, <3>4, <3>6, Zenon
    <3>8. Nested(a, e, u)
      BY NestedAll
    <3>9. body = FiltersBytes(t, s.val)[Len(s.val)] \o s.rest
      BY <3>3, <3>4, <3>5, <3>6, <3>7, <3>8, Zenon DEF Nested
    <3>10. Len(s.rest) + (k + 1) <= n
      <4>1. Len(s.rest) \in Nat /\ Len(r.rest) \in Nat
        BY <3>2, <3>3 DEF Bytes
      <4>2. Len(r.rest) + k <= n
        BY <2>6, <2>8, Zenon
      <4>3. Len(s.rest) < Len(r.rest)
        BY <3>3, Zenon
      <4>4. PICK x \in Nat, y \in Nat : x = Len(s.rest) /\ y = Len(r.rest)
        BY <4>1, Zenon
      <4>5. y + k <= n /\ x < y
        BY <4>2, <4>3, <4>4, Zenon
      <4>6. x + (k + 1) <= n
        BY <4>5
      <4> QED BY <4>4, <4>6, Zenon
    <3>11. s.val \in Seq(Entries(t)) /\ s.rest \in Bytes
      BY <3>3, <3>4, <3>5, Zenon
    <3>12. Good(s, k + 1)
      BY <3>9, <3>10, <3>11, Zenon
    <3> HIDE DEF Good
    <3> QED BY <2>2, <3>12, Zenon
  <2> QED BY <2>7, <2>8
<1>6. Good(read, n)
  <2> HIDE DEF T, Good
  <2>1. n \in T
    BY <1>4, <1>5, SetInduction
  <2>2. read = after[n]
    BY <1>1, <1>2, Zenon
  <2>3. n <= n
    OBVIOUS
  <2> QED BY <2>1, <2>2, <2>3, Zenon DEF T
<1>7. read.rest = <<>>
  <2>1. CASE Len(read.rest) + n <= n
    <3>1. read.rest \in Bytes
      BY <1>6, Zenon
    <3>2. Len(read.rest) \in Nat
      BY <3>1 DEF Bytes
    <3>3. Len(read.rest) = 0
      BY <2>1, <3>2
    <3> QED BY <3>1, <3>3, NoBytes
  <2> QED BY <1>6, <2>1, Zenon
<1>8. PICK fs \in Seq(Entries(t)) : fs = read.val
  BY <1>6, Zenon
<1>9. FiltersBytes(t, fs)[Len(fs)] \in Bytes
  <2>1. Len(fs) \in 0..Len(fs)
    OBVIOUS
  <2> QED BY <2>1, FiltersType
<1>10. FiltersBytes(t, fs)[Len(fs)] \o <<>> = FiltersBytes(t, fs)[Len(fs)]
  BY <1>9, CatEmpty
<1> QED BY <1>6, <1>7, <1>8, <1>10, Zenon

\* SUBSCRIBE and UNSUBSCRIBE.
LEMMA SubscribeStems ==
    ASSUME NEW t \in Kinds, NEW flags, ValidateFlags(t, flags), NEW body \in Bytes
    PROVE  Stems(t, flags, body)
<1>1. flags = RequiredFlags(t)
  BY DEF Kinds, ValidateFlags
<1> SUFFICES ASSUME NEW p, p = DecodeBody(t, flags, body), p # Bad
             PROVE  Encode(p) = Encoded(t, flags, Len(body), body)
  BY Zenon DEF Stems
<1>2. p = DecodeFilters(t, body)
  BY DEF DecodeBody, Acks, Simples, Kinds
<1>3. PICK id : id = Uint16Value(body)
  OBVIOUS
<1>4. PICK read : read = FilterLoop(t, id.rest)[Len(id.rest)]
  OBVIOUS
<1>5. /\ id.ok /\ id.val # 0 /\ read.ok /\ read.val # <<>>
      /\ p = [type |-> t, id |-> id.val, filters |-> read.val]
  BY <1>2, <1>3, <1>4, Zenon DEF DecodeFilters
<1>6. /\ id.rest \in Bytes /\ body = Uint16(id.val) \o id.rest
      /\ Len(body) = 2 + Len(id.rest)
  BY <1>3, <1>5, Uint16Forth
<1>7. PICK fs \in Seq(Entries(t)) :
         fs = read.val /\ id.rest = FiltersBytes(t, fs)[Len(fs)]
  BY <1>4, <1>5, <1>6, LoopForth, SMTT(60)
<1>8. FiltersLength(t, fs)[Len(fs)] = Len(body)
  <2>1. Len(fs) \in 0..Len(fs)
    OBVIOUS
  <2>2. FiltersLength(t, fs)[Len(fs)] = 2 + Len(FiltersBytes(t, fs)[Len(fs)])
    BY <2>1, FiltersType
  <2> QED BY <1>6, <1>7, <2>2, Zenon
<1>9. p.type = t /\ p.id = id.val /\ p.filters = fs
  BY <1>5, <1>7
<1>10. Encode(p) = EncodeFilters(p)
  BY <1>9 DEF Encode, Acks, Simples, Kinds
<1>11. EncodeFilters(p) = Encoded(t, RequiredFlags(t), FiltersLength(t, fs)[Len(fs)],
                                  Uint16(id.val) \o FiltersBytes(t, fs)[Len(fs)])
  BY <1>5, <1>7, <1>9, Zenon DEF EncodeFilters
<1> QED BY <1>1, <1>6, <1>7, <1>8, <1>10, <1>11, Zenon

\* Two single bytes after one another.
LEMMA TwoInOne ==
    ASSUME NEW x \in Byte, NEW y \in Byte
    PROVE  <<x>> \o <<y>> = <<x, y>> /\ <<x, y>> \in Bytes
<1>1. PICK a \in Bytes, b \in Bytes, c \in Bytes :
         /\ a = <<x>> /\ b = <<y>> /\ c = <<x, y>>
         /\ Len(a) = 1 /\ Len(b) = 1 /\ a[1] = x /\ b[1] = y
         /\ Len(c) = 2 /\ c[1] = x /\ c[2] = y
  <2>1. <<x>> \in Bytes /\ <<y>> \in Bytes /\ <<x, y>> \in Bytes
    BY DEF Bytes
  <2> QED BY <2>1
<1>2. PICK z \in Bytes : z = a \o b
  BY Cat
<1>3. /\ Len(z) = Len(a) + Len(b)
      /\ \A i \in 1..Len(a) : z[i] = a[i]
      /\ \A i \in 1..Len(b) : z[Len(a) + i] = b[i]
  <2>1. /\ Len(a \o b) = Len(a) + Len(b)
        /\ \A i \in 1..Len(a) : (a \o b)[i] = a[i]
        /\ \A i \in 1..Len(b) : (a \o b)[Len(a) + i] = b[i]
    BY Cat
  <2> QED BY <1>2, <2>1, ZenonT(60)
<1>4. Len(z) = 2 /\ z[1] = x /\ z[2] = y
  BY <1>1, <1>3
<1>5. \A i \in 1..Len(c) : c[i] = z[i]
  BY <1>1, <1>4
<1>6. c = z
  BY <1>1, <1>4, <1>5, SameBytes
<1> QED BY <1>1, <1>2, <1>6, Zenon

\* What is read from the left is written to the right.
Regrouped(a, b, c, d, e) == a \o (b \o (c \o (d \o e))) = (((a \o b) \o c) \o d) \o e

\* It is the same.
LEMMA Regroup == \A a, b, c, d, e \in Bytes : Regrouped(a, b, c, d, e)
<1> SUFFICES ASSUME NEW a \in Bytes, NEW b \in Bytes, NEW c \in Bytes, NEW d \in Bytes,
                    NEW e \in Bytes
             PROVE  a \o (b \o (c \o (d \o e))) = (((a \o b) \o c) \o d) \o e
  BY Zenon DEF Regrouped
<1>1. PICK ab \in Bytes : ab = a \o b
  BY Cat
<1>2. PICK abc \in Bytes : abc = ab \o c
  BY Cat
<1>3. PICK de \in Bytes : de = d \o e
  BY Cat
<1>4. PICK cde \in Bytes : cde = c \o de
  BY Cat
<1>5. Nested(a, b, cde) /\ Nested(ab, c, de) /\ Nested(abc, d, e)
  BY NestedAll
<1> QED BY <1>1, <1>2, <1>3, <1>4, <1>5, Zenon DEF Nested

\* The head of a CONNECT is written as it was read.
LEMMA ConnectHeadForth ==
    ASSUME NEW body \in Bytes, NEW head, head = ConnectHead(body), head.ok
    PROVE  /\ head.level \in Byte /\ head.flags \in Byte /\ head.keepAlive \in Word
           /\ head.name \in Text /\ head.id \in Text /\ head.rest \in Bytes
           /\ body = (((AppendString(head.name) \o <<head.level, head.flags>>)
                           \o Uint16(head.keepAlive)) \o AppendString(head.id)) \o head.rest
<1>1. PICK name : name = StringValue(body)
  OBVIOUS
<1>2. PICK level : level = ByteValue(name.rest)
  OBVIOUS
<1>3. PICK flags : flags = ByteValue(level.rest)
  OBVIOUS
<1>4. PICK interval : interval = Uint16Value(flags.rest)
  OBVIOUS
<1>5. PICK id : id = StringValue(interval.rest)
  OBVIOUS
<1>6. head = [ok |-> name.ok /\ level.ok /\ flags.ok /\ interval.ok /\ id.ok,
              name |-> name.val, level |-> level.val, flags |-> flags.val,
              keepAlive |-> interval.val, id |-> id.val, rest |-> id.rest]
  BY <1>1, <1>2, <1>3, <1>4, <1>5, Zenon DEF ConnectHead
<1>7. /\ head.ok = (name.ok /\ level.ok /\ flags.ok /\ interval.ok /\ id.ok)
      /\ head.name = name.val /\ head.level = level.val /\ head.flags = flags.val
      /\ head.keepAlive = interval.val /\ head.id = id.val /\ head.rest = id.rest
  <2>1. head.ok = (name.ok /\ level.ok /\ flags.ok /\ interval.ok /\ id.ok)
    <3>1. PICK ok : ok = (name.ok /\ level.ok /\ flags.ok /\ interval.ok /\ id.ok)
      OBVIOUS
    <3>2. head = [ok |-> ok, name |-> name.val, level |-> level.val, flags |-> flags.val,
                  keepAlive |-> interval.val, id |-> id.val, rest |-> id.rest]
      BY <1>6, <3>1, Zenon
    <3>3. head.ok = ok
      BY <3>2
    <3> QED BY <3>1, <3>3, Zenon
  <2>2. /\ head.name = name.val /\ head.level = level.val /\ head.flags = flags.val
        /\ head.keepAlive = interval.val /\ head.id = id.val /\ head.rest = id.rest
    BY <1>6
  <2> QED BY <2>1, <2>2, Zenon
<1>8. name.ok /\ level.ok /\ flags.ok /\ interval.ok /\ id.ok
  BY <1>7, Zenon
<1>9. name.val \in Text /\ name.rest \in Bytes /\ body = AppendString(name.val) \o name.rest
  BY <1>1, <1>8, StringForth
<1>10. level.val \in Byte /\ level.rest \in Bytes /\ name.rest = <<level.val>> \o level.rest
  BY <1>2, <1>8, <1>9, ByteForth
<1>11. flags.val \in Byte /\ flags.rest \in Bytes /\ level.rest = <<flags.val>> \o flags.rest
  BY <1>3, <1>8, <1>10, ByteForth
<1>12. /\ interval.val \in Word /\ interval.rest \in Bytes
       /\ flags.rest = Uint16(interval.val) \o interval.rest
  BY <1>4, <1>8, <1>11, Uint16Forth
<1>13. id.val \in Text /\ id.rest \in Bytes /\ interval.rest = AppendString(id.val) \o id.rest
  BY <1>5, <1>8, <1>12, StringForth
<1>14. PICK a \in Bytes, b1 \in Bytes, b2 \in Bytes, d \in Bytes, e \in Bytes, r \in Bytes :
          /\ a = AppendString(name.val) /\ b1 = <<level.val>> /\ b2 = <<flags.val>>
          /\ d = Uint16(interval.val) /\ e = AppendString(id.val) /\ r = id.rest
  <2>1. AppendString(name.val) \in Bytes /\ AppendString(id.val) \in Bytes
    BY <1>9, <1>13, TextIsBlob, AppendType
  <2>2. <<level.val>> \in Bytes
    BY <1>10, ByteBack, EmptySeq DEF Bytes
  <2>3. <<flags.val>> \in Bytes
    BY <1>11, ByteBack, EmptySeq DEF Bytes
  <2>4. Uint16(interval.val) \in Bytes
    BY <1>12, Uint16Type
  <2> QED BY <1>13, <2>1, <2>2, <2>3, <2>4, Zenon
<1>15. PICK b \in Bytes : b = b1 \o b2 /\ b = <<level.val, flags.val>>
  BY <1>10, <1>11, <1>14, TwoInOne
<1>16. PICK s3 \in Bytes : s3 = d \o (e \o r)
  <2>1. PICK u \in Bytes : u = e \o r
    BY Cat
  <2>2. d \o u \in Bytes
    BY Cat
  <2> QED BY <2>1, <2>2, Zenon
<1>17. Nested(b1, b2, s3)
  BY NestedAll
<1>18. body = a \o (b \o (d \o (e \o r)))
  <2>1. body = a \o (b1 \o (b2 \o (d \o (e \o r))))
    BY <1>9, <1>10, <1>11, <1>12, <1>13, <1>14, Zenon
  <2> QED BY <1>15, <1>16, <1>17, <2>1, Zenon DEF Nested
<1>19. body = (((a \o b) \o d) \o e) \o r
  <2>1. a \o (b \o (d \o (e \o r))) = (((a \o b) \o d) \o e) \o r
    <3>1. Regrouped(a, b, d, e, r)
      BY Regroup
    <3> QED BY <3>1, Zenon DEF Regrouped
  <2> QED BY <1>18, <2>1, Zenon
<1> QED BY <1>7, <1>9, <1>10, <1>11, <1>12, <1>13, <1>14, <1>15, <1>19, ZenonT(60)

\* A field that is read when its bit is set.
LEMMA OptForth ==
    ASSUME NEW s \in Bytes, NEW on, NEW r, r.ok,
           on => r \in {StringValue(s), BytesValue(s)}, ~on => r.rest = s
    PROVE  /\ r.rest \in Bytes
           /\ (IF on THEN {r.val} ELSE {}) \in Optional(Blob)
           /\ s = OptString(IF on THEN {r.val} ELSE {}) \o r.rest
<1>1. CASE on
  <2>1. /\ r.val \in Blob /\ r.rest \in Bytes /\ s = AppendString(r.val) \o r.rest
    <3>1. CASE r = StringValue(s)
      <4>1. r.val \in Text /\ r.rest \in Bytes /\ s = AppendString(r.val) \o r.rest
        BY <3>1, StringForth
      <4> QED BY <4>1, TextIsBlob
    <3>2. CASE r = BytesValue(s)
      BY <3>2, BytesForth
    <3> QED BY <1>1, <3>1, <3>2
  <2>2. OptString({r.val}) = AppendString(r.val)
    BY OptStringIs
  <2>3. (IF on THEN {r.val} ELSE {}) = {r.val}
    BY <1>1
  <2>4. {r.val} \in Optional(Blob)
    BY <2>1, Zenon DEF Optional
  <2> QED BY <2>1, <2>2, <2>3, <2>4, Zenon
<1>2. CASE ~on
  <2>1. r.rest = s
    BY <1>2
  <2>2. OptString({}) = <<>>
    BY OptStringIs, Zenon
  <2>3. (IF on THEN {r.val} ELSE {}) = {}
    BY <1>2
  <2>4. {} \in Optional(Blob)
    BY Zenon DEF Optional
  <2>5. <<>> \o s = s
    BY CatEmpty
  <2> QED BY <2>1, <2>2, <2>3, <2>4, <2>5, Zenon
<1> QED BY <1>1, <1>2

\* The optional fields of a CONNECT are written as they were read.
TailWritten(f, s, tail) ==
    LET opt(mask, v) == IF Bit(f, mask) THEN {v} ELSE {}
    IN  /\ opt(4, tail.topic) \in Optional(Blob)
        /\ opt(4, tail.payload) \in Optional(Blob)
        /\ opt(128, tail.username) \in Optional(Blob)
        /\ opt(64, tail.password) \in Optional(Blob)
        /\ s = ((OptString(opt(4, tail.topic)) \o OptString(opt(4, tail.payload)))
                  \o OptString(opt(128, tail.username)))
                  \o OptString(opt(64, tail.password))

\* That is so whenever they take up all the bytes.
LEMMA ConnectTailForth ==
    \A f, tail : \A s \in Bytes :
        tail = ConnectTail(f, s) /\ tail.ok /\ tail.rest = <<>> => TailWritten(f, s, tail)
<1> SUFFICES ASSUME NEW f, NEW s \in Bytes, NEW tail, tail = ConnectTail(f, s), tail.ok,
                    tail.rest = <<>>
             PROVE  TailWritten(f, s, tail)
  BY Zenon
<1>1. PICK topic : topic = IF Bit(f, 4) THEN StringValue(s) ELSE Absent(s)
  OBVIOUS
<1>2. PICK payload : payload = IF Bit(f, 4) THEN BytesValue(topic.rest) ELSE topic
  OBVIOUS
<1>3. PICK username : username = IF Bit(f, 128) THEN StringValue(payload.rest) ELSE payload
  OBVIOUS
<1>4. PICK password : password = IF Bit(f, 64) THEN BytesValue(username.rest) ELSE username
  OBVIOUS
<1>5. tail = [ok |-> topic.ok /\ payload.ok /\ username.ok /\ password.ok,
              topic |-> topic.val, payload |-> payload.val, username |-> username.val,
              password |-> password.val, rest |-> password.rest]
  BY <1>1, <1>2, <1>3, <1>4, SMTT(60) DEF ConnectTail
<1>6. /\ tail.topic = topic.val /\ tail.payload = payload.val
      /\ tail.username = username.val /\ tail.password = password.val
      /\ tail.rest = password.rest
  BY <1>5
<1>7. topic.ok /\ payload.ok /\ username.ok /\ password.ok
  <2>1. PICK ok : ok = (topic.ok /\ payload.ok /\ username.ok /\ password.ok)
    OBVIOUS
  <2>2. tail = [ok |-> ok, topic |-> topic.val, payload |-> payload.val,
                username |-> username.val, password |-> password.val,
                rest |-> password.rest]
    BY <1>5, <2>1, Zenon
  <2>3. tail.ok = ok
    BY <2>2
  <2> QED BY <2>1, <2>3, Zenon
<1>8. PICK a : a = (IF Bit(f, 4) THEN {tail.topic} ELSE {})
  OBVIOUS
<1>9. PICK b : b = (IF Bit(f, 4) THEN {tail.payload} ELSE {})
  OBVIOUS
<1>10. PICK c : c = (IF Bit(f, 128) THEN {tail.username} ELSE {})
  OBVIOUS
<1>11. PICK d : d = (IF Bit(f, 64) THEN {tail.password} ELSE {})
  OBVIOUS
<1>12. topic.rest \in Bytes /\ a \in Optional(Blob) /\ s = OptString(a) \o topic.rest
  <2>1. Bit(f, 4) => topic \in {StringValue(s), BytesValue(s)}
    BY <1>1, Zenon
  <2>2. ~Bit(f, 4) => topic.rest = s
    BY <1>1 DEF Absent, Read
  <2>3. /\ topic.rest \in Bytes
        /\ (IF Bit(f, 4) THEN {topic.val} ELSE {}) \in Optional(Blob)
        /\ s = OptString(IF Bit(f, 4) THEN {topic.val} ELSE {}) \o topic.rest
    BY <1>7, <2>1, <2>2, OptForth
  <2> QED BY <1>6, <1>8, <2>3, Zenon
<1>13. /\ payload.rest \in Bytes /\ b \in Optional(Blob)
       /\ topic.rest = OptString(b) \o payload.rest
  <2>1. Bit(f, 4) => payload \in {StringValue(topic.rest), BytesValue(topic.rest)}
    BY <1>2, Zenon
  <2>2. ~Bit(f, 4) => payload.rest = topic.rest
    BY <1>2, Zenon
  <2>3. /\ payload.rest \in Bytes
        /\ (IF Bit(f, 4) THEN {payload.val} ELSE {}) \in Optional(Blob)
        /\ topic.rest = OptString(IF Bit(f, 4) THEN {payload.val} ELSE {}) \o payload.rest
    BY <1>7, <1>12, <2>1, <2>2, OptForth
  <2> QED BY <1>6, <1>9, <2>3, Zenon
<1>14. /\ username.rest \in Bytes /\ c \in Optional(Blob)
       /\ payload.rest = OptString(c) \o username.rest
  <2>1. Bit(f, 128) => username \in {StringValue(payload.rest), BytesValue(payload.rest)}
    BY <1>3, Zenon
  <2>2. ~Bit(f, 128) => username.rest = payload.rest
    BY <1>3, Zenon
  <2>3. /\ username.rest \in Bytes
        /\ (IF Bit(f, 128) THEN {username.val} ELSE {}) \in Optional(Blob)
        /\ payload.rest
             = OptString(IF Bit(f, 128) THEN {username.val} ELSE {}) \o username.rest
    BY <1>7, <1>13, <2>1, <2>2, OptForth
  <2> QED BY <1>6, <1>10, <2>3, Zenon
<1>15. /\ password.rest \in Bytes /\ d \in Optional(Blob)
       /\ username.rest = OptString(d) \o password.rest
  <2>1. Bit(f, 64) => password \in {StringValue(username.rest), BytesValue(username.rest)}
    BY <1>4, Zenon
  <2>2. ~Bit(f, 64) => password.rest = username.rest
    BY <1>4, Zenon
  <2>3. /\ password.rest \in Bytes
        /\ (IF Bit(f, 64) THEN {password.val} ELSE {}) \in Optional(Blob)
        /\ username.rest
             = OptString(IF Bit(f, 64) THEN {password.val} ELSE {}) \o password.rest
    BY <1>7, <1>14, <2>1, <2>2, OptForth
  <2> QED BY <1>6, <1>11, <2>3, Zenon
<1>16. PICK o1 \in Bytes, o2 \in Bytes, o3 \in Bytes, o4 \in Bytes :
          o1 = OptString(a) /\ o2 = OptString(b) /\ o3 = OptString(c) /\ o4 = OptString(d)
  BY <1>12, <1>13, <1>14, <1>15, OptStringType
<1>17. s = ((o1 \o o2) \o o3) \o o4
  <2>1. username.rest = o4
    <3>1. o4 \o <<>> = o4
      BY CatEmpty
    <3> QED BY <1>6, <1>15, <1>16, <3>1, Zenon
  <2>2. s = o1 \o (o2 \o (o3 \o o4))
    BY <1>12, <1>13, <1>14, <1>16, <2>1, Zenon
  <2>3. PICK o12 \in Bytes : o12 = o1 \o o2
    BY Cat
  <2>4. PICK o34 \in Bytes : o34 = o3 \o o4
    BY Cat
  <2>5. Nested(o1, o2, o34) /\ Nested(o12, o3, o4)
    BY NestedAll
  <2> QED BY <2>2, <2>3, <2>4, <2>5, Zenon DEF Nested
<1> QED BY <1>8, <1>9, <1>10, <1>11, <1>12, <1>13, <1>14, <1>15, <1>16, <1>17,
           ZenonT(60) DEF TailWritten

\* A byte is the sum of its bits; the third and the fourth are taken together.
LEMMA BitSum ==
    ASSUME NEW f \in Byte
    PROVE  f = (f % 2) + 2 * ((f \div 2) % 2) + 4 * ((f \div 4) % 2) + 8 * ((f \div 8) % 4)
                + 32 * ((f \div 32) % 2) + 64 * ((f \div 64) % 2) + 128 * ((f \div 128) % 2)
<1>1. f \in Nat /\ f < 256
  BY DEF Byte
<1>2. PICK a, b, c, d, e, g :
         /\ a = f \div 2 /\ b = f \div 4 /\ c = f \div 8 /\ d = f \div 32
         /\ e = f \div 64 /\ g = f \div 128
  OBVIOUS
<1>3. /\ a \in Nat /\ b \in Nat /\ c \in Nat /\ d \in Nat /\ e \in Nat /\ g \in Nat
      /\ b = a \div 2 /\ c = b \div 2 /\ d = c \div 4 /\ e = d \div 2 /\ g = e \div 2 /\ g < 2
  BY <1>1, <1>2, SMT
<1>4. f = (f % 2) + 2 * a
  BY <1>1, <1>2, SMT
<1>5. a = (a % 2) + 2 * b
  BY <1>3, SMT
<1>6. b = (b % 2) + 2 * c
  BY <1>3, SMT
<1>7. c = (c % 4) + 4 * d
  BY <1>3, SMT
<1>8. d = (d % 2) + 2 * e
  BY <1>3, SMT
<1>9. e = (e % 2) + 2 * g /\ g % 2 = g
  BY <1>3, SMT
<1>10. /\ f % 2 \in Nat /\ a % 2 \in Nat /\ b % 2 \in Nat /\ c % 4 \in Nat /\ d % 2 \in Nat
       /\ e % 2 \in Nat
  BY <1>1, <1>3, SMT
<1>11. f = (f % 2) + 2 * (a % 2) + 4 * (b % 2) + 8 * (c % 4) + 32 * (d % 2) + 64 * (e % 2)
           + 128 * (g % 2)
  <2>1. PICK z \in Nat, u \in Nat, v \in Nat, w \in Nat, x \in Nat, y \in Nat :
            /\ z = f % 2 /\ u = a % 2 /\ v = b % 2 /\ w = c % 4 /\ x = d % 2 /\ y = e % 2
    BY <1>10, Zenon
  <2>2. /\ f = z + 2 * a /\ a = u + 2 * b /\ b = v + 2 * c /\ c = w + 4 * d
        /\ d = x + 2 * e /\ e = y + 2 * g
    BY <1>4, <1>5, <1>6, <1>7, <1>8, <1>9, <2>1, Zenon
  <2>3. f = z + 2 * u + 4 * v + 8 * w + 32 * x + 64 * y + 128 * g
    <3>1. /\ a \in Nat /\ b \in Nat /\ c \in Nat /\ d \in Nat /\ e \in Nat /\ g \in Nat
          /\ z \in Nat /\ u \in Nat /\ v \in Nat /\ w \in Nat /\ x \in Nat /\ y \in Nat
      BY <1>3, <2>1, Zenon
    <3>2. d = x + 2 * y + 4 * g
      BY <2>2, <3>1
    <3>3. c = w + 4 * x + 8 * y + 16 * g
      BY <2>2, <3>1, <3>2
    <3>4. f = z + 2 * u + 4 * v + 8 * c
      BY <2>2, <3>1
    <3> QED BY <3>1, <3>3, <3>4
  <2> QED BY <1>9, <2>1, <2>3, Zenon
<1> QED BY <1>2, <1>11, Zenon

\* The flags of a CONNECT are put together from what was read from them.
LEMMA ConnectFlagsBack ==
    ASSUME NEW f \in Byte, ConnectFlagsOK(f)
    PROVE  SetBit(2, Bit(f, 2)) + SetBit(4, Bit(f, 4))
             + (IF ~Bit(f, 4) THEN 0 ELSE 8 * (WillQoS(f) % 4) + SetBit(32, Bit(f, 32)))
             + SetBit(64, Bit(f, 64)) + SetBit(128, Bit(f, 128)) = f
<1>1. f \in Nat
  BY DEF Byte
<1>2. PICK z, a, b, q, d, e, g :
         /\ z = f % 2 /\ a = (f \div 2) % 2 /\ b = (f \div 4) % 2 /\ q = (f \div 8) % 4
         /\ d = (f \div 32) % 2 /\ e = (f \div 64) % 2 /\ g = (f \div 128) % 2
  OBVIOUS
<1>3. /\ z \in {0, 1} /\ a \in {0, 1} /\ b \in {0, 1} /\ q \in {0, 1, 2, 3} /\ d \in {0, 1}
      /\ e \in {0, 1} /\ g \in {0, 1}
  BY <1>1, <1>2, SMT
<1>4. f = z + 2 * a + 4 * b + 8 * q + 32 * d + 64 * e + 128 * g
  BY <1>2, BitSum, ZenonT(60)
<1>5. /\ Bit(f, 2) <=> a = 1
      /\ Bit(f, 4) <=> b = 1
      /\ Bit(f, 32) <=> d = 1
      /\ Bit(f, 64) <=> e = 1
      /\ Bit(f, 128) <=> g = 1
  BY <1>2, Zenon DEF Bit
<1>6. WillQoS(f) = q
  BY <1>2, Zenon DEF WillQoS
<1>7. z = 0
  <2>1. ~Bit(f, 1)
    BY Zenon DEF ConnectFlagsOK
  <2>2. f \div 1 = f
    BY <1>1
  <2>3. z # 1
    BY <1>2, <2>1, <2>2, Zenon DEF Bit
  <2> QED BY <1>3, <2>3
<1>8. b # 1 => q = 0 /\ d # 1
  BY <1>5, <1>6, Zenon DEF ConnectFlagsOK
<1>9. /\ SetBit(2, Bit(f, 2)) = 2 * a
      /\ SetBit(4, Bit(f, 4)) = 4 * b
      /\ SetBit(32, Bit(f, 32)) = 32 * d
      /\ SetBit(64, Bit(f, 64)) = 64 * e
      /\ SetBit(128, Bit(f, 128)) = 128 * g
  <2>1. ASSUME NEW on, NEW x \in {0, 1}, on <=> x = 1, NEW mask \in Nat
        PROVE  SetBit(mask, on) = mask * x
    <3>1. CASE x = 1
      BY <2>1, <3>1 DEF SetBit
    <3>2. CASE x = 0
      BY <2>1, <3>2 DEF SetBit
    <3> QED BY <3>1, <3>2
  <2>2. 2 \in Nat /\ 4 \in Nat /\ 32 \in Nat /\ 64 \in Nat /\ 128 \in Nat
    OBVIOUS
  <2>3. SetBit(2, Bit(f, 2)) = 2 * a
    BY <1>3, <1>5, <2>1, <2>2
  <2>4. SetBit(4, Bit(f, 4)) = 4 * b
    BY <1>3, <1>5, <2>1, <2>2
  <2>5. SetBit(32, Bit(f, 32)) = 32 * d
    BY <1>3, <1>5, <2>1, <2>2
  <2>6. SetBit(64, Bit(f, 64)) = 64 * e
    BY <1>3, <1>5, <2>1, <2>2
  <2>7. SetBit(128, Bit(f, 128)) = 128 * g
    BY <1>3, <1>5, <2>1, <2>2
  <2> QED BY <2>3, <2>4, <2>5, <2>6, <2>7
<1>10. PICK m : m = IF ~Bit(f, 4) THEN 0 ELSE 8 * (WillQoS(f) % 4) + SetBit(32, Bit(f, 32))
  OBVIOUS
<1>11. m = 8 * q + 32 * d
  <2>1. CASE Bit(f, 4)
    <3>1. m = 8 * (q % 4) + 32 * d
      BY <1>6, <1>9, <1>10, <2>1, Zenon
    <3>2. q % 4 = q
      BY <1>3, SMT
    <3> QED BY <3>1, <3>2, Zenon
  <2>2. CASE ~Bit(f, 4)
    <3>1. m = 0
      BY <1>10, <2>2, Zenon
    <3>2. q = 0 /\ d # 1
      BY <1>5, <1>8, <2>2, Zenon
    <3>3. d = 0
      BY <1>3, <3>2
    <3> QED BY <3>1, <3>2, <3>3, SMT
  <2> QED BY <2>1, <2>2
<1>12. 2 * a + 4 * b + m + 64 * e + 128 * g = f
  BY <1>3, <1>4, <1>7, <1>11, SMT
<1> QED BY <1>9, <1>10, <1>12, Zenon

\* A packet with those fields gets those flags.
LEMMA ConnectFlagsSet ==
    ASSUME NEW p, NEW f \in Byte, ConnectFlagsOK(f), p.clean = Bit(f, 2),
           p.username # {} <=> Bit(f, 128), p.password # {} <=> Bit(f, 64),
           p.will # {} <=> Bit(f, 4),
           Bit(f, 4) => \E w : /\ p.will = {w} /\ w.qos = WillQoS(f)
                               /\ w.retain = Bit(f, 32)
    PROVE  ConnectFlags(p) = f
<1>1. PICK m : m = IF p.will = {} THEN 0
                   ELSE LET w == CHOOSE w \in p.will : TRUE
                        IN  8 * (w.qos % 4) + SetBit(32, w.retain)
  OBVIOUS
<1>2. m = IF ~Bit(f, 4) THEN 0 ELSE 8 * (WillQoS(f) % 4) + SetBit(32, Bit(f, 32))
  <2>1. CASE Bit(f, 4)
    <3>1. PICK w : p.will = {w} /\ w.qos = WillQoS(f) /\ w.retain = Bit(f, 32)
      BY <2>1
    <3>2. (CHOOSE v \in p.will : TRUE) = w
      BY <3>1
    <3>3. p.will # {}
      BY <2>1
    <3>4. m = 8 * (w.qos % 4) + SetBit(32, w.retain)
      BY <1>1, <3>2, <3>3, Zenon
    <3>5. m = 8 * (WillQoS(f) % 4) + SetBit(32, Bit(f, 32))
      BY <3>1, <3>4, Zenon
    <3> QED BY <2>1, <3>5, Zenon
  <2>2. CASE ~Bit(f, 4)
    BY <1>1, <2>2, Zenon
  <2> QED BY <2>1, <2>2
<1>3. /\ SetBit(2, p.clean) = SetBit(2, Bit(f, 2))
      /\ SetBit(4, p.will # {}) = SetBit(4, Bit(f, 4))
      /\ SetBit(64, p.password # {}) = SetBit(64, Bit(f, 64))
      /\ SetBit(128, p.username # {}) = SetBit(128, Bit(f, 128))
  BY ZenonT(60) DEF SetBit
<1>4. ConnectFlags(p) = SetBit(2, p.clean) + SetBit(4, p.will # {}) + m
                          + SetBit(64, p.password # {}) + SetBit(128, p.username # {})
  BY <1>1, ZenonT(60) DEF ConnectFlags
<1>5. SetBit(2, Bit(f, 2)) + SetBit(4, Bit(f, 4)) + m + SetBit(64, Bit(f, 64))
        + SetBit(128, Bit(f, 128)) = f
  <2>1. SetBit(2, Bit(f, 2)) + SetBit(4, Bit(f, 4))
          + (IF ~Bit(f, 4) THEN 0 ELSE 8 * (WillQoS(f) % 4) + SetBit(32, Bit(f, 32)))
          + SetBit(64, Bit(f, 64)) + SetBit(128, Bit(f, 128)) = f
    BY ConnectFlagsBack
  <2> QED BY <1>2, <2>1, Zenon
<1>6. PICK a, b, c, d : /\ a = SetBit(2, Bit(f, 2)) /\ b = SetBit(4, Bit(f, 4))
                        /\ c = SetBit(64, Bit(f, 64)) /\ d = SetBit(128, Bit(f, 128))
  OBVIOUS
<1>7. a + b + m + c + d = f
  BY <1>5, <1>6, ZenonT(60)
<1>8. /\ SetBit(2, p.clean) = a /\ SetBit(4, p.will # {}) = b
      /\ SetBit(64, p.password # {}) = c /\ SetBit(128, p.username # {}) = d
  BY <1>3, <1>6, Zenon
<1> QED BY <1>4, <1>7, <1>8, ZenonT(60)

\* CONNECT.
LEMMA ConnectStems ==
    ASSUME NEW flags, ValidateFlags("CONNECT", flags), NEW body \in Bytes
    PROVE  Stems("CONNECT", flags, body)
<1>1. flags = 0
  BY DEF ValidateFlags, RequiredFlags
<1> SUFFICES ASSUME NEW p, p = DecodeBody("CONNECT", flags, body), p # Bad
             PROVE  Encode(p) = Encoded("CONNECT", flags, Len(body), body)
  BY Zenon DEF Stems
<1>2. PICK head : head = ConnectHead(body)
  OBVIOUS
<1>3. PICK f : f = head.flags
  OBVIOUS
<1>4. PICK tail : tail = ConnectTail(f, head.rest)
  OBVIOUS
<1>5. p = ConnectOf(head, tail)
  <2>1. p = DecodeConnect(body)
    BY DEF DecodeBody, Acks, Simples
  <2> QED BY <1>2, <1>3, <1>4, <2>1, Zenon DEF DecodeConnect
<1>6. PICK W : W = [topic |-> tail.topic, payload |-> tail.payload, qos |-> WillQoS(f),
                    retain |-> Bit(f, 32)]
  OBVIOUS
<1>7. PICK will : will = IF Bit(f, 4) THEN {W} ELSE {}
  OBVIOUS
<1>8. PICK user : user = IF Bit(f, 128) THEN {tail.username} ELSE {}
  OBVIOUS
<1>9. PICK pass : pass = IF Bit(f, 64) THEN {tail.password} ELSE {}
  OBVIOUS
<1>10. /\ head.ok /\ tail.ok /\ head.name = ProtocolName /\ ConnectFlagsOK(f)
       /\ tail.rest = <<>>
       /\ p = [type |-> "CONNECT", level |-> head.level, clean |-> Bit(f, 2),
               keepAlive |-> head.keepAlive, id |-> head.id,
               will |-> will, username |-> user, password |-> pass]
  BY <1>3, <1>5, <1>6, <1>7, <1>8, <1>9, ZenonT(60) DEF ConnectOf
<1>11. /\ p.type = "CONNECT" /\ p.level = head.level /\ p.keepAlive = head.keepAlive
       /\ p.id = head.id /\ p.will = will /\ p.username = user /\ p.password = pass
       /\ p.clean = Bit(f, 2)
  <2>1. PICK clean : clean = Bit(f, 2)
    OBVIOUS
  <2>2. p = [type |-> "CONNECT", level |-> head.level, clean |-> clean,
             keepAlive |-> head.keepAlive, id |-> head.id,
             will |-> will, username |-> user, password |-> pass]
    BY <1>10, <2>1, Zenon
  <2>3. /\ p.type = "CONNECT" /\ p.level = head.level /\ p.keepAlive = head.keepAlive
        /\ p.id = head.id /\ p.will = will /\ p.username = user /\ p.password = pass
        /\ p.clean = clean
    BY <2>2
  <2> QED BY <2>1, <2>3, Zenon
<1>12. /\ head.level \in Byte /\ f \in Byte /\ head.keepAlive \in Word
       /\ head.id \in Text /\ head.rest \in Bytes
       /\ body = (((AppendString(ProtocolName) \o <<head.level, f>>)
                       \o Uint16(head.keepAlive)) \o AppendString(head.id)) \o head.rest
  <2>1. /\ head.level \in Byte /\ head.flags \in Byte /\ head.keepAlive \in Word
        /\ head.id \in Text /\ head.rest \in Bytes
        /\ body = (((AppendString(head.name) \o <<head.level, head.flags>>)
                        \o Uint16(head.keepAlive)) \o AppendString(head.id)) \o head.rest
    BY <1>2, <1>10, ConnectHeadForth
  <2> QED BY <1>3, <1>10, <2>1, Zenon
<1>13. ConnectFlags(p) = f
  <2>3. /\ p.username # {} <=> Bit(f, 128)
        /\ p.password # {} <=> Bit(f, 64)
    BY <1>8, <1>9, <1>11
  <2>1. CASE Bit(f, 4)
    <3>1. will = {W} /\ will # {}
      BY <1>7, <2>1
    <3>3. W.qos = WillQoS(f) /\ W.retain = Bit(f, 32)
      <4>1. PICK on : on = Bit(f, 32)
        OBVIOUS
      <4>2. W = [topic |-> tail.topic, payload |-> tail.payload, qos |-> WillQoS(f),
                 retain |-> on]
        BY <1>6, <4>1, Zenon
      <4>3. W.qos = WillQoS(f) /\ W.retain = on
        BY <4>2
      <4> QED BY <4>1, <4>3, Zenon
    <3>4. \E w : p.will = {w} /\ w.qos = WillQoS(f) /\ w.retain = Bit(f, 32)
      BY <1>11, <3>1, <3>3, Zenon
    <3>5. p.will # {} <=> Bit(f, 4)
      BY <1>11, <2>1, <3>1, Zenon
    <3> QED BY <1>10, <1>11, <1>12, <2>3, <3>4, <3>5, ConnectFlagsSet, Zenon
  <2>2. CASE ~Bit(f, 4)
    <3>1. will = {}
      BY <1>7, <2>2
    <3>2. p.will # {} <=> Bit(f, 4)
      BY <1>11, <2>2, <3>1, Zenon
    <3> QED BY <1>10, <1>11, <1>12, <2>2, <2>3, <3>2, ConnectFlagsSet, Zenon
  <2> QED BY <2>1, <2>2
<1>14. PICK wt, wp : wt = {w.topic : w \in will} /\ wp = {w.payload : w \in will}
  OBVIOUS
<1>15. /\ wt = (IF Bit(f, 4) THEN {tail.topic} ELSE {})
       /\ wp = (IF Bit(f, 4) THEN {tail.payload} ELSE {})
  <2>1. W.topic = tail.topic /\ W.payload = tail.payload
    BY <1>6
  <2>2. CASE Bit(f, 4)
    <3>1. will = {W}
      BY <1>7, <2>2
    <3>2. wt = {W.topic} /\ wp = {W.payload}
      BY <1>14, <3>1
    <3> QED BY <2>1, <2>2, <3>2
  <2>3. CASE ~Bit(f, 4)
    <3>1. will = {}
      BY <1>7, <2>3
    <3>2. wt = {} /\ wp = {}
      BY <1>14, <3>1
    <3> QED BY <2>3, <3>2
  <2> QED BY <2>2, <2>3
<1>16. /\ wt \in Optional(Blob) /\ wp \in Optional(Blob)
       /\ user \in Optional(Blob) /\ pass \in Optional(Blob)
       /\ head.rest = ((OptString(wt) \o OptString(wp)) \o OptString(user)) \o OptString(pass)
  <2>1. tail = ConnectTail(f, head.rest) /\ tail.ok /\ tail.rest = <<>> /\ head.rest \in Bytes
    BY <1>4, <1>10, <1>12, Zenon
  <2>2. TailWritten(f, head.rest, tail)
    BY <2>1, ConnectTailForth, Zenon
  <2> QED BY <1>8, <1>9, <1>15, <2>2, ZenonT(60) DEF TailWritten
<1>17. ConnectOptions(p) = head.rest
  BY <1>11, <1>14, <1>16, Zenon DEF ConnectOptions
<1>18. PICK o1 \in Bytes, o2 \in Bytes, o3 \in Bytes, o4 \in Bytes :
          /\ o1 = OptString(wt) /\ o2 = OptString(wp)
          /\ o3 = OptString(user) /\ o4 = OptString(pass)
  BY <1>16, OptStringType
<1>19. /\ OptSize(wt) = Len(o1) /\ OptSize(wp) = Len(o2)
       /\ OptSize(user) = Len(o3) /\ OptSize(pass) = Len(o4)
  BY <1>16, <1>18, OptStringType
<1>20. PICK o12 \in Bytes : o12 = o1 \o o2 /\ Len(o12) = Len(o1) + Len(o2)
  BY Cat
<1>21. PICK o13 \in Bytes : o13 = o12 \o o3 /\ Len(o13) = Len(o12) + Len(o3)
  BY Cat
<1>22. PICK o \in Bytes : o = o13 \o o4 /\ Len(o) = Len(o13) + Len(o4)
  BY Cat
<1>23. head.rest = o
  BY <1>16, <1>18, <1>20, <1>21, <1>22, Zenon
<1>24. PICK a \in Bytes, b \in Bytes, d \in Bytes, e \in Bytes :
          /\ a = AppendString(ProtocolName) /\ b = <<head.level, f>>
          /\ d = Uint16(head.keepAlive) /\ e = AppendString(head.id)
          /\ Len(a) = 6 /\ Len(b) = 2 /\ Len(d) = 2 /\ Len(e) = StringSize(head.id)
  <2>1. /\ AppendString(ProtocolName) \in Bytes /\ AppendString(head.id) \in Bytes
        /\ Len(AppendString(ProtocolName)) = StringSize(ProtocolName)
        /\ Len(AppendString(head.id)) = StringSize(head.id)
    BY <1>12, TextIsBlob, ProtocolNameText, AppendType
  <2>2. <<head.level, f>> \in Bytes /\ Len(<<head.level, f>>) = 2
    BY <1>12, TwoInOne
  <2>3. StringSize(ProtocolName) = 6
    BY SMT DEF StringSize, ProtocolName
  <2>4. Uint16(head.keepAlive) \in Bytes /\ Len(Uint16(head.keepAlive)) = 2
    BY <1>12, Uint16Type
  <2> QED BY <2>1, <2>2, <2>3, <2>4
<1>25. PICK ab \in Bytes : ab = a \o b /\ Len(ab) = Len(a) + Len(b)
  BY Cat
<1>26. PICK ad \in Bytes : ad = ab \o d /\ Len(ad) = Len(ab) + Len(d)
  BY Cat
<1>27. PICK ae \in Bytes : ae = ad \o e /\ Len(ae) = Len(ad) + Len(e)
  BY Cat
<1>28. body = ae \o o /\ Len(body) = Len(ae) + Len(o)
  <2>1. body = ae \o o
    BY <1>12, <1>23, <1>24, <1>25, <1>26, <1>27, Zenon
  <2>2. Len(ae \o o) = Len(ae) + Len(o)
    BY Cat
  <2> QED BY <2>1, <2>2, Zenon
<1>29. ConnectLength(p) = Len(body)
  <2>1. StringSize(ProtocolName) = 6
    BY SMT DEF StringSize, ProtocolName
  <2>2. ConnectLength(p) = 6 + 1 + 1 + 2 + Len(e) + Len(o1) + Len(o2) + Len(o3) + Len(o4)
    BY <1>11, <1>14, <1>19, <1>24, <2>1, Zenon DEF ConnectLength
  <2>3. Len(body) = (6 + 2 + 2 + Len(e)) + (Len(o1) + Len(o2) + Len(o3) + Len(o4))
    BY <1>20, <1>21, <1>22, <1>24, <1>25, <1>26, <1>27, <1>28, ZenonT(60)
  <2>4. /\ Len(e) \in Nat /\ Len(o1) \in Nat /\ Len(o2) \in Nat /\ Len(o3) \in Nat
        /\ Len(o4) \in Nat
    BY DEF Bytes
  <2>5. PICK n \in Nat, n1 \in Nat, n2 \in Nat, n3 \in Nat, n4 \in Nat :
           n = Len(e) /\ n1 = Len(o1) /\ n2 = Len(o2) /\ n3 = Len(o3) /\ n4 = Len(o4)
    BY <2>4, Zenon
  <2>6. 6 + 1 + 1 + 2 + n + n1 + n2 + n3 + n4 = (6 + 2 + 2 + n) + (n1 + n2 + n3 + n4)
    BY SMT
  <2> QED BY <2>2, <2>3, <2>5, <2>6, Zenon
<1>30. Encode(p) = EncodeConnect(p)
  BY <1>11 DEF Encode, Acks, Simples
<1>31. EncodeConnect(p) = Encoded("CONNECT", 0, Len(body), body)
  BY <1>11, <1>13, <1>17, <1>23, <1>24, <1>25, <1>26, <1>27, <1>28, <1>29,
     Zenon DEF EncodeConnect
<1> QED BY <1>1, <1>30, <1>31, Zenon

\* Every body stems from the encoder of its type.
LEMMA BodyStems ==
    ASSUME NEW t \in PacketTypes, NEW flags \in 0..15, ValidateFlags(t, flags),
           NEW body \in Bytes
    PROVE  Stems(t, flags, body)
<1>1. \/ t = "CONNECT" \/ t = "CONNACK" \/ t = "PUBLISH" \/ t \in Acks \/ t \in Simples
      \/ t \in Kinds \/ t = "SUBACK"
  BY TypesAre DEF PacketTypes, Acks, Simples, Kinds
<1>2. CASE t = "CONNECT"
  BY <1>2, ConnectStems
<1>3. CASE t = "CONNACK"
  BY <1>3, ConnackStems
<1>4. CASE t = "PUBLISH"
  BY <1>4, PublishStems
<1>5. CASE t \in Acks
  BY <1>5, AckStems
<1>6. CASE t \in Simples
  BY <1>6, SimpleStems
<1>7. CASE t \in Kinds
  BY <1>7, SubscribeStems
<1>8. CASE t = "SUBACK"
  BY <1>8, SubackStems
<1> QED BY <1>1, <1>2, <1>3, <1>4, <1>5, <1>6, <1>7, <1>8

\* A header byte that is taken is put together again from its type and its flags.
LEMMA HeaderForth ==
    ASSUME NEW h \in Byte, HeaderOK(h)
    PROVE  /\ Types[h \div 16] \in PacketTypes /\ h % 16 \in 0..15
           /\ ValidateFlags(Types[h \div 16], h % 16)
           /\ 16 * Nibble(Types[h \div 16]) + (h % 16) = h
<1>1. h \div 16 \in 1..14 /\ ValidateFlags(Types[h \div 16], h % 16)
  BY TypesAre, Zenon DEF HeaderOK
<1>2. h % 16 \in 0..15 /\ 16 * (h \div 16) + (h % 16) = h
  BY SMT DEF Byte
<1>3. Nibble(Types[h \div 16]) = h \div 16
  BY <1>1, NibbleIs
<1>4. Types[h \div 16] \in PacketTypes
  BY <1>1, Zenon DEF PacketTypes
<1> QED BY <1>1, <1>2, <1>3, <1>4, Zenon

\* Bytes that agree with a frame, one after the other, begin with it.
LEMMA FrameIsPrefix ==
    ASSUME NEW buf \in Bytes, NEW e \in Bytes, Len(e) <= Len(buf),
           \A i \in 1..Len(e) : e[i] = buf[i]
    PROVE  IsPrefix(e, buf)
<1>1. Len(e) \in Nat /\ Len(buf) \in Nat
  BY DEF Bytes
<1>2. SubSeq(e, 1, Len(e)) = e
  BY SubSeqFull DEF Bytes
<1>3. PICK n \in Nat : n = Len(e)
  BY <1>1
<1>4. PICK c \in Bytes : c = SubSeq(buf, 1, n) /\ Len(c) = n /\ \A i \in 1..n : c[i] = buf[i]
  <2>1. 1 <= n + 1 /\ n <= Len(buf) /\ n - 1 + 1 = n /\ \A i \in 1..n : 1 + i - 1 = i
    BY <1>3
  <2>2. /\ SubSeq(buf, 1, n) \in Bytes /\ Len(SubSeq(buf, 1, n)) = n - 1 + 1
        /\ \A i \in 1..(n - 1 + 1) : SubSeq(buf, 1, n)[i] = buf[1 + i - 1]
    BY <2>1, Part
  <2> QED BY <2>1, <2>2, Zenon
<1>5. e = c
  <2>1. \A i \in 1..Len(e) : e[i] = c[i]
    BY <1>3, <1>4, Zenon
  <2> QED BY <1>3, <1>4, <2>1, SameBytes
<1> QED BY <1>2, <1>3, <1>4, <1>5, Zenon DEF IsPrefix

\* The bytes of a slice that begins after the first x bytes and is n bytes long.
LEMMA SliceIs ==
    ASSUME NEW buf \in Bytes, NEW x \in Nat, NEW n \in Nat, x + n <= Len(buf)
    PROVE  /\ SubSeq(buf, x + 1, x + n) \in Bytes /\ Len(SubSeq(buf, x + 1, x + n)) = n
           /\ \A i \in 1..n : SubSeq(buf, x + 1, x + n)[i] = buf[x + i]
<1>1. PICK lo \in Nat, hi \in Nat : lo = x + 1 /\ hi = x + n
  OBVIOUS
<1>2. lo >= 1 /\ lo <= hi + 1 /\ hi <= Len(buf) /\ hi - lo + 1 = n
  BY <1>1
<1>3. \A i \in 1..n : lo + i - 1 = x + i
  BY <1>1
<1>4. /\ SubSeq(buf, lo, hi) \in Bytes /\ Len(SubSeq(buf, lo, hi)) = hi - lo + 1
      /\ \A i \in 1..(hi - lo + 1) : SubSeq(buf, lo, hi)[i] = buf[lo + i - 1]
  BY <1>2, Part
<1>5. /\ SubSeq(buf, lo, hi) \in Bytes /\ Len(SubSeq(buf, lo, hi)) = n
      /\ \A i \in 1..n : SubSeq(buf, lo, hi)[i] = buf[lo + i - 1]
  BY <1>2, <1>4, Zenon
<1>6. \A i \in 1..n : SubSeq(buf, lo, hi)[i] = buf[x + i]
  BY <1>3, <1>5, Zenon
<1> QED BY <1>1, <1>5, <1>6, Zenon

\* What two runs of bytes of lengths k and n are one after the other.
Joined(b, c, k, n) ==
    /\ b \o c \in Bytes /\ Len(b \o c) = k + n
    /\ \A i \in 1..k : (b \o c)[i] = b[i]
    /\ \A i \in 1..n : (b \o c)[k + i] = c[i]

\* Two runs of bytes one after the other, by the lengths they are known to have.
LEMMA JoinIs ==
    ASSUME NEW b \in Bytes, NEW c \in Bytes
    PROVE  \A k, n : Len(b) = k /\ Len(c) = n => Joined(b, c, k, n)
<1>1. /\ b \o c \in Bytes /\ Len(b \o c) = Len(b) + Len(c)
      /\ \A i \in 1..Len(b) : (b \o c)[i] = b[i]
      /\ \A i \in 1..Len(c) : (b \o c)[Len(b) + i] = c[i]
  BY Cat
<1> QED BY <1>1, Zenon DEF Joined

\* The decoders take nothing for a packet that the encoders would not have written:
\* whatever the input, what is decoded is that packet's own encoding, with more after
\* it at most, unless its length is spelled with more bytes than it needs or it is a
\* refusing CONNACK that claims a session.
THEOREM DecodedWasEncoded ==
    \A buf \in Seq(Byte) \ {<<>>} : \A p :
        p = Decode(buf) /\ p # Bad /\ Minimal(buf) /\ ~ClaimsSession(p)
            => IsPrefix(Encode(p), buf)
<1> SUFFICES ASSUME NEW buf \in Bytes, buf # <<>>, NEW p, p = Decode(buf), p # Bad,
                    Minimal(buf), ~ClaimsSession(p)
             PROVE  IsPrefix(Encode(p), buf)
  BY Zenon DEF Bytes
<1>1. PICK v \in Bytes : /\ v = Tail(buf) /\ Len(v) = Len(buf) - 1
                         /\ \A i \in 1..(Len(buf) - 1) : v[i] = buf[i + 1]
  BY TailIs
<1>2. Len(buf) \in Nat /\ Len(buf) >= 1 /\ buf[1] \in Byte
  BY TailIs
<1>3. PICK d : d = DecodeRemainingLength(v)
  OBVIOUS
<1>4. PICK m : m = LengthEnd(v)
  OBVIOUS
<1>5. PICK n : n = d.value
  OBVIOUS
<1>6. d.ok = (m > 0) /\ d.consumed = m
  BY <1>3, <1>4 DEF DecodeRemainingLength
<1>7. PICK h \in Byte : h = buf[1]
  BY <1>2
<1>8. /\ HeaderOK(h) /\ d.ok /\ ~(Len(buf) < (1 + m) + n)
      /\ p = DecodeBody(Types[h \div 16], h % 16, SubSeq(buf, (1 + m) + 1, (1 + m) + n))
  BY <1>1, <1>3, <1>5, <1>6, <1>7, Zenon DEF Decode
<1>9. m \in 1..4 /\ m \in Nat
  <2>1. m > 0
    BY <1>6, <1>8, Zenon
  <2>2. m = 0 \/ m \in 1..4
    BY <1>4, BytesLengthEnd
  <2> QED BY <2>1, <2>2
<1>10. m = RemainingLengthSize(n)
  BY <1>1, <1>3, <1>5, <1>6, Zenon DEF Minimal
<1>11. n \in 0..MaxRemainingLength /\ \A i \in 1..m : v[i] = EncodeRemainingLength(n)[i]
  <2>1. n = DecodeRemainingLength(v).value
    BY <1>3, <1>5
  <2> QED BY <1>4, <1>9, <1>10, <2>1, LengthForth, ZenonT(60)
<1>12. n \in Nat /\ n <= MaxRemainingLength
  <2>1. MaxRemainingLength \in Nat
    BY SMT DEF MaxRemainingLength
  <2> QED BY <1>11, <2>1, SMT
<1>13. PICK t, flags : t = Types[h \div 16] /\ flags = h % 16
  OBVIOUS
<1>14. /\ t \in PacketTypes /\ flags \in 0..15 /\ ValidateFlags(t, flags)
       /\ 16 * Nibble(t) + flags = h
  BY <1>8, <1>13, HeaderForth
<1>15. Len(buf) >= (1 + m) + n /\ (1 + m) + 1 = 2 + m
  BY <1>2, <1>8, <1>9, <1>12
<1>16. PICK body \in Bytes : /\ body = SubSeq(buf, (1 + m) + 1, (1 + m) + n) /\ Len(body) = n
                             /\ \A i \in 1..n : body[i] = buf[(1 + m) + i]
  <2>1. PICK x \in Nat : x = 1 + m
    BY <1>9
  <2>2. x + n <= Len(buf)
    BY <1>2, <1>9, <1>12, <1>15, <2>1
  <2>3. /\ SubSeq(buf, x + 1, x + n) \in Bytes /\ Len(SubSeq(buf, x + 1, x + n)) = n
        /\ \A i \in 1..n : SubSeq(buf, x + 1, x + n)[i] = buf[x + i]
    BY <1>12, <2>2, SliceIs
  <2> QED BY <2>1, <2>3, Zenon
<1>17. Encode(p) = Encoded(t, flags, n, body)
  <2>1. Stems(t, flags, body)
    BY <1>14, BodyStems
  <2>2. p = DecodeBody(t, flags, body)
    BY <1>8, <1>13, <1>16, Zenon
  <2>3. Encode(p) = Encoded(t, flags, Len(body), body)
    BY <2>1, <2>2, Zenon DEF Stems
  <2> QED BY <1>16, <2>3, Zenon
<1>18. PICK a \in Bytes : a = <<h>> /\ Len(a) = 1 /\ a[1] = h
  <2>1. <<h>> \in Bytes /\ Len(<<h>>) = 1 /\ <<h>>[1] = h
    BY DEF Bytes
  <2> QED BY <2>1
<1>19. PICK l \in Bytes : l = EncodeRemainingLength(n) /\ Len(l) = m
  BY <1>10, <1>11, EncodedDigits DEF Bytes
<1>20. PICK b \in Bytes : /\ b = a \o l /\ Len(b) = 1 + m /\ b[1] = h
                          /\ \A i \in 1..m : b[1 + i] = l[i]
  <2>1. /\ a \o l \in Bytes /\ Len(a \o l) = Len(a) + Len(l)
        /\ \A i \in 1..Len(a) : (a \o l)[i] = a[i]
        /\ \A i \in 1..Len(l) : (a \o l)[Len(a) + i] = l[i]
    BY Cat
  <2>2. 1 \in 1..1
    OBVIOUS
  <2> QED BY <1>18, <1>19, <2>1, <2>2, Zenon
<1>21. PICK e \in Bytes : /\ e = b \o body /\ Len(e) = (1 + m) + n
                          /\ \A i \in 1..(1 + m) : e[i] = b[i]
                          /\ \A i \in 1..n : e[(1 + m) + i] = body[i]
  <2>1. PICK k : k = 1 + m
    OBVIOUS
  <2>2. b \in Bytes /\ body \in Bytes /\ Len(b) = k /\ Len(body) = n
    BY <1>16, <1>20, <2>1, Zenon
  <2>3. \A k1, n1 : Len(b) = k1 /\ Len(body) = n1 => Joined(b, body, k1, n1)
    BY <2>2, JoinIs
  <2>4. Joined(b, body, k, n)
    BY <2>2, <2>3, Zenon
  <2> QED BY <2>1, <2>4, Zenon DEF Joined
<1>22. Encode(p) = e
  BY <1>14, <1>17, <1>18, <1>19, <1>20, <1>21, Zenon DEF Encoded
<1>23. ASSUME NEW i \in 1..Len(e) PROVE e[i] = buf[i]
  <2>1. i \in 1..((1 + m) + n)
    BY <1>21, Zenon
  <2>2. CASE i = 1
    <3>1. 1 \in 1..(1 + m)
      BY <1>9
    <3>2. e[1] = b[1]
      BY <1>21, <3>1, Zenon
    <3> QED BY <1>7, <1>20, <2>2, <3>2, Zenon
  <2>3. CASE i # 1 /\ i <= 1 + m
    <3>1. PICK j \in 1..m : i = 1 + j
      <4>1. i - 1 \in 1..m /\ i = 1 + (i - 1)
        BY <1>9, <2>1, <2>3
      <4> QED BY <4>1
    <3>2. i \in 1..(1 + m) /\ j \in 1..(Len(buf) - 1) /\ j + 1 = i
      BY <1>2, <1>9, <1>12, <1>15, <3>1
    <3>3. e[i] = b[i]
      BY <1>21, <3>2, Zenon
    <3>4. b[i] = l[j]
      BY <1>20, <3>1, Zenon
    <3>5. l[j] = v[j]
      BY <1>11, <1>19, Zenon
    <3>6. v[j] = buf[i]
      BY <1>1, <3>2, Zenon
    <3> QED BY <3>3, <3>4, <3>5, <3>6, Zenon
  <2>4. CASE ~(i <= 1 + m)
    <3>1. PICK j \in 1..n : i = (1 + m) + j
      <4>1. i - (1 + m) \in 1..n /\ i = (1 + m) + (i - (1 + m))
        BY <1>9, <1>12, <2>1, <2>4
      <4> QED BY <4>1
    <3> QED BY <1>16, <1>21, <3>1, Zenon
  <2> QED BY <2>2, <2>3, <2>4
<1>24. Len(e) <= Len(buf)
  BY <1>15, <1>21, <1>2, <1>9, <1>12
<1> QED BY <1>22, <1>23, <1>24, FrameIsPrefix

\* Every set of inputs is read canonically, whatever the connection does.
THEOREM CanonicalAlways == NoneMisread /\ (Spec => []Canonical)
<1>1. Misread(Inputs) = {}
  BY WireAssumption, DecodedWasEncoded, Zenon DEF Misread, WireAssumption, ClaimsSession
<1>2. NoneMisread
  BY <1>1, Zenon DEF NoneMisread
<1>3. Canonical
  BY <1>2, Zenon DEF Canonical
<1> QED BY <1>2, <1>3, PTL
============================================================================
