---------------------------- MODULE RanNameProofs ----------------------------
(***************************************************************************)
(* Proofs about RanName, for any E2 nodes: when two of them can have one   *)
(* name, how long a name can be, and what its digits are the value of.     *)
(***************************************************************************)
EXTENDS RanName, SequenceTheorems, TLAPS

\* Kinds of E2 node whose names have room for the whole PLMN.
Fits == \A id \in Identities : PrefixSize[Prefix(id)] + 7 <= PlmnRoom

\* PLMNs are decimal digits, as 3GPP has them; nothing that decodes a setup request
\* checks it.
DecimalPlmns == \A id \in Identities : DecimalPlmn(id.plmn)

\* In one network the MNCs have one size, and so have the numbers of one kind of
\* E2 node.
SameSizes ==
  \A a, b \in Identities :
    Prefix(a) = Prefix(b) => /\ a.bits.unused = b.bits.unused
                             /\ a.plmn[2].hi = 15 <=> b.plmn[2].hi = 15

-----------------------------------------------------------------------------
(* Bit strings.                                                            *)

LEMMA Powers ==
  ASSUME NEW u \in 0..7
  PROVE  \/ (Power(u) = 1 /\ Power(8 - u) = 256) \/ (Power(u) = 2 /\ Power(8 - u) = 128)
         \/ (Power(u) = 4 /\ Power(8 - u) = 64) \/ (Power(u) = 8 /\ Power(8 - u) = 32)
         \/ (Power(u) = 16 /\ Power(8 - u) = 16) \/ (Power(u) = 32 /\ Power(8 - u) = 8)
         \/ (Power(u) = 64 /\ Power(8 - u) = 4) \/ (Power(u) = 128 /\ Power(8 - u) = 2)
BY DEF Power

LEMMA Radix ==
  ASSUME NEW r \in Nat, NEW x \in Nat, NEW y \in Nat, NEW z \in Nat, NEW w \in Nat,
         y < r, w < r, x * r + y = z * r + w
  PROVE  x = z /\ y = w
<1>1. x = z
  BY SMTT(30)
<1> QED
  BY <1>1

\* An octet of the name, made of two octets of the bit string, and the parts of
\* an octet of the bit string.
Octet == 0..255
Unused == 0..7
Printed(u, a, b) == (a * Power(8 - u) + b \div Power(u)) % 256
Low(u, a) == a % Power(u)
High(u, a) == a \div Power(u)

\* The used and the unused bits of an octet, and the room for the used ones.
LEMMA OctetDivided ==
  ASSUME NEW u \in 0..7, NEW b \in 0..255
  PROVE  /\ Low(u, b) \in Nat /\ High(u, b) \in Nat
         /\ Low(u, b) < Power(u) /\ High(u, b) < Power(8 - u)
         /\ b = Power(u) * High(u, b) + Low(u, b)
<1> DEFINE P == Power(u)
           R == Power(8 - u)
<1>1. \/ (P = 1 /\ R = 256) \/ (P = 2 /\ R = 128) \/ (P = 4 /\ R = 64) \/ (P = 8 /\ R = 32)
      \/ (P = 16 /\ R = 16) \/ (P = 32 /\ R = 8) \/ (P = 64 /\ R = 4) \/ (P = 128 /\ R = 2)
  BY Powers
<1> HIDE DEF P, R
<1>2. /\ b % P \in Nat /\ b \div P \in Nat /\ b % P < P /\ b \div P < R
      /\ b = P * (b \div P) + (b % P)
  BY <1>1
<1> QED
  BY <1>2, Zenon DEF P, R, Low, High

\* What is shifted out at the top goes away, what is shifted in has its place.
LEMMA PrintedIs ==
  ASSUME NEW u \in 0..7, NEW a \in 0..255, NEW b \in 0..255
  PROVE  Printed(u, a, b) = Low(u, a) * Power(8 - u) + High(u, b)
<1> DEFINE P == Power(u)
           R == Power(8 - u)
<1>0. \/ (P = 1 /\ R = 256) \/ (P = 2 /\ R = 128) \/ (P = 4 /\ R = 64) \/ (P = 8 /\ R = 32)
      \/ (P = 16 /\ R = 16) \/ (P = 32 /\ R = 8) \/ (P = 64 /\ R = 4) \/ (P = 128 /\ R = 2)
  BY Powers
<1> HIDE DEF P, R
<1>1. (P = 1 /\ R = 256) => (a * R + b \div P) % 256 = (a % P) * R + b \div P
  OBVIOUS
<1>2. (P = 2 /\ R = 128) => (a * R + b \div P) % 256 = (a % P) * R + b \div P
  OBVIOUS
<1>3. (P = 4 /\ R = 64) => (a * R + b \div P) % 256 = (a % P) * R + b \div P
  OBVIOUS
<1>4. (P = 8 /\ R = 32) => (a * R + b \div P) % 256 = (a % P) * R + b \div P
  OBVIOUS
<1>5. (P = 16 /\ R = 16) => (a * R + b \div P) % 256 = (a % P) * R + b \div P
  OBVIOUS
<1>6. (P = 32 /\ R = 8) => (a * R + b \div P) % 256 = (a % P) * R + b \div P
  OBVIOUS
<1>7. (P = 64 /\ R = 4) => (a * R + b \div P) % 256 = (a % P) * R + b \div P
  OBVIOUS
<1>8. (P = 128 /\ R = 2) => (a * R + b \div P) % 256 = (a % P) * R + b \div P
  OBVIOUS
<1>9. (a * R + b \div P) % 256 = (a % P) * R + b \div P
  BY <1>0, <1>1, <1>2, <1>3, <1>4, <1>5, <1>6, <1>7, <1>8, Zenon
<1> QED
  BY <1>9, Zenon DEF P, R, Low, High, Printed

\* An octet of the name tells the used bits of the octet and the unused bits of
\* the octet before.
LEMMA PrintedParts ==
  \A u \in Unused : \A a, b, c, d \in Octet :
    Printed(u, a, b) = Printed(u, c, d) => Low(u, a) = Low(u, c) /\ High(u, b) = High(u, d)
<1> SUFFICES ASSUME NEW u \in 0..7, NEW a \in 0..255, NEW b \in 0..255, NEW c \in 0..255,
                    NEW d \in 0..255, Printed(u, a, b) = Printed(u, c, d)
             PROVE  Low(u, a) = Low(u, c) /\ High(u, b) = High(u, d)
  BY DEF Octet, Unused
<1> DEFINE x == Low(u, a)
           y == High(u, b)
           z == Low(u, c)
           w == High(u, d)
           R == Power(8 - u)
<1>1. x * R + y = z * R + w
  <2>1. /\ Printed(u, a, b) = x * R + y
        /\ Printed(u, c, d) = z * R + w
    BY PrintedIs, Zenon DEF Octet, Unused
  <2> HIDE DEF x, y, z, w, R
  <2> QED
    BY <2>1, Zenon
<1>2. x \in Nat /\ y \in Nat /\ z \in Nat /\ w \in Nat /\ y < R /\ w < R
  BY OctetDivided
<1>3. R \in Nat
  BY Powers
<1> HIDE DEF x, y, z, w, R
<1>4. x = z /\ y = w
  BY <1>1, <1>2, <1>3, Radix
<1> QED
  BY <1>4, Zenon DEF x, y, z, w

LEMMA PutTogether ==
  \A u \in 0..7, a \in 0..255, b \in 0..255 : a * Power(8 - u) + b \div Power(u) \in Nat
<1> SUFFICES ASSUME NEW u \in 0..7, NEW a \in 0..255, NEW b \in 0..255
             PROVE  a * Power(8 - u) + b \div Power(u) \in Nat
  OBVIOUS
<1> DEFINE P == Power(u)
           R == Power(8 - u)
<1>1. P \in {1, 2, 4, 8, 16, 32, 64, 128} /\ R \in Nat
  BY Powers
<1> HIDE DEF P, R
<1>2. b \div P \in Nat
  BY <1>1
<1>3. a * R + b \div P \in Nat
  BY <1>1, <1>2
<1> QED
  BY <1>3 DEF P, R

LEMMA TwoDigits ==
  ASSUME NEW s \in Nat, NEW t \in Nat, (s \div 16) % 16 = (t \div 16) % 16, s % 16 = t % 16
  PROVE  s % 256 = t % 256
OBVIOUS

\* An octet is its used and its unused bits.
LEMMA OctetParts ==
  ASSUME NEW u \in 0..7, NEW b \in 0..255, NEW d \in 0..255,
         b % Power(u) = d % Power(u), b \div Power(u) = d \div Power(u)
  PROVE  b = d
<1>1. Power(u) \in {1, 2, 4, 8, 16, 32, 64, 128}
  BY Powers
<1> QED
  BY <1>1

LEMMA ShiftedOctet ==
  ASSUME NEW x \in BitStrings, NEW i \in 1..Len(x.buf)
  PROVE  LET before == IF i = 1 THEN 0 ELSE x.buf[i - 1]
         IN  /\ x.unused \in 0..7 /\ x.buf[i] \in 0..255 /\ before \in 0..255
             /\ Shifted(x, i) = before * Power(8 - x.unused) + x.buf[i] \div Power(x.unused)
             /\ Shifted(x, i) \in Nat
<1> DEFINE before == IF i = 1 THEN 0 ELSE x.buf[i - 1]
<1>1. x.buf \in Seq(0..255) /\ x.unused \in 0..7
  BY DEF BitStrings
<1>2. \A k \in 1..Len(x.buf) : x.buf[k] \in 0..255
  BY <1>1, ElementOfSeq
<1>3. before \in 0..255
  <2>1. CASE i = 1
    BY <2>1
  <2>2. CASE i # 1
    <3>1. i - 1 \in 1..Len(x.buf)
      BY <1>1, <2>2
    <3> QED
      BY <1>2, <2>2, <3>1
  <2> QED
    BY <2>1, <2>2
<1>4. Shifted(x, i) = before * Power(8 - x.unused) + x.buf[i] \div Power(x.unused)
  BY DEF Shifted
<1> HIDE DEF before
<1>5. before * Power(8 - x.unused) + x.buf[i] \div Power(x.unused) \in Nat
  BY <1>1, <1>2, <1>3, PutTogether
<1> QED
  BY <1>1, <1>2, <1>3, <1>4, <1>5 DEF before

\* The octet before one of a bit string.
Before(z, i) == IF i = 1 THEN 0 ELSE z.buf[i - 1]

LEMMA SameDigits ==
  ASSUME NEW x \in BitStrings, NEW y \in BitStrings, NEW i \in 1..Len(x.buf), i \in 1..Len(y.buf),
         x.unused = y.unused, BitDigits(x)[i] = BitDigits(y)[i]
  PROVE  /\ Low(x.unused, Before(x, i)) = Low(x.unused, Before(y, i))
         /\ High(x.unused, x.buf[i]) = High(x.unused, y.buf[i])
<1>1. /\ (Shifted(x, i) \div 16) % 16 = (Shifted(y, i) \div 16) % 16
      /\ Shifted(x, i) % 16 = Shifted(y, i) % 16
  BY DEF BitDigits
<1>2. /\ x.unused \in 0..7 /\ x.buf[i] \in 0..255 /\ Before(x, i) \in 0..255
      /\ Shifted(x, i) = Before(x, i) * Power(8 - x.unused) + x.buf[i] \div Power(x.unused)
      /\ Shifted(x, i) \in Nat
  BY ShiftedOctet DEF Before
<1>3. /\ y.buf[i] \in 0..255 /\ Before(y, i) \in 0..255
      /\ Shifted(y, i) = Before(y, i) * Power(8 - x.unused) + y.buf[i] \div Power(x.unused)
      /\ Shifted(y, i) \in Nat
  BY ShiftedOctet DEF Before
<1>4. Shifted(x, i) % 256 = Shifted(y, i) % 256
  <2> DEFINE s == Shifted(x, i)
             t == Shifted(y, i)
  <2>1. s \in Nat /\ t \in Nat
    BY <1>2, <1>3, Zenon
  <2>2. (s \div 16) % 16 = (t \div 16) % 16 /\ s % 16 = t % 16
    BY <1>1, Zenon
  <2> HIDE DEF s, t
  <2>3. s % 256 = t % 256
    BY <2>1, <2>2, TwoDigits
  <2> QED
    BY <2>3 DEF s, t
<1>5. Printed(x.unused, Before(x, i), x.buf[i]) = Printed(x.unused, Before(y, i), y.buf[i])
  BY <1>2, <1>3, <1>4, Zenon DEF Printed
<1>6. /\ x.unused \in Unused /\ Before(x, i) \in Octet /\ x.buf[i] \in Octet
      /\ Before(y, i) \in Octet /\ y.buf[i] \in Octet
  BY <1>2, <1>3 DEF Octet, Unused
<1> QED
  BY <1>5, <1>6, PrintedParts

\* A bit string as it is decoded.
Padded(z) == Len(z.buf) \in 1..4 /\ z.buf[Len(z.buf)] % Power(z.unused) = 0

\* The digits of a bit string determine it, among those of one size.
LEMMA BitsDetermined ==
  ASSUME NEW x \in BitStrings, NEW y \in BitStrings, Padded(x), Padded(y),
         x.unused = y.unused, BitDigits(x) = BitDigits(y)
  PROVE  x = y
<1>0. /\ Len(x.buf) \in 1..4 /\ Len(y.buf) \in 1..4
      /\ x.buf[Len(x.buf)] % Power(x.unused) = 0 /\ y.buf[Len(y.buf)] % Power(y.unused) = 0
  BY Zenon DEF Padded
<1> DEFINE u == x.unused
           n == Len(x.buf)
<1>1. /\ u \in 0..7 /\ x.buf \in Seq(0..255) /\ y.buf \in Seq(0..255)
      /\ x = [buf |-> x.buf, unused |-> u] /\ y = [buf |-> y.buf, unused |-> u]
  BY DEF BitStrings
<1>2. Len(y.buf) = n
  <2>1. DOMAIN BitDigits(x) = 1..Len(x.buf) /\ DOMAIN BitDigits(y) = 1..Len(y.buf)
    BY DEF BitDigits
  <2>2. 1..Len(x.buf) = 1..Len(y.buf) /\ Len(x.buf) \in Nat /\ Len(y.buf) \in Nat
    BY <1>1, <2>1
  <2> QED
    BY <2>2
<1>3. ASSUME NEW i \in 1..n
      PROVE  /\ Before(x, i) % Power(u) = Before(y, i) % Power(u)
             /\ x.buf[i] \div Power(u) = y.buf[i] \div Power(u)
  BY <1>2, SameDigits DEF Low, High
<1>4. ASSUME NEW i \in 1..n PROVE x.buf[i] = y.buf[i]
  <2>1. x.buf[i] % Power(u) = y.buf[i] % Power(u)
    <3>1. CASE i = n
      BY <1>0, <1>2, <3>1
    <3>2. CASE i < n
      <4>1. i + 1 \in 1..n /\ i + 1 # 1 /\ i + 1 - 1 = i
        BY <1>1, <3>2
      <4>2. Before(x, i + 1) = x.buf[i] /\ Before(y, i + 1) = y.buf[i]
        BY <4>1 DEF Before
      <4> QED
        BY <1>3, <4>1, <4>2
    <3> QED
      BY <1>1, <3>1, <3>2
  <2>2. x.buf[i] \in 0..255 /\ y.buf[i] \in 0..255
    BY <1>2, ShiftedOctet
  <2> QED
    BY <1>1, <1>3, <2>1, <2>2, OctetParts
<1>5. x.buf = y.buf
  BY <1>1, <1>2, <1>4
<1> QED
  BY <1>1, <1>5

-----------------------------------------------------------------------------
(* The value of the digits.  Bit strings have at most four octets, so the  *)
(* recursion of Value can be written out.                                  *)

\* Horner's scheme over the first i octets, written out for up to four of them.
Horner(f, i) ==
  CASE i = 0 -> 0
    [] i = 1 -> f[1]
    [] i = 2 -> f[1] * 256 + f[2]
    [] i = 3 -> (f[1] * 256 + f[2]) * 256 + f[3]
    [] i = 4 -> ((f[1] * 256 + f[2]) * 256 + f[3]) * 256 + f[4]

\* One step of the recursion of Value.
Extends(f, n, g) == [i \in 0..n |-> IF i = 0 THEN 0 ELSE g[i - 1] * 256 + f[i]]

LEMMA RecursionUnrolled ==
  ASSUME NEW n \in 1..4, NEW f, \A i \in 1..n : f[i] \in Nat, NEW g, g = Extends(f, n, g)
  PROVE  g[n] = Horner(f, n)
<1>1. g[0] = 0
  BY DEF Extends
<1>2. g[1] = f[1]
  <2>1. g[1] = g[1 - 1] * 256 + f[1]
    BY DEF Extends
  <2> QED
    BY <1>1, <2>1
<1>3. n > 1 => g[2] = g[1] * 256 + f[2]
  <2>1. n > 1 => g[2] = g[2 - 1] * 256 + f[2]
    BY DEF Extends
  <2> QED
    BY <2>1
<1>4. n > 2 => g[3] = g[2] * 256 + f[3]
  <2>1. n > 2 => g[3] = g[3 - 1] * 256 + f[3]
    BY DEF Extends
  <2> QED
    BY <2>1
<1>5. n > 3 => g[4] = g[3] * 256 + f[4]
  <2>1. n > 3 => g[4] = g[4 - 1] * 256 + f[4]
    BY DEF Extends
  <2> QED
    BY <2>1
<1>6. n = 1 \/ n = 2 \/ n = 3 \/ n = 4
  OBVIOUS
<1>7. CASE n = 1
  BY <1>2, <1>7 DEF Horner
<1>8. CASE n = 2
  BY <1>2, <1>3, <1>8 DEF Horner
<1>9. CASE n = 3
  BY <1>2, <1>3, <1>4, <1>9 DEF Horner
<1>10. CASE n = 4
  BY <1>2, <1>3, <1>4, <1>5, <1>10 DEF Horner
<1> QED
  BY <1>6, <1>7, <1>8, <1>9, <1>10

LEMMA RecursionExists ==
  ASSUME NEW n \in 1..4, NEW f, \A i \in 1..n : f[i] \in Nat
  PROVE  \E g : g = Extends(f, n, g)
<1> DEFINE H == [i \in 0..n |-> Horner(f, i)]
<1>1. ASSUME NEW i \in 0..n PROVE H[i] = IF i = 0 THEN 0 ELSE H[i - 1] * 256 + f[i]
  <2>1. i = 0 \/ i = 1 \/ i = 2 \/ i = 3 \/ i = 4
    OBVIOUS
  <2>2. CASE i = 0
    BY <2>2 DEF Horner
  <2>3. CASE i = 1
    BY <2>3 DEF Horner
  <2>4. CASE i = 2
    BY <2>4 DEF Horner
  <2>5. CASE i = 3
    BY <2>5 DEF Horner
  <2>6. CASE i = 4
    BY <2>6 DEF Horner
  <2> QED
    BY <2>1, <2>2, <2>3, <2>4, <2>5, <2>6
<1>2. H = Extends(f, n, H)
  BY <1>1 DEF Extends
<1> QED
  <2> HIDE DEF H
  <2> QED
    BY <1>2

LEMMA ValueUnrolled ==
  ASSUME NEW f, Len(f) \in 1..4, \A i \in 1..Len(f) : f[i] \in Nat
  PROVE  Value(f) = Horner(f, Len(f))
<1> DEFINE n == Len(f)
           at == CHOOSE g : g = Extends(f, n, g)
<1>1. Value(f) = at[n]
  BY DEF Value, Extends
<1>2. \E g : g = Extends(f, n, g)
  BY RecursionExists
<1>3. at = Extends(f, n, at)
  BY <1>2, Zenon
<1> HIDE DEF at
<1>4. at[n] = Horner(f, n)
  BY <1>3, RecursionUnrolled
<1> QED
  BY <1>1, <1>4

\* w is v with l behind it, which is what the unused bits hold.
Divided(u, w, v, l) == w = Power(u) * v + l

LEMMA OctetAdded ==
  ASSUME NEW u \in 0..7, NEW v \in Nat, NEW w \in Nat, NEW l \in Nat, NEW b \in 0..255,
         Divided(u, w, v, l)
  PROVE  Divided(u, w * 256 + b, v * 256 + (l * Power(8 - u) + High(u, b)), Low(u, b))
<1> DEFINE h == High(u, b)
           m == Low(u, b)
           P == Power(u)
           R == Power(8 - u)
<1>1. h \in Nat /\ m \in Nat /\ b = P * h + m
  BY OctetDivided
<1>2. \/ (P = 1 /\ R = 256) \/ (P = 2 /\ R = 128) \/ (P = 4 /\ R = 64) \/ (P = 8 /\ R = 32)
      \/ (P = 16 /\ R = 16) \/ (P = 32 /\ R = 8) \/ (P = 64 /\ R = 4) \/ (P = 128 /\ R = 2)
  BY Powers
<1>3. w = P * v + l
  BY DEF Divided
<1> HIDE DEF h, m, P, R
<1>4. w * 256 + b = P * (v * 256 + (l * R + h)) + m
  BY <1>1, <1>2, <1>3
<1> QED
  BY <1>4, Zenon DEF h, m, P, R, Divided

LEMMA PaddedQuotient ==
  ASSUME NEW u \in 0..7, NEW v \in Nat, NEW l \in Nat, l < Power(u), NEW w \in Nat,
         Divided(u, w, v, l)
  PROVE  w \div Power(u) = v
<1> DEFINE P == Power(u)
<1>1. P \in {1, 2, 4, 8, 16, 32, 64, 128} /\ l < P /\ w = P * v + l
  BY Powers DEF Divided
<1> HIDE DEF P
<1>2. w \div P = v
  BY <1>1
<1> QED
  BY <1>2, Zenon DEF P

\* A pair of digits is the octet they print.
LEMMA TwoDigitsAre ==
  ASSUME NEW s \in Nat PROVE ((s \div 16) % 16) * 16 + (s % 16) = s % 256
OBVIOUS

DigitOctets(digits) == [i \in 1..Len(digits) |-> digits[i][1] * 16 + digits[i][2]]

LEMMA DigitOctet ==
  ASSUME NEW x \in BitStrings, NEW i \in 1..Len(x.buf)
  PROVE  DigitOctets(BitDigits(x))[i]
           = Low(x.unused, Before(x, i)) * Power(8 - x.unused) + High(x.unused, x.buf[i])
<1>1. /\ x.unused \in 0..7 /\ x.buf[i] \in 0..255 /\ Before(x, i) \in 0..255
      /\ Shifted(x, i) = Before(x, i) * Power(8 - x.unused) + x.buf[i] \div Power(x.unused)
      /\ Shifted(x, i) \in Nat
  BY ShiftedOctet DEF Before
<1>2. /\ BitDigits(x)[i] = <<(Shifted(x, i) \div 16) % 16, Shifted(x, i) % 16>>
      /\ Len(BitDigits(x)) = Len(x.buf)
  <2>1. x.buf \in Seq(0..255)
    BY DEF BitStrings
  <2> QED
    BY <2>1 DEF BitDigits
<1>3. DigitOctets(BitDigits(x))[i] = ((Shifted(x, i) \div 16) % 16) * 16 + (Shifted(x, i) % 16)
  BY <1>2 DEF DigitOctets
<1>4. DigitOctets(BitDigits(x))[i] = Shifted(x, i) % 256
  BY <1>1, <1>3, TwoDigitsAre
<1>5. DigitOctets(BitDigits(x))[i] = Printed(x.unused, Before(x, i), x.buf[i])
  BY <1>1, <1>4 DEF Printed
<1> QED
  BY <1>1, <1>5, PrintedIs

LEMMA DigitsValue ==
  ASSUME NEW x \in BitStrings, Len(x.buf) \in 1..4
  PROVE  Value(DigitOctets(BitDigits(x))) = Value(x.buf) \div Power(x.unused)
<1> DEFINE u == x.unused
           f == x.buf
           d == DigitOctets(BitDigits(x))
           n == Len(x.buf)
           R == Power(8 - u)
           Splits(i) == /\ Horner(d, i) \in Nat /\ Horner(f, i) \in Nat
                        /\ Divided(u, Horner(f, i), Horner(d, i), Low(u, f[i]))
<1>1. f \in Seq(0..255) /\ u \in 0..7 /\ n \in 1..4 /\ Len(d) = n
  <2>1. x.buf \in Seq(0..255) /\ x.unused \in 0..7
    BY DEF BitStrings
  <2> QED
    BY <2>1 DEF BitDigits, DigitOctets
<1>2. \A i \in 1..n : /\ f[i] \in 0..255 /\ Low(u, f[i]) \in Nat
                      /\ High(u, f[i]) \in Nat /\ Low(u, f[i]) < Power(u)
  <2> SUFFICES ASSUME NEW i \in 1..n
               PROVE  /\ f[i] \in 0..255 /\ Low(u, f[i]) \in Nat
                      /\ High(u, f[i]) \in Nat /\ Low(u, f[i]) < Power(u)
    OBVIOUS
  <2>1. f[i] \in 0..255
    BY <1>1, ElementOfSeq
  <2> QED
    BY <1>1, <2>1, OctetDivided
<1>3. R \in Nat /\ Power(u) \in Nat
  <2>1. u \in 0..7
    BY <1>1, Zenon
  <2> HIDE DEF u
  <2> QED
    BY <2>1, Powers
<1>4. d[1] = High(u, f[1]) /\ f[1] = Power(u) * d[1] + Low(u, f[1])
  <2>1. Low(u, 0) = 0
    <3>1. Power(u) \in {1, 2, 4, 8, 16, 32, 64, 128}
      BY <1>1, Powers
    <3> QED
      BY <3>1 DEF Low
  <2>2. 1 \in 1..n
    <3> HIDE DEF n
    <3> QED
      BY <1>1
  <2>3. d[1] = Low(u, 0) * R + High(u, f[1])
    BY <2>2, DigitOctet DEF Before
  <2>4. d[1] = High(u, f[1])
    <3>1. High(u, f[1]) \in Nat
      BY <1>2, <2>2
    <3> HIDE DEF d, f, u, R
    <3> QED
      BY <1>3, <2>1, <2>3, <3>1
  <2>5. f[1] = Power(u) * High(u, f[1]) + Low(u, f[1])
    BY <1>1, <1>2, <2>2, OctetDivided
  <2> QED
    BY <2>4, <2>5
<1>5. \A i \in 2..n : d[i] = Low(u, f[i - 1]) * R + High(u, f[i])
  <2> SUFFICES ASSUME NEW i \in 2..n PROVE d[i] = Low(u, f[i - 1]) * R + High(u, f[i])
    OBVIOUS
  <2>1. i \in 1..n /\ i # 1
    BY <1>1
  <2> QED
    BY <2>1, DigitOctet DEF Before
<1>6. \A i \in 1..n : d[i] \in Nat
  <2> SUFFICES ASSUME NEW i \in 1..n PROVE d[i] \in Nat
    OBVIOUS
  <2>1. CASE i = 1
    BY <1>2, <1>4, <2>1
  <2>2. CASE i # 1
    <3>1. i \in 2..n /\ i - 1 \in 1..n
      BY <1>1, <2>2
    <3>2. Low(u, f[i - 1]) \in Nat /\ High(u, f[i]) \in Nat
      BY <1>2, <3>1
    <3>3. d[i] = Low(u, f[i - 1]) * R + High(u, f[i])
      BY <1>5, <3>1
    <3> HIDE DEF d, f, u, R
    <3> QED
      BY <1>3, <3>2, <3>3
  <2> QED
    BY <2>1, <2>2
<1> HIDE DEF d, f, u, R, n
<1>7. Splits(1)
  <2>1. 1 \in 1..n
    BY <1>1
  <2>2. d[1] \in Nat /\ f[1] \in Nat
    BY <1>2, <1>6, <2>1
  <2> QED
    BY <1>4, <2>2 DEF Horner, Divided
<1>8. ASSUME NEW i \in 1..3, i + 1 \in 1..n, Splits(i) PROVE Splits(i + 1)
  <2>1. /\ Horner(f, i + 1) = Horner(f, i) * 256 + f[i + 1]
        /\ Horner(d, i + 1) = Horner(d, i) * 256 + d[i + 1]
    <3>1. CASE i = 1
      BY <3>1 DEF Horner
    <3>2. CASE i = 2
      BY <3>2 DEF Horner
    <3>3. CASE i = 3
      BY <3>3 DEF Horner
    <3> QED
      BY <3>1, <3>2, <3>3
  <2>2. i \in 1..n /\ i + 1 \in 2..n /\ i + 1 - 1 = i
    BY <1>1, <1>8
  <2>3. d[i + 1] = Low(u, f[i]) * R + High(u, f[i + 1]) /\ d[i + 1] \in Nat
    BY <1>5, <1>6, <2>2
  <2>4. f[i + 1] \in 0..255 /\ Low(u, f[i]) \in Nat
    BY <1>2, <1>8, <2>2
  <2>5. Divided(u, Horner(f, i) * 256 + f[i + 1],
                Horner(d, i) * 256 + (Low(u, f[i]) * Power(8 - u) + High(u, f[i + 1])),
                Low(u, f[i + 1]))
    BY <1>1, <1>8, <2>4, OctetAdded
  <2>6. Divided(u, Horner(f, i + 1), Horner(d, i + 1), Low(u, f[i + 1]))
    BY <2>1, <2>3, <2>5, Zenon DEF R
  <2>7. Horner(f, i + 1) \in Nat /\ Horner(d, i + 1) \in Nat
    BY <1>8, <2>1, <2>3, <2>4
  <2> QED
    BY <2>6, <2>7
<1>9. Splits(n)
  <2> HIDE DEF Splits
  <2>1. CASE n = 1
    BY <1>7, <2>1
  <2>2. CASE n = 2
    BY <1>7, <1>8, <2>2
  <2>3. CASE n = 3
    <3>1. Splits(1 + 1)
      BY <1>7, <1>8, <2>3
    <3>2. Splits(2 + 1)
      BY <3>1, <1>8, <2>3
    <3> QED
      BY <3>2, <2>3
  <2>4. CASE n = 4
    <3>1. Splits(1 + 1)
      BY <1>7, <1>8, <2>4
    <3>2. Splits(2 + 1)
      BY <3>1, <1>8, <2>4
    <3>3. Splits(3 + 1)
      BY <3>2, <1>8, <2>4
    <3> QED
      BY <3>3, <2>4
  <2> QED
    BY <1>1, <2>1, <2>2, <2>3, <2>4
<1>10. Value(f) = Horner(f, n) /\ Value(d) = Horner(d, n)
  <2>1. Len(f) = n /\ \A i \in 1..n : f[i] \in Nat
    <3>1. Len(f) = n
      BY DEF f, n
    <3>2. \A i \in 1..n : f[i] \in 0..255
      BY <1>2
    <3>3. \A k \in 0..255 : k \in Nat
      OBVIOUS
    <3> QED
      BY <3>1, <3>2, <3>3, Zenon
  <2> QED
    BY <1>1, <1>6, <2>1, ValueUnrolled
<1>11. n \in 1..n
  BY <1>1
<1>12. Horner(f, n) \div Power(u) = Horner(d, n)
  BY <1>1, <1>2, <1>9, <1>11, PaddedQuotient
<1> QED
  BY <1>10, <1>12 DEF f, d, u, n

-----------------------------------------------------------------------------
(* The parts of a name.                                                    *)

LEMMA PrefixKnown ==
  ASSUME NEW id \in Identity
  PROVE  /\ Prefix(id) \in DOMAIN PrefixSize
         /\ PrefixSize[Prefix(id)] \in 4..18
         /\ (id.kind = "gNB" /\ ~ Combined(id)) => PrefixSize[Prefix(id)] = 5
<1>1. id.kind \in Kinds
  BY DEF Identity
<1> QED
  BY <1>1 DEF Prefix, PrefixSize, Kinds, Combined

LEMMA PrefixDetermines ==
  ASSUME NEW a \in Identity, NEW b \in Identity, Prefix(a) = Prefix(b)
  PROVE  /\ a.kind = b.kind
         /\ a.kind = "gNB" => (Combined(a) <=> Combined(b))
         /\ (a.kind = "gNB" /\ ~ Combined(a)) => (a.cuup = None <=> b.cuup = None)
<1>1. a.kind \in Kinds /\ b.kind \in Kinds
  BY DEF Identity
<1> QED
  BY <1>1 DEF Prefix, Kinds

LEMMA DecimalShape ==
  ASSUME NEW d \in Digits
  PROVE  /\ Decimal(d) \in Seq(Nat) /\ Len(Decimal(d)) \in 1..2
         /\ d < 10 => Decimal(d) = <<d>>
<1>1. CASE d < 10
  BY <1>1 DEF Decimal, Digits
<1>2. CASE ~ d < 10
  <2>1. Decimal(d) = <<1, d - 10>> /\ d - 10 \in Nat
    BY <1>2 DEF Decimal, Digits
  <2> QED
    BY <1>2, <2>1
<1> QED
  BY <1>1, <1>2

\* Three nibbles as printed.
LEMMA Joined ==
  ASSUME NEW a \in Seq(Nat), NEW b \in Seq(Nat), NEW c \in Seq(Nat)
  PROVE  /\ a \o b \o c \in Seq(Nat)
         /\ Len(a \o b \o c) = Len(a) + Len(b) + Len(c)
<1>1. a \o b \in Seq(Nat) /\ Len(a \o b) = Len(a) + Len(b)
  BY ConcatProperties, Zenon
<1>2. (a \o b) \o c \in Seq(Nat) /\ Len((a \o b) \o c) = Len(a \o b) + Len(c)
  BY <1>1, ConcatProperties, Zenon
<1> QED
  BY <1>1, <1>2, Zenon

LEMMA PlmnSize ==
  ASSUME NEW p \in Plmns
  PROVE  PlmnDigits(p) \in Seq(Nat) /\ Len(PlmnDigits(p)) \in 7..13
<1> DEFINE hi == IF p[2].hi # 15 THEN p[2].hi ELSE 0
           a == Decimal(p[1].lo)
           b == Decimal(p[1].hi)
           c == Decimal(p[2].lo)
           d == Decimal(hi)
           e == Decimal(p[3].lo)
           f == Decimal(p[3].hi)
           s == <<Separator>>
<1>1. /\ p[1].lo \in Digits /\ p[1].hi \in Digits /\ p[2].lo \in Digits
      /\ hi \in Digits /\ p[3].lo \in Digits /\ p[3].hi \in Digits
  BY DEF Plmns, Nibbles, Digits
<1>2. /\ a \in Seq(Nat) /\ b \in Seq(Nat) /\ c \in Seq(Nat)
      /\ d \in Seq(Nat) /\ e \in Seq(Nat) /\ f \in Seq(Nat)
      /\ Len(a) \in 1..2 /\ Len(b) \in 1..2 /\ Len(c) \in 1..2
      /\ Len(d) \in 1..2 /\ Len(e) \in 1..2 /\ Len(f) \in 1..2
  BY <1>1, DecimalShape
<1>3. s \in Seq(Nat) /\ Len(s) = 1
  BY DEF Separator
<1>4. PlmnDigits(p) = (a \o b \o c) \o s \o (d \o e \o f)
  BY DEF PlmnDigits
<1> HIDE DEF a, b, c, d, e, f, s
<1>5. /\ a \o b \o c \in Seq(Nat) /\ Len(a \o b \o c) = Len(a) + Len(b) + Len(c)
      /\ d \o e \o f \in Seq(Nat) /\ Len(d \o e \o f) = Len(d) + Len(e) + Len(f)
  <2>1. a \o b \o c \in Seq(Nat) /\ Len(a \o b \o c) = Len(a) + Len(b) + Len(c)
    <3>1. a \in Seq(Nat) /\ b \in Seq(Nat) /\ c \in Seq(Nat)
      BY <1>2, Zenon
    <3> QED
      BY <3>1, Joined
  <2>2. d \o e \o f \in Seq(Nat) /\ Len(d \o e \o f) = Len(d) + Len(e) + Len(f)
    <3>1. d \in Seq(Nat) /\ e \in Seq(Nat) /\ f \in Seq(Nat)
      BY <1>2, Zenon
    <3> QED
      BY <3>1, Joined
  <2> QED
    BY <2>1, <2>2, Zenon
<1> DEFINE mcc == a \o b \o c
           mnc == d \o e \o f
<1>6. \A i, j, k \in 1..2 : i + j + k \in 3..6
  OBVIOUS
<1>7. /\ mcc \in Seq(Nat) /\ mnc \in Seq(Nat) /\ Len(mcc) \in 3..6 /\ Len(mnc) \in 3..6
      /\ PlmnDigits(p) = mcc \o s \o mnc
  BY <1>2, <1>4, <1>5, <1>6, Zenon
<1> HIDE DEF mcc, mnc
<1>8. mcc \o s \o mnc \in Seq(Nat) /\ Len(mcc \o s \o mnc) = Len(mcc) + Len(s) + Len(mnc)
  BY <1>3, <1>7, Joined, Zenon
<1>9. \A i, j \in 3..6 : i + 1 + j \in 7..13
  OBVIOUS
<1> QED
  BY <1>3, <1>7, <1>8, <1>9, Zenon

\* Texts of single symbols, put together.
LEMMA ThreeSymbols ==
  ASSUME NEW a \in Nat, NEW b \in Nat, NEW c \in Nat
  PROVE  <<a>> \o <<b>> \o <<c>> = <<a, b, c>>
<1> DEFINE s == <<a>> \o <<b>> \o <<c>>
           t == <<a, b, c>>
<1>1. s \in Seq(Nat) /\ t \in Seq(Nat) /\ Len(s) = 3 /\ Len(t) = 3
  OBVIOUS
<1>2. s[1] = a /\ s[2] = b /\ s[3] = c
  OBVIOUS
<1>3. \A i \in 1..Len(s) : s[i] = t[i]
  BY <1>1, <1>2
<1> HIDE DEF s, t
<1>4. s = t
  BY <1>1, <1>3, SeqEqual, Zenon
<1> QED
  BY <1>4, Zenon DEF s, t

LEMMA SevenSymbols ==
  ASSUME NEW a \in Nat, NEW b \in Nat, NEW c \in Nat, NEW s \in Nat, NEW d \in Nat,
         NEW e \in Nat, NEW f \in Nat
  PROVE  <<a, b, c>> \o <<s>> \o <<d, e, f>> = <<a, b, c, s, d, e, f>>
<1> DEFINE x == <<a, b, c>> \o <<s>> \o <<d, e, f>>
           t == <<a, b, c, s, d, e, f>>
<1>1. x \in Seq(Nat) /\ t \in Seq(Nat) /\ Len(x) = 7 /\ Len(t) = 7
  OBVIOUS
<1>2. x[1] = a /\ x[2] = b /\ x[3] = c /\ x[4] = s /\ x[5] = d /\ x[6] = e /\ x[7] = f
  OBVIOUS
<1>3. \A i \in 1..Len(x) : x[i] = t[i]
  BY <1>1, <1>2
<1> HIDE DEF x, t
<1>4. x = t
  BY <1>1, <1>3, SeqEqual, Zenon
<1> QED
  BY <1>4, Zenon DEF x, t

\* A decimal PLMN has a symbol for each nibble.
LEMMA PlmnOfDecimal ==
  ASSUME NEW p \in Plmns, DecimalPlmn(p)
  PROVE  PlmnDigits(p) = <<p[1].lo, p[1].hi, p[2].lo, Separator,
                           IF p[2].hi # 15 THEN p[2].hi ELSE 0, p[3].lo, p[3].hi>>
<1> DEFINE a == p[1].lo
           b == p[1].hi
           c == p[2].lo
           d == IF p[2].hi # 15 THEN p[2].hi ELSE 0
           e == p[3].lo
           f == p[3].hi
<1>1. a \in 0..9 /\ b \in 0..9 /\ c \in 0..9 /\ d \in 0..9 /\ e \in 0..9 /\ f \in 0..9
  BY DEF DecimalPlmn
<1>2. PlmnDigits(p) = (Decimal(a) \o Decimal(b) \o Decimal(c)) \o <<Separator>>
                        \o (Decimal(d) \o Decimal(e) \o Decimal(f))
  BY DEF PlmnDigits
<1>3. \A n \in 0..9 : Decimal(n) = <<n>> /\ n \in Nat
  BY DEF Decimal
<1>4. Separator \in Nat
  BY DEF Separator
<1> HIDE DEF a, b, c, d, e, f
<1>5. PlmnDigits(p) = <<a, b, c>> \o <<Separator>> \o <<d, e, f>>
  <2>1. /\ Decimal(a) \o Decimal(b) \o Decimal(c) = <<a, b, c>>
        /\ Decimal(d) \o Decimal(e) \o Decimal(f) = <<d, e, f>>
    <3>1. \A i, j, k \in 0..9 : Decimal(i) \o Decimal(j) \o Decimal(k) = <<i, j, k>>
      BY <1>3, ThreeSymbols, Zenon
    <3> QED
      BY <1>1, <3>1, Zenon
  <2> QED
    BY <1>2, <2>1, Zenon
<1>6. PlmnDigits(p) = <<a, b, c, Separator, d, e, f>>
  <2>1. a \in Nat /\ b \in Nat /\ c \in Nat /\ d \in Nat /\ e \in Nat /\ f \in Nat
    BY <1>1, <1>3, Zenon
  <2>2. <<a, b, c>> \o <<Separator>> \o <<d, e, f>> = <<a, b, c, Separator, d, e, f>>
    BY <1>4, <2>1, SevenSymbols
  <2> QED
    BY <1>5, <2>2, Zenon
<1> QED
  BY <1>6, Zenon DEF a, b, c, d, e, f

LEMMA PlmnLength ==
  ASSUME NEW p \in Plmns, NEW prefix, PrefixSize[prefix] \in 4..18
  PROVE  /\ Len(translatePlmnId(p, prefix)) \in Nat
         /\ Len(translatePlmnId(p, prefix)) <= Len(PlmnDigits(p))
         /\ PrefixSize[prefix] + Len(translatePlmnId(p, prefix)) <= PlmnRoom
         /\ PrefixSize[prefix] + Len(PlmnDigits(p)) <= PlmnRoom
               => translatePlmnId(p, prefix) = PlmnDigits(p)
<1> DEFINE room == PlmnRoom - PrefixSize[prefix]
           text == PlmnDigits(p)
           l == Len(text)
           m == IF room < l THEN room ELSE l
<1>1. text \in Seq(Nat) /\ l \in 7..13
  BY PlmnSize
<1>2. room \in 1..15 /\ m \in 1..l /\ m <= room
  <2>1. room \in 1..15
    BY DEF PlmnRoom
  <2> HIDE DEF room, l
  <2> QED
    BY <1>1, <2>1
<1>3. translatePlmnId(p, prefix) = SubSeq(text, 1, m)
  BY DEF translatePlmnId, CutTo
<1>4. Len(SubSeq(text, 1, m)) = m
  <2> HIDE DEF m, text
  <2> QED
    BY <1>1, <1>2, SubSeqProperties DEF l
<1>5. PrefixSize[prefix] + l <= PlmnRoom => m = l
  <2>1. \A z \in 4..18 : \A k \in 7..13 : z + k <= 19 => ~ 19 - z < k
    OBVIOUS
  <2> QED
    BY <1>1, <2>1, Zenon DEF PlmnRoom
<1>6. SubSeq(text, 1, l) = text
  <2> HIDE DEF text
  <2> QED
    BY <1>1, SubSeqFull DEF l
<1>7. Len(translatePlmnId(p, prefix)) = m
  BY <1>3, <1>4, Zenon
<1>8. PrefixSize[prefix] + l <= PlmnRoom => translatePlmnId(p, prefix) = text
  BY <1>3, <1>5, <1>6, Zenon
<1>9. m \in Nat /\ m <= l /\ PrefixSize[prefix] + m <= PlmnRoom
  <2> DEFINE size == PrefixSize[prefix]
  <2>1. size \in 4..18 /\ room = 19 - size
    BY Zenon DEF PlmnRoom
  <2> HIDE DEF m, l, room, size
  <2>2. l \in Nat /\ m \in 1..l /\ m <= room
    BY <1>1, <1>2
  <2>3. m \in Nat /\ m <= l
    BY <2>2
  <2>4. size + m <= 19
    BY <2>1, <2>2
  <2> QED
    BY <2>3, <2>4, Zenon DEF size, PlmnRoom
<1> QED
  BY <1>7, <1>8, <1>9, Zenon

LEMMA PlmnDetermined ==
  ASSUME NEW p \in Plmns, NEW q \in Plmns, DecimalPlmn(p), DecimalPlmn(q),
         p[2].hi = 15 <=> q[2].hi = 15, PlmnDigits(p) = PlmnDigits(q)
  PROVE  p = q
<1>1. \A r \in Plmns : r = [i \in 1..3 |-> r[i]] /\ \A i \in 1..3 : r[i] \in Nibbles
  BY DEF Plmns
<1>2. /\ p[1].lo = q[1].lo /\ p[1].hi = q[1].hi /\ p[2].lo = q[2].lo
      /\ p[3].lo = q[3].lo /\ p[3].hi = q[3].hi
      /\ (IF p[2].hi # 15 THEN p[2].hi ELSE 0) = (IF q[2].hi # 15 THEN q[2].hi ELSE 0)
  BY PlmnOfDecimal
<1>3. p[2].hi = q[2].hi
  BY <1>2
<1>4. p[1] = q[1] /\ p[2] = q[2] /\ p[3] = q[3]
  <2>1. \A r, t \in Nibbles : r.lo = t.lo /\ r.hi = t.hi => r = t
    BY DEF Nibbles
  <2>2. /\ p[1] \in Nibbles /\ p[2] \in Nibbles /\ p[3] \in Nibbles
        /\ q[1] \in Nibbles /\ q[2] \in Nibbles /\ q[3] \in Nibbles
    BY <1>1
  <2> QED
    BY <1>2, <1>3, <2>1, <2>2
<1>5. \A i \in 1..3 : p[i] = q[i]
  BY <1>4
<1> QED
  BY <1>1, <1>5

LEMMA SuffixDetermines ==
  ASSUME NEW a \in Identity, NEW b \in Identity, Prefix(a) = Prefix(b), Suffix(a) = Suffix(b),
         a.kind = "gNB", ~ Combined(a)
  PROVE  a.cuup = b.cuup /\ a.du = b.du
<1>1. /\ b.kind = "gNB" /\ ~ Combined(b)
      /\ a.cuup = None <=> b.cuup = None
      /\ a.cuup = None <=> a.du # None
      /\ b.cuup = None <=> b.du # None
  BY PrefixDetermines DEF Combined
<1>2. \A m, n \in Seq(Digits) : <<Separator>> \o m = <<Separator>> \o n => m = n
  <2>1. <<Separator>> \in Seq(Nat) /\ Seq(Digits) \subseteq Seq(Nat)
    BY DEF Digits, Separator
  <2> QED
    BY <2>1, ConcatSimplifications
<1>3. /\ a.cuup # None => a.cuup \in Seq(Digits)
      /\ b.cuup # None => b.cuup \in Seq(Digits)
      /\ a.du # None => a.du \in Seq(Digits)
      /\ b.du # None => b.du \in Seq(Digits)
  BY DEF Identity, Numerals
<1>4. CASE a.cuup # None
  <2>1. <<Separator>> \o a.cuup = <<Separator>> \o b.cuup
    BY <1>1, <1>4 DEF Suffix
  <2>2. a.cuup \in Seq(Digits) /\ b.cuup \in Seq(Digits)
    BY <1>1, <1>3, <1>4
  <2>3. a.du = None /\ b.du = None
    BY <1>1, <1>4
  <2> QED
    BY <1>2, <2>1, <2>2, <2>3, Zenon
<1>5. CASE a.cuup = None
  <2>1. <<Separator>> \o a.du = <<Separator>> \o b.du
    BY <1>1, <1>5 DEF Suffix
  <2>2. a.du \in Seq(Digits) /\ b.du \in Seq(Digits)
    BY <1>1, <1>3, <1>5
  <2>3. a.cuup = b.cuup
    BY <1>1, <1>5
  <2> QED
    BY <1>2, <2>1, <2>2, <2>3, Zenon
<1> QED
  BY <1>4, <1>5

-----------------------------------------------------------------------------
(* Two names.                                                              *)

LEMMA DecodedIdentity ==
  ASSUME NEW id \in Identities
  PROVE  id \in Identity /\ id.plmn \in Plmns /\ id.bits \in BitStrings /\ Padded(id.bits)
<1>1. Decoded(id)
  BY IdentitiesAssumption
<1> QED
  BY <1>1 DEF Decoded, Identity, Padded

\* In one network with a decimal PLMN, E2 nodes whose names have room for it have
\* names of their own.
LEMMA NamesDiffer ==
  ASSUME Fits, SameSizes, DecimalPlmns, NEW a \in Identities, NEW b \in Identities,
         buildRanName(a) = buildRanName(b)
  PROVE  a = b
<1>1. a \in Identity /\ b \in Identity
  BY DecodedIdentity
<1>2. /\ Prefix(a) = Prefix(b) /\ BitDigits(a.bits) = BitDigits(b.bits) /\ Suffix(a) = Suffix(b)
      /\ translatePlmnId(a.plmn, Prefix(a)) = translatePlmnId(b.plmn, Prefix(b))
  BY DEF buildRanName
<1>3. a.bits = b.bits
  <2>1. a.bits.unused = b.bits.unused
    BY <1>2 DEF SameSizes
  <2> QED
    BY <1>2, <2>1, DecodedIdentity, BitsDetermined
<1>4. a.plmn = b.plmn
  <2>1. PlmnDigits(a.plmn) = PlmnDigits(b.plmn)
    <3>1. ASSUME NEW id \in {a, b} PROVE translatePlmnId(id.plmn, Prefix(id)) = PlmnDigits(id.plmn)
      <4>1. /\ id \in Identities /\ id \in Identity /\ id.plmn \in Plmns
            /\ PrefixSize[Prefix(id)] \in 4..18
        BY <1>1, DecodedIdentity, PrefixKnown
      <4>2. Len(PlmnDigits(id.plmn)) = 7
        BY <4>1, PlmnOfDecimal DEF DecimalPlmns
      <4>3. PrefixSize[Prefix(id)] + Len(PlmnDigits(id.plmn)) <= PlmnRoom
        BY <4>1, <4>2 DEF Fits
      <4> QED
        BY <4>1, <4>3, PlmnLength, Zenon
    <3> QED
      BY <1>2, <3>1
  <2>2. a.plmn[2].hi = 15 <=> b.plmn[2].hi = 15
    BY <1>2 DEF SameSizes
  <2> QED
    BY <2>1, <2>2, DecodedIdentity, PlmnDetermined DEF DecimalPlmns
<1>5. Station(a) = Station(b)
  <2>1. a.kind = b.kind /\ (a.kind = "gNB" => (Combined(a) <=> Combined(b)))
    BY <1>1, <1>2, PrefixDetermines
  <2>2. CASE a.kind = "gNB" /\ ~ Combined(a)
    BY <1>1, <1>2, <1>3, <1>4, <2>1, <2>2, SuffixDetermines DEF Station
  <2>3. CASE a.kind # "gNB" \/ Combined(a)
    BY <1>3, <1>4, <2>1, <2>3 DEF Station
  <2> QED
    BY <2>2, <2>3
<1> QED
  BY <1>5, IdentitiesAssumption

-----------------------------------------------------------------------------
(* The names in sctpMap.                                                   *)

LEMMA NameLength ==
  ASSUME NEW id \in Identities
  PROVE  /\ NameSize(buildRanName(id)) < MAX_ENODB_NAME_SIZE
         /\ Suffix(id) = <<>> \/ DecimalPlmn(id.plmn)
              => NameSize(buildRanName(id)) < RMR_MAX_MEID
<1> DEFINE prefix == Prefix(id)
           plmn == translatePlmnId(id.plmn, prefix)
<1>1. id \in Identity
  BY DecodedIdentity
<1>2. /\ PrefixSize[prefix] \in 4..18
      /\ (id.kind = "gNB" /\ ~ Combined(id)) => PrefixSize[prefix] = 5
  BY <1>1, PrefixKnown
<1>3. /\ Len(plmn) \in Nat /\ Len(plmn) <= 13 /\ PrefixSize[prefix] + Len(plmn) <= 19
      /\ DecimalPlmn(id.plmn) => Len(plmn) <= 7
  <2>1. /\ Len(plmn) \in Nat /\ Len(plmn) <= Len(PlmnDigits(id.plmn))
        /\ PrefixSize[prefix] + Len(plmn) <= PlmnRoom
    BY <1>2, DecodedIdentity, PlmnLength
  <2>2. Len(PlmnDigits(id.plmn)) \in 7..13
    BY DecodedIdentity, PlmnSize
  <2>3. DecimalPlmn(id.plmn) => Len(PlmnDigits(id.plmn)) = 7
    BY DecodedIdentity, PlmnOfDecimal
  <2>4. \A i \in Nat : \A k \in 7..13 : i <= k => i <= 13
    OBVIOUS
  <2> QED
    BY <2>1, <2>2, <2>3, <2>4, Zenon DEF PlmnRoom
<1>4. Len(BitDigits(id.bits)) \in 1..4
  <2>1. Len(id.bits.buf) \in 1..4
    BY Zenon, DecodedIdentity DEF Padded
  <2> QED
    BY <2>1 DEF BitDigits
<1>5. \/ Len(Suffix(id)) = 0
      \/ PrefixSize[prefix] = 5 /\ Len(Suffix(id)) \in 1..10 /\ Suffix(id) # <<>>
  <2>1. CASE id.kind # "gNB" \/ Combined(id)
    BY <2>1 DEF Suffix
  <2>2. CASE id.kind = "gNB" /\ ~ Combined(id)
    <3>1. PICK n \in {id.cuup, id.du} \ {None} : Suffix(id) = <<Separator>> \o n
      BY <2>2 DEF Suffix, Combined
    <3>2. n \in Seq(Digits)
      BY <1>1, <3>1 DEF Identity, Numerals
    <3>3. Len(n) <= 9
      <4>1. Decoded(id)
        BY IdentitiesAssumption
      <4> QED
        BY Zenon, <3>1, <4>1 DEF Decoded
    <3>4. Len(<<Separator>> \o n) = 1 + Len(n) /\ Len(n) \in Nat
      BY <3>2 DEF Digits, Separator
    <3> QED
      BY <1>2, <2>2, <3>1, <3>3, <3>4
  <2> QED
    BY <2>1, <2>2
<1>6. NameSize(buildRanName(id))
        = PrefixSize[prefix] + Len(plmn) + 1 + 2 * Len(BitDigits(id.bits)) + Len(Suffix(id))
  BY Zenon DEF NameSize, buildRanName
<1> DEFINE p == PrefixSize[prefix]
           l == Len(plmn)
           b == Len(BitDigits(id.bits))
           e == Len(Suffix(id))
<1>7. /\ p \in 4..18 /\ l \in Nat /\ l <= 13 /\ p + l <= 19 /\ b \in 1..4
      /\ e = 0 \/ (p = 5 /\ e \in 1..10 /\ Suffix(id) # <<>>)
      /\ DecimalPlmn(id.plmn) => l <= 7
  BY Zenon, <1>2, <1>3, <1>4, <1>5
<1>8. /\ p + l + 1 + 2 * b + e < 64
      /\ Suffix(id) = <<>> \/ DecimalPlmn(id.plmn) => p + l + 1 + 2 * b + e < 32
  <2> HIDE DEF p, l, b, e
  <2> QED
    BY <1>7
<1> QED
  BY <1>6, <1>8, Zenon DEF MAX_ENODB_NAME_SIZE, RMR_MAX_MEID

\* Names in sctpMap are those of the E2 nodes they lead to, also when two E2 nodes
\* share one.
OwnersNamed ==
  \A x \in DOMAIN sctpMap : sctpMap[x] \in Identities /\ x = buildRanName(sctpMap[x])

LEMMA NamesInvariant == Spec => []OwnersNamed
<1>1. Init => OwnersNamed
  BY DEF Init, OwnersNamed
<1>2. OwnersNamed /\ [Next]_vars => OwnersNamed'
  <2> SUFFICES ASSUME OwnersNamed, [Next]_vars PROVE OwnersNamed'
    OBVIOUS
  <2>1. ASSUME NEW id \in Identities, Setup(id) PROVE OwnersNamed'
    BY <2>1 DEF OwnersNamed, Setup
  <2>2. ASSUME NEW id \in Identities, Teardown(id) PROVE OwnersNamed'
    BY <2>2 DEF OwnersNamed, Teardown
  <2>3. CASE UNCHANGED vars
    BY <2>3 DEF OwnersNamed, vars
  <2> QED
    BY <2>1, <2>2, <2>3 DEF Next
<1> QED
  BY <1>1, <1>2, PTL DEF Spec

\* Every name fits in enodbName, whatever identity the E2 node sends, and in an
\* RMR meid, but for names of CU-UPs and DUs with PLMNs that are not decimal
\* (buildRanName and its helpers, which do not look at sizes).
THEOREM NamesFit == Spec => []NameFitsMeid
<1>1. OwnersNamed => NameFitsMeid
  <2> SUFFICES ASSUME OwnersNamed, NEW x \in DOMAIN sctpMap
               PROVE  /\ NameSize(x) < MAX_ENODB_NAME_SIZE
                      /\ x.suffix = <<>> \/ DecimalPlmn(sctpMap[x].plmn)
                           => NameSize(x) < RMR_MAX_MEID
    BY DEF NameFitsMeid
  <2>1. sctpMap[x] \in Identities /\ x = buildRanName(sctpMap[x])
    BY DEF OwnersNamed
  <2>2. x.suffix = Suffix(sctpMap[x])
    BY <2>1 DEF buildRanName
  <2> QED
    BY <2>1, <2>2, NameLength, Zenon
<1> QED
  BY <1>1, NamesInvariant, PTL

\* The digits of a registered name are the value of the E2 node's number, for bit
\* strings of all sizes and contents (translateBitStringToChar).
THEOREM DigitsCarryValue == Spec => []DigitsAreValue
<1>1. OwnersNamed => DigitsAreValue
  <2> SUFFICES ASSUME OwnersNamed, NEW x \in DOMAIN sctpMap
               PROVE  Value(DigitOctets(x.bits))
                        = Value(sctpMap[x].bits.buf) \div Power(sctpMap[x].bits.unused)
    BY DEF DigitsAreValue, DigitOctets
  <2>1. sctpMap[x] \in Identities /\ x.bits = BitDigits(sctpMap[x].bits)
    BY DEF OwnersNamed, buildRanName
  <2>2. sctpMap[x].bits \in BitStrings /\ Len(sctpMap[x].bits.buf) \in 1..4
    BY <2>1, DecodedIdentity, Zenon DEF Padded
  <2> QED
    BY <2>1, <2>2, DigitsValue
<1> QED
  BY <1>1, NamesInvariant, PTL

\* Where names differ, an E2 node that comes or goes leaves those of others alone.
LEMMA OwnNames ==
  ASSUME Fits, SameSizes, DecimalPlmns
  PROVE  Spec => [](TypeOK /\ RoutedToOwner)
<1> DEFINE IInv == TypeOK /\ RoutedToOwner
<1>1. Init => IInv
  BY DEF Init, TypeOK, RoutedToOwner
<1>2. IInv /\ [Next]_vars => IInv'
  <2> SUFFICES ASSUME TypeOK, RoutedToOwner, [Next]_vars PROVE IInv'
    OBVIOUS
  <2>1. ASSUME NEW id \in Identities, Setup(id) PROVE IInv'
    <3>1. TypeOK'
      BY <2>1 DEF Setup, TypeOK
    <3>2. \A a \in connected : buildRanName(a) # buildRanName(id)
      BY <2>1, NamesDiffer DEF Setup, TypeOK
    <3>3. RoutedToOwner'
      BY <2>1, <3>2 DEF Setup, RoutedToOwner
    <3> QED
      BY <3>1, <3>3
  <2>2. ASSUME NEW id \in Identities, Teardown(id) PROVE IInv'
    <3>1. \A a \in connected \ {id} : buildRanName(a) # buildRanName(id)
      BY NamesDiffer DEF TypeOK
    <3>2. TypeOK'
      BY <2>2, <3>1 DEF Teardown, TypeOK
    <3>3. RoutedToOwner'
      BY <2>2, <3>1 DEF Teardown, RoutedToOwner
    <3> QED
      BY <3>2, <3>3
  <2>3. CASE UNCHANGED vars
    BY <2>3 DEF TypeOK, RoutedToOwner, vars
  <2> QED
    BY <2>1, <2>2, <2>3 DEF Next
<1> QED
  BY <1>1, <1>2, PTL DEF Spec

\* When all prefixes leave room for the PLMN, PLMNs are decimal, and MNCs and
\* numbers have one size, sctpMap has the names of exactly the E2 nodes that are
\* connected (collectSetupRequestData, cleanHashEntry).
THEOREM NamesTypeCorrect == Fits /\ SameSizes /\ DecimalPlmns => (Spec => []TypeOK)
<1> SUFFICES ASSUME Fits, SameSizes, DecimalPlmns PROVE Spec => []TypeOK
  OBVIOUS
<1> QED
  BY OwnNames, PTL

\* Under the same conditions every E2 node has its name for itself (buildRanName,
\* collectSetupRequestData, cleanHashEntry).
THEOREM NamesRoute == Fits /\ SameSizes /\ DecimalPlmns => (Spec => []RoutedToOwner)
<1> SUFFICES ASSUME Fits, SameSizes, DecimalPlmns PROVE Spec => []RoutedToOwner
  OBVIOUS
<1> QED
  BY OwnNames, PTL

=============================================================================
