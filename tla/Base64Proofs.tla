---------------------------- MODULE Base64Proofs -----------------------------
(***************************************************************************)
(* Proofs about Base64, for messages of any octets and lengths and trace   *)
(* buffers of any size that follows from them.                             *)
(***************************************************************************)
EXTENDS Base64, SequenceTheorems, FiniteSetTheorems, TLAPS

Symbols == Alphabet \cup {Padding}

\* The number of groups that n octets are divided into.
Groups(n) == (n + 2) \div 3

\* The buffer has symbols in it, and the record of a message its text.
IInv ==
  /\ base64Data \in [1..Room -> 0..66]
  /\ message # <<>> =>
       /\ message \in Messages
       /\ record = [length |-> Len(Text(message)), text |-> Text(message)]

-----------------------------------------------------------------------------
(* Arithmetic of octets and groups.                                        *)

LEMMA SymbolOfOctets ==
  \A a, b \in 0..255 : /\ a \div 4 \in 0..63
                       /\ (a % 4) * 16 + b \div 16 \in 0..63
                       /\ (a % 16) * 4 + b \div 64 \in 0..63
                       /\ a % 64 \in 0..63
OBVIOUS

\* What decode makes of the four symbols of three octets.
Recovered(a, b, c) ==
  /\ ((a \div 4) * 4 + ((a % 4) * 16 + b \div 16) \div 16) % 256 = a
  /\ (((a % 4) * 16 + b \div 16) * 16 + ((b % 16) * 4 + c \div 64) \div 4) % 256 = b
  /\ (((b % 16) * 4 + c \div 64) * 64 + (c % 64)) % 256 = c

LEMMA OctetsRecovered == \A a, b, c \in 0..255 : Recovered(a, b, c)
<1> SUFFICES ASSUME NEW a \in 0..255, NEW b \in 0..255, NEW c \in 0..255
             PROVE  Recovered(a, b, c)
  OBVIOUS
<1>1. ((a \div 4) * 4 + ((a % 4) * 16 + b \div 16) \div 16) % 256 = a
  OBVIOUS
<1>2. (((a % 4) * 16 + b \div 16) * 16 + ((b % 16) * 4 + c \div 64) \div 4) % 256 = b
  <2> DEFINE x == a % 4
             y == b \div 16
             z == b % 16
             w == (z * 4 + c \div 64) \div 4
  <2>1. x \in 0..3 /\ y \in 0..15 /\ z \in 0..15 /\ y * 16 + z = b
    OBVIOUS
  <2>2. w = z
    OBVIOUS
  <2> HIDE DEF x, y, z, w
  <2>3. ((x * 16 + y) * 16 + w) % 256 = b
    BY <2>1, <2>2
  <2> QED
    BY <2>3, Zenon DEF x, y, z, w
<1>3. (((b % 16) * 4 + c \div 64) * 64 + (c % 64)) % 256 = c
  <2>1. ((b % 16) * 4 + c \div 64) * 64 + (c % 64) = (b % 16) * 256 + c
    OBVIOUS
  <2>2. \A x \in 0..15 : (x * 256 + c) % 256 = c
    OBVIOUS
  <2> QED
    BY <2>1, <2>2
<1> QED
  BY <1>1, <1>2, <1>3, Zenon DEF Recovered

\* A text and its zero fit in the buffer, and encode and decode get the room
\* they ask for.
LEMMA TextFits ==
  ASSUME NEW n \in 1..MaxLength
  PROVE  /\ Groups(n) \in Nat \ {0} /\ 3 * Groups(n) - n \in 0..2
         /\ 4 * Groups(n) + 1 \in 1..Room
         /\ Accepts(n, Room)
         /\ ((4 * Groups(n) + 1) \div 4) * 3 <= 2 * MaxLength + 3
BY MaxLengthAssumption DEF Groups, Room, Accepts

-----------------------------------------------------------------------------
(* A line break in a text.                                                 *)

LEMMA Broken ==
  ASSUME NEW t \in Seq(Symbols), NEW k \in 1..Len(t)
  PROVE  LET s == InsertAt(t, k, Break)
         IN  /\ Len(s) = Len(t) + 1
             /\ \A i \in 1..(Len(t) + 1) :
                  s[i] = IF i < k THEN t[i] ELSE IF i = k THEN Break ELSE t[i - 1]
<1> DEFINE front == SubSeq(t, 1, k - 1)
           rest == SubSeq(t, k, Len(t))
           All == Symbols \cup {Break}
<1>1. Len(t) \in Nat
  OBVIOUS
<1>2. front \in Seq(All) /\ Len(front) = k - 1 /\ \A i \in 1..(k - 1) : front[i] = t[i]
  <2>1. CASE k = 1
    BY <2>1
  <2>2. CASE k > 1
    BY <1>1, <2>2
  <2> QED
    BY <2>1, <2>2
<1>3. /\ rest \in Seq(All) /\ Len(rest) = Len(t) - k + 1
      /\ \A i \in 1..(Len(t) - k + 1) : rest[i] = t[i + k - 1]
  BY <1>1
<1>4. <<Break>> \in Seq(All) /\ Len(<<Break>>) = 1 /\ <<Break>>[1] = Break
  OBVIOUS
<1> DEFINE left == front \o <<Break>>
           s == left \o rest
<1> HIDE DEF front, rest, All
<1>5. /\ left \in Seq(All) /\ Len(left) = k
      /\ \A i \in 1..k : left[i] = IF i < k THEN t[i] ELSE Break
  BY <1>2, <1>4
<1> HIDE DEF left
<1>6. /\ Len(s) = Len(t) + 1
      /\ \A i \in 1..(Len(t) + 1) : s[i] = IF i <= k THEN left[i] ELSE rest[i - k]
  <2>1. Len(left) + Len(rest) = Len(t) + 1
    BY <1>1, <1>3, <1>5
  <2>2. /\ Len(left \o rest) = Len(left) + Len(rest)
        /\ \A i \in 1..(Len(left) + Len(rest)) :
             (left \o rest)[i] = IF i <= Len(left) THEN left[i] ELSE rest[i - Len(left)]
    BY <1>3, <1>5, ConcatProperties
  <2>3. Len(left) = k
    BY <1>5
  <2> QED
    BY <2>1, <2>2, <2>3
<1>7. s = InsertAt(t, k, Break)
  BY Zenon DEF InsertAt, left, front, rest
<1> HIDE DEF s
<1>8. ASSUME NEW i \in 1..(Len(t) + 1)
      PROVE  s[i] = IF i < k THEN t[i] ELSE IF i = k THEN Break ELSE t[i - 1]
  <2>1. CASE i <= k
    BY <1>5, <1>6, <2>1
  <2>2. CASE i > k
    <3>1. i - k \in 1..(Len(t) - k + 1) /\ (i - k) + k - 1 = i - 1
      BY <1>1, <2>2
    <3>2. rest[i - k] = t[i - 1]
      BY <1>3, <3>1
    <3> QED
      BY <1>6, <2>2, <3>2
  <2> QED
    BY <2>1, <2>2
<1> QED
  BY <1>6, <1>7, <1>8

\* decode skips the line break.
LEMMA BreakSkipped ==
  ASSUME NEW t \in Seq(Symbols), NEW k \in 1..Len(t)
  PROVE  Known(InsertAt(t, k, Break)) = t
<1> DEFINE s == InsertAt(t, k, Break)
           n == Len(t)
           kept == {i \in 1..Len(s) : s[i] \in Alphabet \cup {Padding}}
           place(j) == CHOOSE i \in kept : Cardinality(kept \cap 1..i) = j
<1>1. /\ n \in Nat /\ Len(s) = n + 1
      /\ \A i \in 1..(n + 1) : s[i] = IF i < k THEN t[i] ELSE IF i = k THEN Break ELSE t[i - 1]
  BY Broken
<1>2. Break \notin Symbols /\ \A i \in 1..n : t[i] \in Symbols
  BY ElementOfSeq DEF Symbols, Alphabet, Padding, Break
<1>3. Known(s) = [j \in 1..Cardinality(kept) |-> s[place(j)]]
  BY DEF Known
<1> HIDE DEF s
<1>4. kept = (1..(n + 1)) \ {k}
  <2>1. \A i \in (1..(n + 1)) \ {k} : s[i] \in Symbols
    <3>1. TAKE i \in (1..(n + 1)) \ {k}
    <3>2. CASE i < k
      BY <1>1, <1>2, <3>2
    <3>3. CASE i > k
      <4>1. i - 1 \in 1..n
        BY <1>1, <3>3
      <4> QED
        BY <1>1, <1>2, <3>3, <4>1
    <3> QED
      BY <1>1, <3>2, <3>3
  <2>2. s[k] \notin Symbols
    BY <1>1, <1>2
  <2> QED
    BY <1>1, <2>1, <2>2 DEF Symbols
<1> HIDE DEF kept, n
<1>5. k \in 1..n
  BY DEF n
<1>6. Cardinality(kept) = n
  <2>1. IsFiniteSet(1..(n + 1)) /\ Cardinality(1..(n + 1)) = n + 1
    BY <1>1, FS_Interval
  <2>2. k \in 1..(n + 1)
    BY <1>1, <1>5
  <2>3. Cardinality(kept) = (n + 1) - 1
    BY <1>4, <2>1, <2>2, FS_RemoveElement, Zenon
  <2> QED
    BY <1>1, <2>3
<1>7. ASSUME NEW i \in kept
      PROVE  Cardinality(kept \cap 1..i) = IF i < k THEN i ELSE i - 1
  <2>1. kept \cap 1..i = IF i < k THEN 1..i ELSE (1..i) \ {k}
    BY <1>1, <1>4, <1>5, <1>7
  <2>2. IsFiniteSet(1..i) /\ Cardinality(1..i) = i
    <3>1. i \in Int /\ 1 \in Int /\ ~ (1 > i) /\ i - 1 + 1 = i
      BY <1>1, <1>4, <1>7
    <3> QED
      BY <3>1, FS_Interval
  <2>3. CASE i < k
    BY <2>1, <2>2, <2>3
  <2>4. CASE ~ (i < k)
    <3>1. k \in 1..i
      BY <1>1, <1>4, <1>5, <2>4
    <3>2. Cardinality((1..i) \ {k}) = i - 1
      BY <2>2, <3>1, FS_RemoveElement
    <3> QED
      BY <2>1, <2>4, <3>2
  <2> QED
    BY <2>3, <2>4
<1>8. ASSUME NEW j \in 1..n
      PROVE  s[place(j)] = t[j]
  <2> DEFINE here == IF j < k THEN j ELSE j + 1
  <2>1. here \in kept /\ Cardinality(kept \cap 1..here) = j
    <3>1. here \in kept
      BY <1>1, <1>4, <1>5
    <3>2. (IF here < k THEN here ELSE here - 1) = j
      BY <1>1, <1>5
    <3> HIDE DEF here
    <3> QED
      BY <1>7, <3>1, <3>2
  <2>2. ASSUME NEW i \in kept, Cardinality(kept \cap 1..i) = j
        PROVE  i = here
    <3>1. (IF i < k THEN i ELSE i - 1) = j
      BY <1>7, <2>2
    <3>2. i \in 1..(n + 1) /\ i # k
      BY <1>4
    <3> QED
      BY <1>1, <1>5, <3>1, <3>2
  <2>3. place(j) = here
    BY <2>1, <2>2
  <2>4. s[here] = t[j]
    BY <1>1, <1>5
  <2> QED
    BY <2>3, <2>4, Zenon
<1> HIDE DEF place
<1>9. [j \in 1..n |-> s[place(j)]] = [j \in 1..n |-> t[j]]
  BY <1>8
<1>10. t = [j \in 1..n |-> t[j]]
  BY DEF n
<1> QED
  BY <1>3, <1>6, <1>9, <1>10, Zenon DEF s

-----------------------------------------------------------------------------
(* The text of a message.                                                  *)

\* Octet i of a message, or what stands for it in the last group.
Octet(m, i) == IF i <= Len(m) THEN m[i] ELSE 0

LEMMA MessageTyped ==
  ASSUME NEW n \in 1..MaxLength, NEW m \in [1..n -> Octets]
  PROVE  /\ Len(m) = n /\ m # <<>>
         /\ \A i \in Nat \ {0} : Octet(m, i) \in 0..255
<1>1. n \in Nat /\ Len(m) = n /\ m # <<>>
  <2>1. n \in Nat /\ n > 0
    BY MaxLengthAssumption
  <2>2. m \in Seq(Octets) /\ Len(m) = n
    BY <2>1
  <2> QED
    BY <2>1, <2>2
<1>2. ASSUME NEW i \in 1..n PROVE m[i] \in 0..255
  BY OctetsAssumption
<1>3. ASSUME NEW i \in Nat \ {0} PROVE Octet(m, i) \in 0..255
  BY <1>1, <1>2 DEF Octet
<1> QED
  BY <1>1, <1>3

LEMMA TextTyped ==
  ASSUME NEW n \in 1..MaxLength, NEW m \in [1..n -> Octets]
  PROVE  /\ Len(Text(m)) = 4 * Groups(n)
         /\ \A k \in 1..(4 * Groups(n)) : Text(m)[k] = Symbol(m, k)
<1>1. Text(m) = [k \in 1..(4 * Groups(n)) |-> Symbol(m, k)]
  BY MessageTyped DEF Text, Groups
<1>2. 4 * Groups(n) \in Nat
  BY TextFits
<1> QED
  BY <1>1, <1>2

\* The four symbols of a group.
LEMMA SymbolsOfGroup ==
  ASSUME NEW n \in 1..MaxLength, NEW m \in [1..n -> Octets], NEW g \in 1..Groups(n)
  PROVE  LET a == Octet(m, 3 * g - 2)
             b == Octet(m, 3 * g - 1)
             c == Octet(m, 3 * g)
         IN  /\ a \in 0..255 /\ b \in 0..255 /\ c \in 0..255
             /\ Symbol(m, 4 * g - 3) = a \div 4
             /\ Symbol(m, 4 * g - 2) = (a % 4) * 16 + b \div 16
             /\ Symbol(m, 4 * g - 1) = IF 3 * g - 1 > n THEN Padding ELSE (b % 16) * 4 + c \div 64
             /\ Symbol(m, 4 * g) = IF 3 * g > n THEN Padding ELSE c % 64
<1>1. g \in Nat /\ g >= 1 /\ n \in Nat /\ Len(m) = n
  BY TextFits, MessageTyped
<1> DEFINE octet(i) == IF i <= Len(m) THEN m[i] ELSE 0
           first(k) == ((k - 1) \div 4) * 3 + 1
<1>2. ASSUME NEW k \in Nat
      PROVE  /\ (k - 1) % 4 = 0 => Symbol(m, k) = octet(first(k)) \div 4
             /\ (k - 1) % 4 = 1 =>
                  Symbol(m, k) = (octet(first(k)) % 4) * 16 + octet(first(k) + 1) \div 16
             /\ (k - 1) % 4 = 2 =>
                  Symbol(m, k) = IF first(k) + 1 > Len(m) THEN Padding
                                 ELSE (octet(first(k) + 1) % 16) * 4 + octet(first(k) + 2) \div 64
             /\ (k - 1) % 4 = 3 =>
                  Symbol(m, k) = IF first(k) + 2 > Len(m) THEN Padding
                                 ELSE octet(first(k) + 2) % 64
  BY DEF Symbol
<1>3. /\ (4 * g - 3 - 1) % 4 = 0 /\ first(4 * g - 3) = 3 * g - 2
      /\ (4 * g - 2 - 1) % 4 = 1 /\ first(4 * g - 2) = 3 * g - 2
      /\ (4 * g - 1 - 1) % 4 = 2 /\ first(4 * g - 1) = 3 * g - 2
      /\ (4 * g - 1) % 4 = 3 /\ first(4 * g) = 3 * g - 2
  BY <1>1
<1>4. 3 * g - 2 + 1 = 3 * g - 1 /\ 3 * g - 2 + 2 = 3 * g
  BY <1>1
<1>5. \A i : octet(i) = Octet(m, i)
  BY DEF Octet
<1>6. {3 * g - 2, 3 * g - 1, 3 * g} \subseteq Nat \ {0}
  BY <1>1
<1>7. {4 * g - 3, 4 * g - 2, 4 * g - 1, 4 * g} \subseteq Nat
  BY <1>1
<1> HIDE DEF octet, first
<1>8. Symbol(m, 4 * g - 3) = Octet(m, 3 * g - 2) \div 4
  <2>1. Symbol(m, 4 * g - 3) = octet(first(4 * g - 3)) \div 4
    BY <1>2, <1>3, <1>7
  <2> QED
    BY <1>3, <1>5, <2>1
<1>9. Symbol(m, 4 * g - 2) = (Octet(m, 3 * g - 2) % 4) * 16 + Octet(m, 3 * g - 1) \div 16
  <2> DEFINE k == 4 * g - 2
  <2>1. Symbol(m, k) = (octet(first(k)) % 4) * 16 + octet(first(k) + 1) \div 16
    BY <1>2, <1>3, <1>7
  <2> QED
    BY <1>3, <1>4, <1>5, <2>1
<1>10. Symbol(m, 4 * g - 1) = IF 3 * g - 1 > n THEN Padding
                              ELSE (Octet(m, 3 * g - 1) % 16) * 4 + Octet(m, 3 * g) \div 64
  <2> DEFINE k == 4 * g - 1
  <2>1. Symbol(m, k) = IF first(k) + 1 > Len(m) THEN Padding
                       ELSE (octet(first(k) + 1) % 16) * 4 + octet(first(k) + 2) \div 64
    BY <1>2, <1>3, <1>7
  <2> QED
    BY <1>1, <1>3, <1>4, <1>5, <2>1
<1>11. Symbol(m, 4 * g) = IF 3 * g > n THEN Padding ELSE Octet(m, 3 * g) % 64
  <2> DEFINE k == 4 * g
  <2>1. Symbol(m, k) = IF first(k) + 2 > Len(m) THEN Padding ELSE octet(first(k) + 2) % 64
    BY <1>2, <1>3, <1>7
  <2> QED
    BY <1>1, <1>3, <1>4, <1>5, <2>1
<1> QED
  BY <1>6, <1>8, <1>9, <1>10, <1>11, MessageTyped

\* Which symbols of a group are padding.
LEMMA GroupTyped ==
  ASSUME NEW n \in 1..MaxLength, NEW m \in [1..n -> Octets], NEW g \in 1..Groups(n)
  PROVE  LET t == Text(m)
         IN  /\ t[4 * g - 3] \in Alphabet /\ t[4 * g - 2] \in Alphabet
             /\ t[4 * g - 1] \in Symbols /\ (t[4 * g - 1] = Padding <=> 3 * g - 1 > n)
             /\ t[4 * g] \in Symbols /\ (t[4 * g] = Padding <=> 3 * g > n)
<1>1. /\ 4 * g - 3 \in 1..(4 * Groups(n)) /\ 4 * g - 2 \in 1..(4 * Groups(n))
      /\ 4 * g - 1 \in 1..(4 * Groups(n)) /\ 4 * g \in 1..(4 * Groups(n))
  BY TextFits
<1>2. \A k \in 1..(4 * Groups(n)) : Text(m)[k] = Symbol(m, k)
  BY TextTyped
<1> DEFINE a == Octet(m, 3 * g - 2)
           b == Octet(m, 3 * g - 1)
           c == Octet(m, 3 * g)
<1>3. /\ a \in 0..255 /\ b \in 0..255 /\ c \in 0..255
      /\ Symbol(m, 4 * g - 3) = a \div 4
      /\ Symbol(m, 4 * g - 2) = (a % 4) * 16 + b \div 16
      /\ Symbol(m, 4 * g - 1) = IF 3 * g - 1 > n THEN Padding ELSE (b % 16) * 4 + c \div 64
      /\ Symbol(m, 4 * g) = IF 3 * g > n THEN Padding ELSE c % 64
  BY SymbolsOfGroup
<1> HIDE DEF a, b, c
<1>4. /\ a \div 4 \in Alphabet /\ (a % 4) * 16 + b \div 16 \in Alphabet
      /\ (b % 16) * 4 + c \div 64 \in Alphabet /\ c % 64 \in Alphabet
  <2>1. a \div 4 \in 0..63 /\ (a % 4) * 16 + b \div 16 \in 0..63
    BY <1>3, SymbolOfOctets, Zenon
  <2>2. (b % 16) * 4 + c \div 64 \in 0..63 /\ c % 64 \in 0..63
    BY <1>3, SymbolOfOctets, Zenon
  <2> QED
    BY <2>1, <2>2, Zenon DEF Alphabet
<1>5. Padding \notin Alphabet /\ Symbols = Alphabet \cup {Padding}
  BY DEF Symbols, Alphabet, Padding
<1>6. /\ Text(m)[4 * g - 3] = a \div 4
      /\ Text(m)[4 * g - 2] = (a % 4) * 16 + b \div 16
      /\ Text(m)[4 * g - 1] = IF 3 * g - 1 > n THEN Padding ELSE (b % 16) * 4 + c \div 64
      /\ Text(m)[4 * g] = IF 3 * g > n THEN Padding ELSE c % 64
  BY <1>1, <1>2, <1>3, Zenon
<1>7. Text(m)[4 * g - 1] \in Symbols /\ (Text(m)[4 * g - 1] = Padding <=> 3 * g - 1 > n)
  BY <1>4, <1>5, <1>6, Zenon
<1>8. Text(m)[4 * g] \in Symbols /\ (Text(m)[4 * g] = Padding <=> 3 * g > n)
  BY <1>4, <1>5, <1>6, Zenon
<1> QED
  BY <1>4, <1>6, <1>7, <1>8, Zenon

LEMMA TextOfSymbols ==
  ASSUME NEW n \in 1..MaxLength, NEW m \in [1..n -> Octets]
  PROVE  Text(m) \in Seq(Symbols)
<1>1. ASSUME NEW k \in 1..(4 * Groups(n))
      PROVE  Text(m)[k] \in Symbols
  <2> DEFINE g == (k + 3) \div 4
  <2>1. g \in 1..Groups(n) /\ k \in {4 * g - 3, 4 * g - 2, 4 * g - 1, 4 * g}
    BY TextFits
  <2> HIDE DEF g
  <2> QED
    BY <2>1, GroupTyped DEF Symbols
<1>2. Text(m) = [k \in 1..(4 * Groups(n)) |-> Text(m)[k]]
  BY MessageTyped DEF Text, Groups
<1>3. 4 * Groups(n) \in Nat
  BY TextFits
<1> DEFINE t == Text(m)
<1> HIDE DEF t
<1>4. [k \in 1..(4 * Groups(n)) |-> t[k]] \in Seq(Symbols)
  BY <1>1, <1>3 DEF t
<1> QED
  BY <1>2, <1>4 DEF t

\* decode finds the end of the message.
LEMMA LastGroup ==
  ASSUME NEW n \in 1..MaxLength, NEW m \in [1..n -> Octets]
  PROVE  LastBlock(Text(m)) = Groups(n) /\ Pad(Text(m)) = 3 * Groups(n) - n
<1> DEFINE t == Text(m)
           q == Groups(n)
           blocks == 1..(Len(t) \div 4)
           padded == {k \in blocks : \E i \in 1..4 : t[4 * (k - 1) + i] = Padding}
<1>1. q \in Nat \ {0} /\ n \in Nat /\ 3 * q - n \in 0..2
  BY TextFits
<1>2. Len(t) \div 4 = q
  <2>1. Len(t) = 4 * q
    BY TextTyped
  <2> HIDE DEF t, q
  <2> QED
    BY <1>1, <2>1
<1>3. ASSUME NEW k \in 1..q
      PROVE  /\ t[4 * k - 3] # Padding /\ t[4 * k - 2] # Padding
             /\ t[4 * k - 1] = Padding <=> 3 * k - 1 > n
             /\ t[4 * k] = Padding <=> 3 * k > n
  <2>1. Padding \notin Alphabet
    BY DEF Alphabet, Padding
  <2> QED
    BY <2>1, GroupTyped, Zenon
<1>4. LastBlock(t) = IF padded = {} THEN q ELSE CHOOSE k \in padded : \A l \in padded : k <= l
  BY <1>2 DEF LastBlock
<1> HIDE DEF t, q
<1>5. padded \subseteq {q}
  <2> SUFFICES ASSUME NEW k \in 1..q, NEW i \in 1..4, t[4 * (k - 1) + i] = Padding
               PROVE  k = q
    BY <1>2
  <2>1. /\ i = 1 => 4 * (k - 1) + i = 4 * k - 3
        /\ i = 2 => 4 * (k - 1) + i = 4 * k - 2
        /\ i = 3 => 4 * (k - 1) + i = 4 * k - 1
        /\ i = 4 => 4 * (k - 1) + i = 4 * k
    BY <1>1
  <2>2. 3 * k > n
    BY <1>1, <1>3, <2>1
  <2> QED
    BY <1>1, <2>2
<1> HIDE DEF padded
<1>6. LastBlock(t) = q
  <2>1. CASE padded = {}
    BY <1>4, <2>1
  <2>2. CASE padded = {q}
    BY <1>1, <1>4, <2>2
  <2> QED
    BY <1>5, <2>1, <2>2
<1>7. {i \in 1..4 : t[4 * q - 4 + i] = Padding} = (5 - (3 * q - n))..4
  <2> DEFINE p == 3 * q - n
  <2>1. ASSUME NEW i \in 1..4
        PROVE  t[4 * q - 4 + i] = Padding <=> i > 4 - p
    <3>1. /\ i = 1 => 4 * q - 4 + i = 4 * q - 3
          /\ i = 2 => 4 * q - 4 + i = 4 * q - 2
          /\ i = 3 => 4 * q - 4 + i = 4 * q - 1
          /\ i = 4 => 4 * q - 4 + i = 4 * q
      BY <1>1
    <3>2. q \in 1..q
      BY <1>1
    <3> QED
      BY <1>1, <1>3, <3>1, <3>2
  <2>2. p \in 0..2
    BY <1>1
  <2> HIDE DEF p
  <2>3. {i \in 1..4 : i > 4 - p} = (5 - p)..4
    BY <2>2
  <2>4. {i \in 1..4 : t[4 * q - 4 + i] = Padding} = {i \in 1..4 : i > 4 - p}
    BY <2>1
  <2> QED
    BY <2>3, <2>4, Zenon DEF p
<1>8. Cardinality((5 - (3 * q - n))..4) = 3 * q - n
  <2> DEFINE from == 5 - (3 * q - n)
  <2>1. from \in 3..5 /\ 4 - from + 1 = 3 * q - n /\ (from > 4 => 3 * q - n = 0)
    BY <1>1
  <2> HIDE DEF from
  <2>2. Cardinality(from..4) = 3 * q - n
    BY <2>1, FS_Interval
  <2> QED
    BY <2>2 DEF from
<1>9. Pad(t) = 3 * q - n
  BY <1>6, <1>7, <1>8 DEF Pad
<1> QED
  BY <1>6, <1>9 DEF t, q

\* The octets of a group come back.
LEMMA GroupDecodes ==
  ASSUME NEW n \in 1..MaxLength, NEW m \in [1..n -> Octets], NEW g \in 1..Groups(n)
  PROVE  LET block == Block(SubSeq(Text(m), 4 * g - 3, 4 * g))
         IN  /\ block[1] = Octet(m, 3 * g - 2)
             /\ 3 * g - 1 <= n => block[2] = Octet(m, 3 * g - 1)
             /\ 3 * g <= n => block[3] = Octet(m, 3 * g)
<1> DEFINE t == Text(m)
           s == SubSeq(t, 4 * g - 3, 4 * g)
           a == Octet(m, 3 * g - 2)
           b == Octet(m, 3 * g - 1)
           c == Octet(m, 3 * g)
           value(k) == IF s[k] = Padding THEN 0 ELSE s[k]
<1>1. g \in Nat /\ g >= 1 /\ n \in Nat
  BY TextFits
<1>2. /\ 4 * g - 3 \in 1..(4 * Groups(n)) /\ 4 * g - 2 \in 1..(4 * Groups(n))
      /\ 4 * g - 1 \in 1..(4 * Groups(n)) /\ 4 * g \in 1..(4 * Groups(n))
  BY TextFits
<1>3. t \in Seq(Symbols) /\ Len(t) = 4 * Groups(n)
  BY TextOfSymbols, TextTyped
<1>4. /\ t[4 * g - 3] = Symbol(m, 4 * g - 3) /\ t[4 * g - 2] = Symbol(m, 4 * g - 2)
      /\ t[4 * g - 1] = Symbol(m, 4 * g - 1) /\ t[4 * g] = Symbol(m, 4 * g)
  BY <1>2, TextTyped, Zenon
<1>5. /\ a \in 0..255 /\ b \in 0..255 /\ c \in 0..255
      /\ Symbol(m, 4 * g - 3) = a \div 4
      /\ Symbol(m, 4 * g - 2) = (a % 4) * 16 + b \div 16
      /\ Symbol(m, 4 * g - 1) = IF 3 * g - 1 > n THEN Padding ELSE (b % 16) * 4 + c \div 64
      /\ Symbol(m, 4 * g) = IF 3 * g > n THEN Padding ELSE c % 64
  BY SymbolsOfGroup
<1> HIDE DEF t, a, b, c
<1>6. s[1] = t[4 * g - 3] /\ s[2] = t[4 * g - 2] /\ s[3] = t[4 * g - 1] /\ s[4] = t[4 * g]
  <2> DEFINE i == 4 * g - 3
             j == 4 * g
  <2>1. i \in 1..Len(t) /\ j \in i..Len(t) /\ j - i + 1 = 4
    BY <1>1, <1>2, <1>3
  <2>2. \A k \in 1..(j - i + 1) : SubSeq(t, i, j)[k] = t[i + k - 1]
    BY <1>3, <2>1, SubSeqProperties
  <2>3. s[1] = t[i + 1 - 1] /\ s[2] = t[i + 2 - 1] /\ s[3] = t[i + 3 - 1] /\ s[4] = t[i + 4 - 1]
    BY <2>1, <2>2
  <2>4. i + 1 - 1 = 4 * g - 3 /\ i + 2 - 1 = 4 * g - 2 /\ i + 3 - 1 = 4 * g - 1 /\ i + 4 - 1 = 4 * g
    BY <1>1
  <2> QED
    BY <2>3, <2>4, Zenon
<1>7. Block(s) = <<(value(1) * 4 + value(2) \div 16) % 256,
                   (value(2) * 16 + value(3) \div 4) % 256,
                   (value(3) * 64 + value(4)) % 256>>
  BY DEF Block
<1> HIDE DEF s
<1> DEFINE w1 == a \div 4
           w2 == (a % 4) * 16 + b \div 16
           w3 == (b % 16) * 4 + c \div 64
           w4 == c % 64
<1>8. w1 \in 0..63 /\ w2 \in 0..63 /\ w3 \in 0..63 /\ w4 \in 0..63
  <2>1. w1 \in 0..63 /\ w2 \in 0..63
    BY <1>5, SymbolOfOctets, Zenon
  <2>2. w3 \in 0..63 /\ w4 \in 0..63
    BY <1>5, SymbolOfOctets, Zenon
  <2> QED
    BY <2>1, <2>2
<1>9. /\ s[1] = w1 /\ s[2] = w2
      /\ s[3] = IF 3 * g - 1 > n THEN Padding ELSE w3
      /\ s[4] = IF 3 * g > n THEN Padding ELSE w4
  BY <1>4, <1>5, <1>6, Zenon
<1>10. /\ (w1 * 4 + w2 \div 16) % 256 = a
       /\ (w2 * 16 + w3 \div 4) % 256 = b
       /\ (w3 * 64 + w4) % 256 = c
  <2>1. Recovered(a, b, c)
    BY <1>5, OctetsRecovered, Zenon
  <2> QED
    BY <2>1, Zenon DEF Recovered
<1> HIDE DEF w1, w2, w3, w4
<1>11. value(1) = w1 /\ value(2) = w2
  BY <1>8, <1>9 DEF Padding
<1>12. 3 * g - 1 <= n => value(3) = w3
  BY <1>1, <1>8, <1>9 DEF Padding
<1>13. 3 * g <= n => value(4) = w4
  BY <1>1, <1>8, <1>9 DEF Padding
<1> HIDE DEF value
<1>14. Block(s)[1] = a
  BY <1>7, <1>10, <1>11
<1>15. 3 * g - 1 <= n => Block(s)[2] = b
  BY <1>7, <1>10, <1>11, <1>12
<1>16. 3 * g <= n => Block(s)[3] = c
  BY <1>1, <1>7, <1>10, <1>12, <1>13
<1> QED
  BY <1>14, <1>15, <1>16, Zenon DEF s, t, a, b, c

LEMMA TextDecodes ==
  ASSUME NEW n \in 1..MaxLength, NEW m \in [1..n -> Octets]
  PROVE  Decoded(Text(m)) = m
<1> DEFINE t == Text(m)
           q == Groups(n)
           octet(i) == LET block == (i - 1) \div 3 + 1
                       IN  Block(SubSeq(t, 4 * block - 3, 4 * block))[((i - 1) % 3) + 1]
<1>1. q \in Nat \ {0} /\ n \in Nat /\ 3 * q - n \in 0..2
  BY TextFits
<1>2. Decoded(t) = [i \in 1..n |-> octet(i)]
  <2>1. LastBlock(t) = q /\ Pad(t) = 3 * q - n
    BY LastGroup
  <2>2. Decoded(t) = [i \in 1..(3 * LastBlock(t) - Pad(t)) |-> octet(i)]
    BY DEF Decoded
  <2> HIDE DEF t, q, octet
  <2>3. 3 * LastBlock(t) - Pad(t) = n
    BY <1>1, <2>1
  <2> QED
    BY <2>2, <2>3
<1>3. ASSUME NEW i \in 1..n PROVE octet(i) = m[i]
  <2> DEFINE g == (i - 1) \div 3 + 1
             block == Block(SubSeq(t, 4 * g - 3, 4 * g))
  <2>1. Len(m) = n
    BY MessageTyped
  <2>2. g \in 1..q /\ i \in {3 * g - 2, 3 * g - 1, 3 * g}
    BY DEF Groups
  <2>3. /\ i = 3 * g - 2 => ((i - 1) % 3) + 1 = 1
        /\ i = 3 * g - 1 => ((i - 1) % 3) + 1 = 2
        /\ i = 3 * g => ((i - 1) % 3) + 1 = 3
    OBVIOUS
  <2>4. octet(i) = block[((i - 1) % 3) + 1]
    OBVIOUS
  <2>5. /\ block[1] = Octet(m, 3 * g - 2)
        /\ 3 * g - 1 <= n => block[2] = Octet(m, 3 * g - 1)
        /\ 3 * g <= n => block[3] = Octet(m, 3 * g)
    BY <2>2, GroupDecodes, Zenon
  <2>6. Octet(m, i) = m[i]
    BY <2>1 DEF Octet
  <2> DEFINE j == ((i - 1) % 3) + 1
  <2>7. octet(i) = block[j]
    BY <2>4
  <2>8. /\ i = 3 * g - 2 => j = 1
        /\ i = 3 * g - 1 => j = 2
        /\ i = 3 * g => j = 3
    BY <2>3
  <2>9. i \in Nat /\ i <= n
    OBVIOUS
  <2> HIDE DEF g, block, octet, j, t, q
  <2> QED
    BY <2>2, <2>5, <2>6, <2>7, <2>8, <2>9
<1> HIDE DEF octet
<1>4. m = [i \in 1..n |-> m[i]]
  OBVIOUS
<1>5. [i \in 1..n |-> octet(i)] = [i \in 1..n |-> m[i]]
  BY <1>3
<1> QED
  BY <1>2, <1>4, <1>5, Zenon DEF t

LEMMA RecordDecoded ==
  ASSUME NEW n \in 1..MaxLength, NEW m \in [1..n -> Octets], NEW k \in 1..Len(Text(m))
  PROVE  decode(InsertAt(Text(m), k, Break), 2 * MaxLength + 3) = [result |-> "ok", dst |-> m]
<1> DEFINE t == Text(m)
           s == InsertAt(t, k, Break)
           room == 2 * MaxLength + 3
           q == Groups(n)
<1>1. t \in Seq(Symbols) /\ Len(t) = 4 * q
  BY TextOfSymbols, TextTyped
<1>2. /\ q \in Nat \ {0} /\ 3 * q - n \in 0..2 /\ 4 * q + 1 \in 1..Room
      /\ ((4 * q + 1) \div 4) * 3 <= room
  BY TextFits
<1>3. Len(s) = 4 * q + 1 /\ Known(s) = t
  BY <1>1, Broken, BreakSkipped
<1>4. Pad(t) = 3 * q - n /\ Decoded(t) = m
  BY LastGroup, TextDecodes
<1>5. room \in Nat /\ room > 0
  BY MaxLengthAssumption
<1> HIDE DEF t, s, room, q
<1>6. ~ (room = 0 \/ room < (Len(s) \div 4) * 3)
  <2>1. (4 * q + 1) \div 4 \in Int
    BY <1>2
  <2> HIDE DEF Groups
  <2> DEFINE x == (4 * q + 1) \div 4
  <2>2. x \in Int /\ x * 3 <= room /\ Len(s) \div 4 = x
    BY <1>2, <1>3, <2>1
  <2> HIDE DEF x
  <2> QED
    BY <1>5, <2>2
<1>7. t # <<>> /\ Len(t) % 4 = 0
  BY <1>1, <1>2
<1>8. ~ (Pad(t) > 2)
  BY <1>2, <1>4
<1>9. decode(s, room) =
        IF \/ room = 0 \/ room < (Len(s) \div 4) * 3
           \/ Known(s) = <<>> \/ Len(Known(s)) % 4 # 0
           \/ Pad(Known(s)) > 2
        THEN [result |-> "fault", dst |-> <<>>]
        ELSE [result |-> "ok", dst |-> Decoded(Known(s))]
  BY Zenon DEF decode
<1>10. decode(s, room) = [result |-> "ok", dst |-> m]
  BY <1>3, <1>4, <1>6, <1>7, <1>8, <1>9, Zenon
<1> QED
  BY <1>10, Zenon DEF s, t, room

-----------------------------------------------------------------------------
(* The buffer.                                                             *)

\* What is printed of the buffer is the text that was written last, whatever the
\* buffer held behind it.
LEMMA TextPrinted ==
  ASSUME NEW n \in 1..MaxLength, NEW m \in [1..n -> Octets],
         base64Data \in [1..Room -> 0..66]
  PROVE  LET dst == WriteTextAndZero(base64Data, m)
         IN  dst \in [1..Room -> 0..66] /\ Printed(dst) = Text(m)
<1> DEFINE t == Text(m)
           L == Len(t)
           dst == WriteTextAndZero(base64Data, m)
<1>1. t \in Seq(Symbols) /\ L = 4 * Groups(n) /\ L \in Nat /\ L + 1 \in 1..Room
  BY TextOfSymbols, TextTyped, TextFits
<1>2. Room \in Nat
  BY MaxLengthAssumption DEF Room
<1>3. dst = [i \in 1..Room |-> IF i <= L THEN t[i] ELSE IF i = L + 1 THEN Zero ELSE base64Data[i]]
  <2>1. DOMAIN base64Data = 1..Room
    OBVIOUS
  <2> QED
    BY <2>1, Zenon DEF WriteTextAndZero
<1> HIDE DEF t, dst
<1>4. \A i \in 1..L : t[i] \in 0..64
  <2>1. \A i \in 1..L : t[i] \in Symbols
    BY <1>1, ElementOfSeq
  <2> QED
    BY <2>1 DEF Symbols, Alphabet, Padding
<1> HIDE DEF L
<1>5. dst \in [1..Room -> 0..66]
  BY <1>1, <1>2, <1>3, <1>4 DEF Zero
<1>6. L + 1 \in DOMAIN dst /\ dst[L + 1] = Zero
  BY <1>1, <1>3
<1>7. \A i \in 1..L : dst[i] = t[i]
  BY <1>1, <1>2, <1>3
<1>8. \A i \in 1..L : dst[i] # Zero
  <2>1. \A i \in 1..L : dst[i] \in 0..64
    BY <1>4, <1>7, Zenon
  <2>2. Zero \notin 0..64
    BY DEF Zero
  <2> QED
    BY <2>1, <2>2, Zenon
<1> DEFINE zero == CHOOSE i \in DOMAIN dst : dst[i] = Zero /\ \A j \in 1..(i - 1) : dst[j] # Zero
<1>9. zero = L + 1
  <2>1. \A j \in 1..((L + 1) - 1) : dst[j] # Zero
    BY <1>1, <1>8
  <2>2. ASSUME NEW i \in DOMAIN dst, dst[i] = Zero, \A j \in 1..(i - 1) : dst[j] # Zero
        PROVE  i = L + 1
    <3>1. i \in 1..Room
      BY <1>3, <2>2
    <3>2. ~ (i <= L)
      BY <1>8, <2>2, <3>1
    <3>3. ~ (L + 1 < i)
      BY <1>1, <1>6, <2>2, <3>1
    <3> QED
      BY <1>1, <3>1, <3>2, <3>3
  <2> QED
    BY <1>6, <2>1, <2>2
<1>10. Printed(dst) = SubSeq(dst, 1, zero - 1)
  BY <1>6, Zenon DEF Printed
<1> HIDE DEF zero
<1>11. Printed(dst) = SubSeq(dst, 1, L)
  BY <1>1, <1>9, <1>10
<1>12. SubSeq(dst, 1, L) = t
  <2>1. dst \in Seq(0..66) /\ Len(dst) = Room
    BY <1>2, <1>5
  <2>2. 1..L \subseteq 1..Room
    BY <1>1, <1>2
  <2>3. /\ SubSeq(dst, 1, L) \in Seq(0..66) /\ Len(SubSeq(dst, 1, L)) = L
        /\ \A i \in 1..L : SubSeq(dst, 1, L)[i] = dst[i]
    BY <1>1, <2>1, <2>2
  <2>4. t \in Seq(Symbols) /\ Len(t) = L
    BY <1>1 DEF L
  <2> QED
    BY <1>7, <2>3, <2>4
<1> QED
  BY <1>5, <1>11, <1>12, Zenon DEF t, dst

-----------------------------------------------------------------------------
(* The theorem.                                                            *)

LEMMA InitInductive == Init => IInv
<1> SUFFICES ASSUME Init PROVE IInv
  OBVIOUS
<1>1. base64Data \in [1..Room -> 0..66] /\ message = <<>>
  BY DEF Init, Blank, Zero
<1> QED
  BY <1>1, Zenon DEF IInv

LEMMA TraceInductive ==
  ASSUME IInv, NEW m \in Messages, buildJsonMessage(m)
  PROVE  IInv'
<1>1. base64Data \in [1..Room -> 0..66]
  BY DEF IInv
<1> DEFINE encoded == encode(m, base64Data, Room)
<1>2. /\ message' = m
      /\ base64Data' = encoded.dst
      /\ record' = [length |-> encoded.dstLen, text |-> Printed(encoded.dst)]
  BY Zenon DEF buildJsonMessage
<1>3. PICK n \in 0..MaxLength : m \in [1..n -> Octets]
  BY DEF Messages
<1>4. CASE n = 0
  <2>1. m = <<>> /\ Len(m) = 0
    BY <1>3, <1>4
  <2>2. encoded.dst = base64Data
    BY <2>1 DEF encode, Accepts
  <2> QED
    BY <1>1, <1>2, <2>1, <2>2 DEF IInv
<1>5. CASE n # 0
  <2>1. n \in 1..MaxLength
    BY <1>5, MaxLengthAssumption
  <2>2. Accepts(Len(m), Room)
    BY <1>3, <2>1, MessageTyped, TextFits
  <2> DEFINE dst == WriteTextAndZero(base64Data, m)
  <2>3. encoded = [result |-> "ok", dst |-> dst, dstLen |-> Len(Text(m))]
    BY <2>2, Zenon DEF encode
  <2>4. dst \in [1..Room -> 0..66] /\ Printed(dst) = Text(m)
    BY <1>1, <1>3, <2>1, TextPrinted
  <2> HIDE DEF dst, encoded
  <2>5. base64Data' = dst /\ record' = [length |-> Len(Text(m)), text |-> Printed(dst)]
    BY <1>2, <2>3
  <2>6. record' = [length |-> Len(Text(m)), text |-> Text(m)]
    BY <2>4, <2>5, Zenon
  <2>7. base64Data' \in [1..Room -> 0..66]
    BY <2>4, <2>5, Zenon
  <2>8. (base64Data \in [1..Room -> 0..66])'
    BY <2>7 DEF Room
  <2>9. record' = [length |-> Len(Text(message')), text |-> Text(message')] /\ message' \in Messages
    BY <1>2, <2>6, Zenon
  <2> QED
    BY <2>8, <2>9, Zenon DEF IInv
<1> QED
  BY <1>4, <1>5

LEMMA NextInductive ==
  ASSUME IInv, [Next]_vars
  PROVE  IInv'
<1>1. CASE NewMessages
  BY <1>1 DEF NewMessages, IInv, Blank, Zero, Room
<1>2. CASE \E m \in Messages : buildJsonMessage(m)
  BY <1>2, TraceInductive
<1>3. CASE UNCHANGED vars
  BY <1>3 DEF IInv, vars
<1> QED
  BY <1>1, <1>2, <1>3 DEF Next

LEMMA Inductive == Spec => []IInv
BY InitInductive, NextInductive, PTL DEF Spec

LEMMA InvariantSuffices == IInv => RecordDecodes
<1> SUFFICES ASSUME IInv, message # <<>>
             PROVE  /\ record.length = Len(record.text)
                    /\ \A k \in 1..Len(record.text) :
                         decode(InsertAt(record.text, k, Break), 2 * MaxLength + 3)
                           = [result |-> "ok", dst |-> message]
  BY Zenon DEF RecordDecodes
<1>1. message \in Messages /\ record = [length |-> Len(Text(message)), text |-> Text(message)]
  BY Zenon DEF IInv
<1>2. record.length = Len(Text(message)) /\ record.text = Text(message)
  BY <1>1
<1>3. PICK n \in 1..MaxLength : message \in [1..n -> Octets]
  <2>1. PICK n \in 0..MaxLength : message \in [1..n -> Octets]
    BY <1>1 DEF Messages
  <2>2. n # 0
    BY <2>1
  <2>3. n \in 1..MaxLength
    BY <2>2, MaxLengthAssumption
  <2> QED
    BY <2>1, <2>3
<1> QED
  BY <1>2, <1>3, RecordDecoded, Zenon

\* The record that buildJsonMessage makes of a message decodes to that message,
\* whatever was traced in the same base64Data before and also with a line break in
\* it: base64::decode is inverse to base64::encode for every message, and the
\* terminating zero hides what a longer text left behind.
THEOREM RecordsDecode == Spec => []RecordDecodes
BY Inductive, InvariantSuffices, PTL
=============================================================================
