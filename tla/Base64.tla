------------------------------- MODULE Base64 -------------------------------
(***************************************************************************)
(* The base64 text of a message (base64::encode, base64::decode) and the   *)
(* trace record that buildJsonMessage makes of it, again and again in one  *)
(* and the same buffer.                                                    *)
(*                                                                         *)
(* A symbol of a text is its index in base64_table; other symbols are "=", *)
(* the terminating zero and a line break.                                  *)
(***************************************************************************)
EXTENDS Naturals, Sequences, SequencesExt, FiniteSets

CONSTANTS
  Octets,    \* the octets of messages
  MaxLength  \* the size of the longest message, 128 * 1024

ASSUME OctetsAssumption == Octets \subseteq 0..255
ASSUME MaxLengthAssumption == MaxLength \in Nat /\ MaxLength >= 5

Alphabet == 0..63
Padding == 64
Zero == 65
Break == 66

Messages == UNION {[1..n -> Octets] : n \in 0..MaxLength}

-----------------------------------------------------------------------------
(* base64::encode.                                                         *)

\* Symbol k of the text of src: groups of three octets become four symbols.
Symbol(src, k) ==
  LET first == ((k - 1) \div 4) * 3 + 1
      octet(i) == IF i <= Len(src) THEN src[i] ELSE 0
  IN  CASE (k - 1) % 4 = 0 -> octet(first) \div 4
        [] (k - 1) % 4 = 1 -> (octet(first) % 4) * 16 + octet(first + 1) \div 16
        [] (k - 1) % 4 = 2 -> IF first + 1 > Len(src) THEN Padding
                              ELSE (octet(first + 1) % 16) * 4 + octet(first + 2) \div 64
        [] (k - 1) % 4 = 3 -> IF first + 2 > Len(src) THEN Padding ELSE octet(first + 2) % 64

Text(src) == [k \in 1..(4 * ((Len(src) + 2) \div 3)) |-> Symbol(src, k)]

\* The lengths it accepts.
Accepts(srcLen, dstLen) == srcLen > 0 /\ dstLen > 0 /\ dstLen >= (srcLen * 4) \div 3

\* Mutant: no terminating zero.
WriteText(dst, src) ==
  [i \in DOMAIN dst |-> IF i <= Len(Text(src)) THEN Text(src)[i] ELSE dst[i]]

\* What dst holds afterwards.
WriteTextAndZero(dst, src) ==
  [i \in DOMAIN dst |-> IF i <= Len(Text(src)) THEN Text(src)[i]
                        ELSE IF i = Len(Text(src)) + 1 THEN Zero ELSE dst[i]]

encode(src, dst, dstLen) ==
  IF Accepts(Len(src), dstLen)
  THEN [result |-> "ok", dst |-> WriteTextAndZero(dst, src), dstLen |-> Len(Text(src))]
  ELSE [result |-> "fault", dst |-> dst, dstLen |-> dstLen]

-----------------------------------------------------------------------------
(* base64::decode.                                                         *)

\* The three octets of a block of four symbols; the padding counts as zero.
Block(b) ==
  LET value(k) == IF b[k] = Padding THEN 0 ELSE b[k]
  IN  <<(value(1) * 4 + value(2) \div 16) % 256,
        (value(2) * 16 + value(3) \div 4) % 256,
        (value(3) * 64 + value(4)) % 256>>

\* What is not in the alphabet is skipped.
Known(src) ==
  LET kept == {i \in 1..Len(src) : src[i] \in Alphabet \cup {Padding}}
      place(n) == CHOOSE i \in kept : Cardinality(kept \cap 1..i) = n
  IN  [n \in 1..Cardinality(kept) |-> src[place(n)]]

\* The first padded block is the last one.
LastBlock(symbols) ==
  LET blocks == 1..(Len(symbols) \div 4)
      padded == {k \in blocks : \E i \in 1..4 : symbols[4 * (k - 1) + i] = Padding}
  IN  IF padded = {} THEN Len(symbols) \div 4 ELSE CHOOSE k \in padded : \A l \in padded : k <= l

\* The padding of the last block; more than two symbols of it are a fault.
Pad(symbols) ==
  Cardinality({i \in 1..4 : symbols[4 * LastBlock(symbols) - 4 + i] = Padding})

\* The octets of all blocks, without those that only the padding stands for.
Decoded(symbols) ==
  [i \in 1..(3 * LastBlock(symbols) - Pad(symbols)) |->
     LET block == (i - 1) \div 3 + 1
     IN  Block(SubSeq(symbols, 4 * block - 3, 4 * block))[((i - 1) % 3) + 1]]

decode(src, dstLen) ==
  LET symbols == Known(src)
  IN  IF \/ dstLen = 0 \/ dstLen < (Len(src) \div 4) * 3
         \/ symbols = <<>> \/ Len(symbols) % 4 # 0
         \/ Pad(symbols) > 2
      THEN [result |-> "fault", dst |-> <<>>]
      ELSE [result |-> "ok", dst |-> Decoded(symbols)]

-----------------------------------------------------------------------------
(* buildJsonMessage.                                                       *)

VARIABLES
  base64Data, \* its buffer
  message,    \* the message that was traced last
  record      \* of the record: base64Length and asnBase64

vars == <<base64Data, message, record>>

\* What %s prints of a buffer.
Printed(dst) ==
  LET zero == CHOOSE i \in DOMAIN dst : dst[i] = Zero /\ \A j \in 1..(i - 1) : dst[j] # Zero
  IN  IF \E i \in DOMAIN dst : dst[i] = Zero THEN SubSeq(dst, 1, zero - 1) ELSE dst

\* The size of the buffer, which encode gets.
Room == 2 * MaxLength

\* The members of a new ReportingMessages_t are zero.
Blank == [i \in 1..Room |-> Zero]

Init ==
  /\ base64Data = Blank
  /\ message = <<>>
  /\ record = [length |-> 0, text |-> <<>>]

\* The next event of the listener thread has a ReportingMessages_t of its own.
NewMessages ==
  /\ base64Data' = Blank
  /\ message' = <<>>
  /\ record' = [length |-> 0, text |-> <<>>]

\* The messages of one event are traced in one buffer.  The result of encode is
\* not looked at; a message without octets, which it does not take, comes as
\* the only one of its event.
buildJsonMessage(m) ==
  LET encoded == encode(m, base64Data, Room)
  IN  /\ m = <<>> => base64Data = Blank
      /\ message' = m
      /\ base64Data' = encoded.dst
      /\ record' = [length |-> encoded.dstLen, text |-> Printed(encoded.dst)]

Next == NewMessages \/ \E m \in Messages : buildJsonMessage(m)

Spec == Init /\ [][Next]_vars

-----------------------------------------------------------------------------
(* Properties.                                                             *)

\* The record of a message decodes to the message, also when it is broken into
\* two lines, whatever messages were traced in the buffer before: encode and decode
\* are inverse, and nothing of a longer text is left behind the new one.
RecordDecodes ==
  message # <<>> =>
    /\ record.length = Len(record.text)
    /\ \A k \in 1..Len(record.text) :
         decode(InsertAt(record.text, k, Break), 2 * MaxLength + 3) = [result |-> "ok", dst |-> message]
=============================================================================
