------------------------------- MODULE RanName -------------------------------
(***************************************************************************)
(* How the RAN name of an E2 node is made of its GlobalE2node_ID           *)
(* (buildRanName), and what sctpMap does under these names.  The name is   *)
(* the only thing by which the RIC can address an E2 node: two nodes with  *)
(* one name take each other's registration.                                *)
(*                                                                         *)
(* Symbols are decimal or hexadecimal digits or "_"; a number (gNB-CU-UP-  *)
(* ID, gNB-DU-ID) is its hexadecimal numeral.  A CHOICE without an         *)
(* alternative does not decode and is left out.                            *)
(***************************************************************************)
EXTENDS Naturals, Sequences, FiniteSets

CONSTANTS
  Identities, \* GlobalE2node_IDs of the E2 nodes
  None,       \* an optional IE that is absent
  MaxNodes    \* bound: E2 nodes that are connected at a time

Digits == 0..15
Separator == 16  \* "_"

Nibbles == [lo : Digits, hi : Digits]
Plmns == [1..3 -> Nibbles]
BitStrings == [buf : Seq(0..255), unused : 0..7]
Numerals == Seq(Digits) \cup {None}

Kinds == {"gNB", "en_gNB", "ng_macro", "ng_shortmacro", "ng_longmacro",
          "macro", "home", "shortmacro", "longmacro"}
Identity == [kind : Kinds, plmn : Plmns, bits : BitStrings, cuup : Numerals, du : Numerals]

-----------------------------------------------------------------------------
(* translatePlmnId.                                                        *)

PrefixSize ==
  [gnb_ |-> 4, gnbc_ |-> 5, gnbd_ |-> 5, en_gnb_ |-> 7, ng_enB_macro_ |-> 13,
   ng_enB_shortmacro_ |-> 18, ng_enB_longmacro_ |-> 17, enB_macro_ |-> 10,
   enB_home_ |-> 9, enB_shortmacro_ |-> 15, enB_longmacro_ |-> 14]

\* What snprintf has room for, the terminating zero left out.
PlmnRoom == 19

\* "%1d" is a width of one at least: a nibble above nine takes two characters.
Decimal(nibble) == IF nibble < 10 THEN <<nibble>> ELSE <<1, nibble - 10>>

\* MCC and MNC as printed; the first nibble of the MNC is 15 if it has two digits.
PlmnDigits(p) ==
  LET mcc == Decimal(p[1].lo) \o Decimal(p[1].hi) \o Decimal(p[2].lo)
      mnc == Decimal(IF p[2].hi # 15 THEN p[2].hi ELSE 0) \o Decimal(p[3].lo) \o Decimal(p[3].hi)
  IN  mcc \o <<Separator>> \o mnc

\* The text s where there is room for n characters.
CutTo(s, n) == SubSeq(s, 1, IF n < Len(s) THEN n ELSE Len(s))

\* Mutant: a buffer of twelve characters.
ShorterText(p, prefix) == CutTo(PlmnDigits(p), 11 - PrefixSize[prefix])

translatePlmnId(p, prefix) == CutTo(PlmnDigits(p), PlmnRoom - PrefixSize[prefix])

-----------------------------------------------------------------------------
(* translateBitStringToChar.                                               *)

\* 2 ^ n.
Power(n) == <<1, 2, 4, 8, 16, 32, 64, 128, 256>>[n + 1]

\* Mutant: the bits of the octet before are not shifted in.
ShiftedAlone(bits, i) == bits.buf[i] \div Power(bits.unused)

\* An octet of the bit string after its unused trailing bits became leading
\* zeros; as computed it has bits of the octet before above the low eight.
Shifted(bits, i) ==
  LET before == IF i = 1 THEN 0 ELSE bits.buf[i - 1]
  IN  before * Power(8 - bits.unused) + bits.buf[i] \div Power(bits.unused)

\* Two digits for each octet.
BitDigits(bits) ==
  [i \in 1..Len(bits.buf) |-> <<(Shifted(bits, i) \div 16) % 16, Shifted(bits, i) % 16>>]

-----------------------------------------------------------------------------
(* buildRanName.                                                           *)

\* A gNB that has both a CU-UP and a DU is taken for one that has neither.
Combined(id) == (id.cuup = None) <=> (id.du = None)

Prefix(id) ==
  CASE id.kind = "gNB" -> IF Combined(id) THEN "gnb_" ELSE IF id.cuup # None THEN "gnbc_" ELSE "gnbd_"
    [] id.kind = "en_gNB" -> "en_gnb_"
    [] id.kind = "ng_macro" -> "ng_enB_macro_"
    [] id.kind = "ng_shortmacro" -> "ng_enB_shortmacro_"
    [] id.kind = "ng_longmacro" -> "ng_enB_longmacro_"
    [] id.kind = "macro" -> "enB_macro_"
    [] id.kind = "home" -> "enB_home_"
    [] id.kind = "shortmacro" -> "enB_shortmacro_"
    [] id.kind = "longmacro" -> "enB_longmacro_"

\* Mutant: the separator is written twice.
LongSuffix(id) ==
  IF id.kind # "gNB" \/ Combined(id) THEN <<>>
  ELSE <<Separator, Separator>> \o (IF id.cuup # None THEN id.cuup ELSE id.du)

Suffix(id) ==
  IF id.kind # "gNB" \/ Combined(id) THEN <<>>
  ELSE <<Separator>> \o (IF id.cuup # None THEN id.cuup ELSE id.du)

\* The name, in its parts: <prefix><plmn>_<bits><suffix>.  Its prefix is what comes
\* before the first digit, and tells whether there is a suffix; so the last "_", or
\* the last but one, ends the plmn, and two texts are equal when all their parts are.
buildRanName(id) ==
  [prefix |-> Prefix(id), plmn |-> translatePlmnId(id.plmn, Prefix(id)),
   bits |-> BitDigits(id.bits), suffix |-> Suffix(id)]

\* Sizes of the fields a name is copied to, with room for its terminating zero.
MAX_ENODB_NAME_SIZE == 64
RMR_MAX_MEID == 32

NameSize(name) ==
  PrefixSize[name.prefix] + Len(name.plmn) + 1 + 2 * Len(name.bits) + Len(name.suffix)

-----------------------------------------------------------------------------
(* The names in sctpMap.                                                   *)

VARIABLES
  connected, \* the identities of the E2 nodes that were set up
  sctpMap    \* RAN name -> the identity of the E2 node its object is of

vars == <<connected, sctpMap>>

Init == connected = {} /\ sctpMap = [x \in {} |-> None]

\* collectSetupRequestData.
Setup(id) ==
  /\ id \notin connected
  /\ Cardinality(connected) < MaxNodes
  /\ connected' = connected \cup {id}
  /\ sctpMap' = [x \in DOMAIN sctpMap \cup {buildRanName(id)} |->
                   IF x = buildRanName(id) THEN id ELSE sctpMap[x]]

\* Mutant: the name of another E2 node with the same prefix and PLMN goes too.
TeardownOfPlmn(id) ==
  /\ id \in connected
  /\ connected' = connected \ {id}
  /\ sctpMap' = [x \in {y \in DOMAIN sctpMap : y.plmn # buildRanName(id).plmn} |-> sctpMap[x]]

\* cleanHashEntry.
Teardown(id) ==
  /\ id \in connected
  /\ connected' = connected \ {id}
  /\ sctpMap' = [x \in DOMAIN sctpMap \ {buildRanName(id)} |-> sctpMap[x]]

Next == \E id \in Identities : Setup(id) \/ Teardown(id)

Spec == Init /\ [][Next]_vars

-----------------------------------------------------------------------------
(* Properties.                                                             *)

\* What a name has to tell apart.
Station(id) ==
  [kind |-> id.kind, plmn |-> id.plmn, bits |-> id.bits,
   cuup |-> IF id.kind = "gNB" /\ ~ Combined(id) THEN id.cuup ELSE None,
   du |-> IF id.kind = "gNB" /\ ~ Combined(id) THEN id.du ELSE None]

\* Identities as they are decoded: numbers of up to 32 and 36 bits, with zeros in
\* the unused bits; one E2 connection of each E2 node.
Decoded(id) ==
  /\ id \in Identity
  /\ Len(id.bits.buf) \in 1..4
  /\ id.bits.buf[Len(id.bits.buf)] % Power(id.bits.unused) = 0
  /\ \A n \in {id.cuup, id.du} \ {None} : Len(n) <= 9

ASSUME IdentitiesAssumption ==
  /\ \A id \in Identities : Decoded(id)
  /\ \A a, b \in Identities : Station(a) = Station(b) => a = b
ASSUME NoneAssumption == None \notin Seq(Digits)

\* The type of the state: the names of the map are those of connected nodes.
TypeOK ==
  /\ connected \subseteq Identities
  /\ DOMAIN sctpMap = {buildRanName(id) : id \in connected}

\* The RIC reaches each E2 node under its own name: no other node, of the same
\* or of another kind, PLMN or number, has registered under it or removed it
\* (buildRanName, collectSetupRequestData, cleanHashEntry).
RoutedToOwner ==
  \A id \in connected : buildRanName(id) \in DOMAIN sctpMap /\ sctpMap[buildRanName(id)] = id

\* The digits after the PLMN are the value of the bit string, whatever number
\* of its trailing bits is unused (translateBitStringToChar).
Value(f) == LET at[i \in 0..Len(f)] == IF i = 0 THEN 0 ELSE at[i - 1] * 256 + f[i] IN at[Len(f)]

DigitsAreValue ==
  \A x \in DOMAIN sctpMap :
    Value([i \in 1..Len(x.bits) |-> x.bits[i][1] * 16 + x.bits[i][2]])
      = Value(sctpMap[x].bits.buf) \div Power(sctpMap[x].bits.unused)

\* MCC and MNC are decimal digits, with the filler in the place it has in the MNC.
DecimalPlmn(p) ==
  /\ p[2].hi \in 0..9 \cup {15}
  /\ {p[1].lo, p[1].hi, p[2].lo, p[3].lo, p[3].hi} \subseteq 0..9

\* A name and its terminating zero fit in enodbName, and in the meid of an RMR
\* message, for which buildRanName and its helpers do not look at sizes.  Only of
\* a CU-UP or DU with a PLMN that is not decimal a name can be too long for the meid.
NameFitsMeid ==
  \A x \in DOMAIN sctpMap :
    /\ NameSize(x) < MAX_ENODB_NAME_SIZE
    /\ x.suffix = <<>> \/ DecimalPlmn(sctpMap[x].plmn) => NameSize(x) < RMR_MAX_MEID
=============================================================================
