----------------------------- MODULE MCRanName ------------------------------
EXTENDS RanName

\* MCC 310; MNC 410, MNC 411, and MNC 11, which has the filler 15.
Mnc(a, b, c) ==
  <<[lo |-> 3, hi |-> 1], [lo |-> 0, hi |-> c], [lo |-> a, hi |-> b]>>

Plmn410 == Mnc(4, 1, 0)
Plmn411 == Mnc(4, 1, 1)
Plmn11 == Mnc(1, 1, 15)

Id(kind, plmn, buf, unused) ==
  [kind |-> kind, plmn |-> plmn, bits |-> [buf |-> buf, unused |-> unused],
   cuup |-> None, du |-> None]

\* Numbers of 20 to 32 bits that differ in one bit, on both sides of
\* an octet boundary.
Gnbs == {Id("gNB", p, buf, 2) : p \in {Plmn410, Plmn411},
                                buf \in {<<181, 198, 4>>, <<181, 198, 8>>, <<181, 199, 4>>}}

CentralAndDistributed ==
  LET g == Id("gNB", Plmn410, <<181, 198, 4>>, 2)
  IN  {[g EXCEPT !.cuup = <<1, 10>>], [g EXCEPT !.cuup = <<2>>],
       [g EXCEPT !.du = <<1, 10>>],
       [Id("gNB", Plmn410, <<25, 0, 0, 1>>, 0) EXCEPT !.du = <<15, 0, 0, 0, 0, 0, 0, 0, 1>>]}

Others ==
  {Id("en_gNB", Plmn410, <<25, 1, 0, 8>>, 3), Id("en_gNB", Plmn410, <<25, 1, 1, 8>>, 3),
   Id("macro", Plmn410, <<0, 0, 16>>, 4), Id("macro", Plmn411, <<0, 0, 16>>, 4),
   Id("macro", Plmn411, <<0, 1, 0>>, 4),
   Id("home", Plmn410, <<0, 0, 0, 16>>, 4), Id("home", Plmn410, <<0, 0, 1, 0>>, 4),
   Id("shortmacro", Plmn11, <<0, 0, 64>>, 6), Id("longmacro", Plmn11, <<0, 0, 8>>, 3),
   Id("ng_longmacro", Plmn11, <<0, 0, 8>>, 3)}

\* Nibbles that take two characters; the name of the first has 37 characters.
PlmnAbove == <<[lo |-> 10, hi |-> 11], [lo |-> 12, hi |-> 13], [lo |-> 14, hi |-> 15]>>

AboveNine ==
  {[Id("gNB", PlmnAbove, <<25, 0, 0, 1>>, 0) EXCEPT !.du = <<15, 0, 0, 0, 0, 0, 0, 0, 1>>],
   Id("gNB", PlmnAbove, <<25, 0, 0, 1>>, 0), Id("en_gNB", PlmnAbove, <<25, 1, 0, 8>>, 3),
   Id("ng_macro", PlmnAbove, <<0, 0, 16>>, 4)}

FittingIdentities == Gnbs \cup CentralAndDistributed \cup Others \cup AboveNine
=============================================================================
