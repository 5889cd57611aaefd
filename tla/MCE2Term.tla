------------------------------ MODULE MCE2Term ------------------------------
EXTENDS E2TermProperties, TLC
Symmetry == Permutations(Peers) \cup Permutations(Names)
\* One inbound stream is the one that is kept, whatever there is outbound.
OneOrTwoStreams == {s \in [ins : 1..2, outs : 1..2] : s.outs <= s.ins}
TwoStreams == {[ins |-> 2, outs |-> 2]}
=============================================================================
