---------------------------- MODULE MCRmrBuffers ----------------------------
EXTENDS RmrBuffers, TLC

\* Neither buffers nor contents are told apart.
Symmetry == Permutations(Buffers) \cup Permutations(Contents)
=============================================================================
