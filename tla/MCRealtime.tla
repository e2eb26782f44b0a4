----------------------------- MODULE MCRealtime -----------------------------
EXTENDS Realtime, TLC
CONSTANTS a1, a2, s1, s2

OneActor == [s \in Sessions |-> a1]

Symmetry == Permutations(Conns) \cup Permutations(Sessions)
=============================================================================
