--------------------------- MODULE MCLocalServer ---------------------------
\* LocalServer for TLC: clients are interchangeable.
EXTENDS LocalServer, TLC

Symmetry == Permutations(Conns)
=============================================================================
