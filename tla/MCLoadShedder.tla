--------------------------- MODULE MCLoadShedder ---------------------------
EXTENDS LoadShedder, TLC

Symmetry == Permutations(Request) \cup Permutations(Conn)
=============================================================================
