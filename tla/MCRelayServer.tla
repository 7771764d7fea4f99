--------------------------- MODULE MCRelayServer ---------------------------
EXTENDS RelayServer, TLC

Symmetry == Permutations(Hosts) \cup Permutations(Viewers) \cup Permutations(Names)
=============================================================================
