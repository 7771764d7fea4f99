----------------------- MODULE MCHardwareController -----------------------
EXTENDS HardwareController, TLC

Symmetry == Permutations(Ports)
=============================================================================
