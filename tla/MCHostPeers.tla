---------------------------- MODULE MCHostPeers ----------------------------
EXTENDS HostPeers, TLC

Symmetry == Permutations(Devices)
=============================================================================
