----------------------------- MODULE MCSshServer -----------------------------
EXTENDS SshServer, TLC

Symmetry == Permutations(Conns) \cup Permutations(ChanIds)
=============================================================================
