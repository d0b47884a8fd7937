------------------------------ MODULE MCHttpGit ------------------------------
EXTENDS HttpGit, TLC

Symmetry == Permutations(Conns)
=============================================================================
