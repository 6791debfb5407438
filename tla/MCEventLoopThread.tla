------------------------- MODULE MCEventLoopThread -------------------------
EXTENDS EventLoopThread, TLC
CONSTANTS p1, p2, p3
Symmetry == Permutations({p1, p2, p3})
=============================================================================
