----------------------------- MODULE MCDatapath -----------------------------
\* The constants are given by MCDatapath.cfg; sessions are interchangeable.
EXTENDS Datapath, TLC

Symmetry == Permutations(Sessions)
=============================================================================
