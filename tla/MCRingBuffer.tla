---------------------------- MODULE MCRingBuffer ----------------------------
\* RingBuffer for TLC.  The run checks liveness too, so no symmetry is declared.
EXTENDS RingBuffer
=============================================================================
