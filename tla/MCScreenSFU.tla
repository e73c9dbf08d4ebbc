----------------------------- MODULE MCScreenSFU -----------------------------
\* The screen SFU for TLC.
EXTENDS ScreenSFU, TLC

\* The PeerConnections are interchangeable, and so are the viewers.
Symmetry == Permutations(Pcs) \cup Permutations(Viewers)

=============================================================================
