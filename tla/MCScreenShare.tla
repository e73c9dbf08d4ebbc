---------------------------- MODULE MCScreenShare ----------------------------
\* The delivery of one screen share for TLC.  Liveness rules out symmetry.
EXTENDS ScreenShare

=============================================================================
