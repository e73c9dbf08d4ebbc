----------------------------- MODULE MCAudioRoom -----------------------------
\* An audio room for TLC: the user of the one publisher has the connection c1.
EXTENDS AudioRoom, TLC

CONSTANTS c1, c2, p1

MCOwner == p1 :> c1

MCMaxUnits == (c1 :> 3) @@ (c2 :> 1)
=============================================================================
