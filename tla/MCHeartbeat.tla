----------------------------- MODULE MCHeartbeat -----------------------------
\* The heartbeat for TLC, with the constants of ws_util.go in ticks of 2 s.
EXTENDS Heartbeat

=============================================================================
