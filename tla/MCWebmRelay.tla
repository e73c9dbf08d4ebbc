----------------------------- MODULE MCWebmRelay -----------------------------
(* WebmRelay on every stream of at most MaxLen bytes, in messages of at most *)
(* MaxChunk bytes.  The real limits are 1 and 4 MiB of pending bytes.        *)
EXTENDS WebmRelay
=============================================================================
