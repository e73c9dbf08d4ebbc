\* Streams of up to 22 bytes, with up to five Clusters.  A publisher may stop
\* sending, and the stream ends at MaxLen: deadlock is not an error.
SPECIFICATION Spec
CONSTANTS
  MaxLen = 22
  MaxChunk = 22
  MaxPending = 9
INVARIANTS
  TypeOK
  ChunkingIndependent
  NothingWithheld
  PendingBounded
  LateJoinerSeamless
  LateJoinerGetsWholeCluster
CHECK_DEADLOCK FALSE
