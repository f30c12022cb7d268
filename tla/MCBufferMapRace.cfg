\* send_buffer racing remove_buffer: two threads, one buffer, a sink that
\* never throws and never goes away.
CONSTANTS
  t1 = t1
  t2 = t2
  i1 = i1
  i2 = i2
  NoBuffer = NoBuffer
  Threads <- MCThreads
  Ids <- MCIds
  MaxSends = 1
  SinkMayThrow = FALSE
  SinkMayExpire = FALSE
SPECIFICATION Spec
INVARIANTS
  UpdateOnlyAnnounced
CHECK_DEADLOCK FALSE
