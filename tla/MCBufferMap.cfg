\* Two threads, two buffers, two sends; the sink may throw on add and may
\* go away.  The map is a passive object: once its callers stop calling
\* it (here, once the ids and sends are used up) it rests, so a state with
\* nothing left to do is not a deadlock.
CONSTANTS
  t1 = t1
  t2 = t2
  i1 = i1
  i2 = i2
  NoBuffer = NoBuffer
  Threads <- MCThreads
  Ids <- MCIds
  MaxSends = 2
  SinkMayThrow = TRUE
  SinkMayExpire = TRUE
SPECIFICATION Spec
SYMMETRY MapSymmetry
INVARIANTS
  TypeOK
  SinkLifecycle
CHECK_DEADLOCK FALSE
