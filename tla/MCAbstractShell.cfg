\* Two sessions, three surfaces (two in the first session) and one thread
\* calling modify_surface or running the focus observer's callback; the
\* window manager's calls are unbounded.  Every session and surface is
\* eventually closed and freed, so the shell may stop.
CONSTANTS
  a1 = a1
  a2 = a2
  s1 = s1
  s2 = s2
  s3 = s3
  t1 = t1
  NoSession = NoSession
  NoSurface = NoSurface
  Sessions <- MCSessions
  SurfaceOrder <- MCSurfaceOrder
  Owner <- MCOwner
  Threads <- MCThreads
SPECIFICATION Spec
CHECK_DEADLOCK FALSE
INVARIANTS
  TypeOK
  FocusConsistent
PROPERTIES
  NextSessionFindsSurface
