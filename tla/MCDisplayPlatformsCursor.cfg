\* Either platform.  Mesa KMS: two outputs, two hotplug events, up to three
\* pause or resume calls (each may fail at any component call), the other
\* VT's session setting CRTCs while the server is paused, and IPC threads
\* calling configuration() at will.  Android: two HWC hotplug events (a
\* replug with the other of two formats included), two screencast session
\* ids and three create or destroy calls.  run() returns, so the system
\* may stop.
CONSTANTS
  c1 = c1
  c2 = c2
  f1 = f1
  f2 = f2
  Outputs <- MCOutputs
  Formats <- MCFormats
  MaxHotplugs = 2
  AnyPolicy = FALSE
  MaxCalls = 3
  SessionIds = {1, 2}
  MaxScreencastOps = 3
  Screens <- MCScreens
  Requests <- MCRequests
  Orientations <- MCOrientations
  Scales <- MCScales
  RedMasks <- MCRedMasks
SPECIFICATION Spec
CHECK_DEADLOCK FALSE
INVARIANT CursorFollowsMaster
