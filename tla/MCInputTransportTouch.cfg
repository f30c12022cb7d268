\* Touch resampling: one touchscreen, one- and two-finger layouts, DOWN,
\* MOVE, POINTER_DOWN/UP and UP, a new X position in every event, frames
\* up to two time units past the clock so that extrapolation runs ahead.
CONSTANTS
  d1 = d1
  d2 = d2
  p1 = p1
  p2 = p2
  Devices <- MCOneDevice
  Layouts <- MCLayouts
  KeyTypes <- MCNoKeys
  MotionActions <- MCTouchActions
  XOf <- MCXBySeq
  mResampleTouch = TRUE
  PointerDevices <- MCOneDevice
  FingerIds <- MCFingers
  RESAMPLE_MIN_DELTA = 2
  RESAMPLE_MAX_PREDICTION = 2
  MaxSeq = 3
  MaxTime = 2
  RESAMPLE_LATENCY = 1
  MaxFrameTime = 4
  Capacity = 1
  MAX_POINTERS = 2
  FactoryMayFail = FALSE
  PeerMayClose = FALSE
SPECIFICATION Spec
VIEW TouchView
INVARIANTS
  NoBackwardJump
  ResampleNotBeforeSamples
  ResampledCoordsFinite
