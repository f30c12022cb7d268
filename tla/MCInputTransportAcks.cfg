\* Refinement of FinishAcks and liveness of acknowledgements: one device,
\* one layout, up to three samples, so that a coalesced event of three can
\* fail mid-chain and be retried, and a publisher that may close.  No
\* symmetry (unsound with temporal properties).
CONSTANTS
  d1 = d1
  d2 = d2
  p1 = p1
  p2 = p2
  Devices <- MCOneDevice
  Layouts <- MCOneLayout
  KeyTypes <- MCOneKey
  MotionActions <- MCMotionActions
  XOf <- MCXFixed
  mResampleTouch = TRUE
  PointerDevices <- MCDevices
  FingerIds <- MCFingers
  RESAMPLE_MIN_DELTA = 2
  RESAMPLE_MAX_PREDICTION = 2
  MaxSeq = 3
  MaxTime = 1
  RESAMPLE_LATENCY = 1
  MaxFrameTime = 2
  Capacity = 1
  MAX_POINTERS = 2
  FactoryMayFail = FALSE
  PeerMayClose = TRUE
SPECIFICATION Spec
VIEW StateView
PROPERTIES
  FinishAcksRefined
  AllFinished
