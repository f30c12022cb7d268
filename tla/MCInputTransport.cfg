CONSTANTS
  d1 = d1
  d2 = d2
  p1 = p1
  p2 = p2
  Devices <- MCDevices
  Layouts <- MCLayouts
  KeyTypes <- MCOneKey
  MotionActions <- MCMotionActions
  XOf <- MCXFixed
  mResampleTouch = TRUE
  PointerDevices <- MCDevices
  FingerIds <- MCFingers
  RESAMPLE_MIN_DELTA = 2
  RESAMPLE_MAX_PREDICTION = 2
  MaxSeq = 3
  MaxTime = 1
  RESAMPLE_LATENCY = 1
  MaxFrameTime = 2
  Capacity = 1
  MAX_POINTERS = 2
  FactoryMayFail = FALSE
  PeerMayClose = TRUE
SPECIFICATION Spec
SYMMETRY DeviceSymmetry
VIEW StateView
INVARIANTS
  TypeOK
  AcksConserved
  DeviceOrder
