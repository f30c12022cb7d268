\* Two host devices (two ids: both plugged, or one unplugged and plugged
\* again), two events, and one host observer added and removed.  No
\* symmetry: the run checks liveness properties.  The host's main loop,
\* the host connection and the nested input thread are weakly fair; the
\* system rests once the bounded host calls run out.
CONSTANTS
  d1 = d1
  d2 = d2
  o1 = o1
  Devices <- MCDevices
  Observers <- MCOneObserver
  MaxIds = 2
  MaxEvents = 2
SPECIFICATION Spec
CHECK_DEADLOCK FALSE
INVARIANTS
  TypeOK
  DeliveredInOrder
  RegistryFollowsHost
  HandlesLagDevices
  ObserversSeeHandles
  StatusFollowsHandles
PROPERTIES
  RegistryConverges
  DevicesReachObservers
