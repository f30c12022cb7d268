\* Two host devices added once each and one event: an event of a device
\* that arrives before any config lists it.
CONSTANTS
  d1 = d1
  d2 = d2
  Devices <- MCDevices
  o1 = o1
  Observers <- MCNoObservers
  MaxIds = 2
  MaxEvents = 1
SPECIFICATION Spec
CHECK_DEADLOCK FALSE
INVARIANTS
  EarlyEventsKept
