SPECIFICATION Spec
CONSTANTS
  QueueCap = 2
  MaxEvents = 5
INVARIANTS
  EventsInOrder
PROPERTIES
  MonitorIsHonest
  ClosesUnaided
CHECK_DEADLOCK FALSE
