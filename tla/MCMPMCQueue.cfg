SPECIFICATION Spec
CONSTANTS
  Producers = {p1, p2}
  Consumers = {c1, c2}
  Observers = {o1}
  Items = {a, b}
  NoItem = none
  Capacity = 2
  MaxPush = 3
SYMMETRY Symmetry
INVARIANTS SlotExclusive PopReturnsPushed ApproxWithinCapacity IInv
PROPERTIES FailuresJustified ImplementsTicketQueue
CHECK_DEADLOCK FALSE
