\* More items than slots and as many workers as slots: indices wrap around
\* the ring and workers finish out of order.
CONSTANTS
  Count = 4
  Capacity = 3
  WorkerCount = 3
SPECIFICATION Spec
INVARIANTS
  RingInv
  NothingLost
  PayloadBound
PROPERTIES
  ChannelSpec
  CallsReturn
