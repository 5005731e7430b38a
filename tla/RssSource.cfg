CONSTANTS
  Consumers = {c1, c2}
  Publishers = {u1}
  MaxMsgs = 3
SPECIFICATION FairSpec
INVARIANTS TypeOK NoUseAfterFree RefCount DeliveryInOrder
PROPERTIES ImplementsBroadcast QueuedIsDelivered
CHECK_DEADLOCK FALSE
