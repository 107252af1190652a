SPECIFICATION FairSpec
CONSTANTS
  t1 = t1
  t2 = t2
  Transfer <- MCTransfer
  Ref <- MCRef
  WebhookRef <- OneRef
  ListRef <- OneRef
  Near <- Itself
  SameSender <- Itself
  Worker = {w1, w2}
  Job = job
  LookBack = 2
  LongOutage = FALSE
  MaxDeliveries = 2
  MaxFaults = 1
INVARIANT BookedAtMostOnce
PROPERTY ImplementsBooking
CHECK_DEADLOCK FALSE
