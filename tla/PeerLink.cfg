SPECIFICATION FairSpec
CONSTANTS
  a = a
  b = b
  Device = {a, b}
  Addr = {1, 2}
  QueueCap = 2
  MaxChat <- ThreeSent
  MaxDirect <- OneSent
  MaxFaults = 1
  MaxCrashes = 1
INVARIANTS NothingWaitsWhenConnected QueueHoldsTheNewest PathInOrder ReceiptMeansStored
PROPERTIES ChatServiceSpec QueuedReachesPeer
