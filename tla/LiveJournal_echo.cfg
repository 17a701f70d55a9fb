SPECIFICATION Spec
CONSTANTS
  Position = {1}
  Stop = {"a"}
  MaxDeals = 3
  MaxChanges = 0
  MaxOrders = 3
  MaxWaiting = 1
  MaxPending = 2
  MaxRestarts = 0
  MaxInterrupts = 0
INVARIANT
  NoSecondReduction
