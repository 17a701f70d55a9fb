SPECIFICATION Spec
CONSTANTS
  Position = {1}
  Stop = {a, b}
  MaxDeals = 3
  MaxChanges = 1
  MaxOrders = 3
  MaxWaiting = 2
  MaxPending = 1
  MaxRestarts = 1
  MaxInterrupts = 1
SYMMETRY Interchangeable
INVARIANTS
  AcknowledgedDealsAreReported
  JournalIsExact
PROPERTIES
  SavedChangesAreReported
