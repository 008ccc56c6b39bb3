SPECIFICATION FairSpec
CONSTANTS
  Requests = {r1, r2}
  Retention = 1
  MaxDay = 2
  MaxRequests = 2
  Faults = {"fail", "cancel", "kill", "stop"}
INVARIANTS TypeOK NothingCountedTwice NothingLostUnnoticed
PROPERTIES RetentionKeeps OldRowsGo BufferIsFlushed
