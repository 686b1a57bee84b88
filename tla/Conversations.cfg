SPECIFICATION PagesSpec
CONSTANTS
  MaxMessages = 3
  PageSize = 1
  MaxTexts = 2
  MaxLoads = 2
  MaxTurns = 1
  MaxChanges = 1
  MaxTries = 2
  Ids = {1, 2, 3}
  Prices = {1, 2}
  Limit = 2
  Batch = 2
  MaxEvents = 2
  AckBatch = 1
  MaxArrived = 2
  MaxAcks = 2
  MaxReadings = 1
INVARIANTS MessagesOnce HistoryComplete ReceiptsFollowSight RefusedIsFinal FoundAll
PROPERTIES NoContactAfterBlock
CHECK_DEADLOCK FALSE
