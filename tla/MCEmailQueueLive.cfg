CONSTANTS
  w1 = w1
  w2 = w2
  Rows <- MCRows1
  TypeOf <- MCTypes1
  Workers = {w1, w2}
  MaxAttempts = 2
  BatchSize = 1
  MaxFaults = 3
  NoWorker = NoWorker
  NoRow = NoRow
SPECIFICATION FairSpec
PROPERTIES EventuallySettled
CHECK_DEADLOCK FALSE
