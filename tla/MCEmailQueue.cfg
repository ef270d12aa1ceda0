CONSTANTS
  w1 = w1
  w2 = w2
  Rows <- MCRows2
  TypeOf <- MCTypes2
  Workers = {w1, w2}
  MaxAttempts = 2
  BatchSize = 2
  MaxFaults = 1
  NoWorker = NoWorker
  NoRow = NoRow
SPECIFICATION Spec
SYMMETRY Perms
INVARIANTS TypeOK LocalMatchesQueue SentWasAccepted OwnerCopyFresh RetryBudget
PROPERTIES TerminalIsFinal NoResendAfterReceipt ImplementsOutbox
CHECK_DEADLOCK FALSE
