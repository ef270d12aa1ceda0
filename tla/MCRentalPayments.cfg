SPECIFICATION Spec
CONSTANTS
  Deposits = {d1, d2}
  Extras = {x1}
  Intents <- TwoIntents
  Requests = {p1, p2}
  Amount = 2
  MaxAttempts = 2
  MaxEvents = 1
  MaxCrashes = 1
  NoRow = NoRow
  NoIntent = NoIntent
CONSTRAINTS OneKind TwoDeposits
INVARIANTS TypeOK OneIntentPerRow RowsTellTheTruth
PROPERTIES SettledStaysSettled MoneyIsRecorded ImplementsLedger
CHECK_DEADLOCK FALSE
