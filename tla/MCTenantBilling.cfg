SPECIFICATION Spec
CONSTANTS
  Subs = {b1, b2}
  Requests = {p1, p2}
  Statuses = {"active", "past_due", "canceled"}
  MaxVersion = 3
  MaxAttempts = 2
  MaxChanges = 3
  NoSub = NoSub
  b1 = b1
  b2 = b2
  p1 = p1
  p2 = p2
INVARIANTS TypeOK ProcessedIsReflected Converged
PROPERTIES NewerReplacesOlder
SYMMETRY Perms
CHECK_DEADLOCK FALSE
