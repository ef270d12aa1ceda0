CONSTANTS
  p1 = p1  p2 = p2  k1 = k1  k2 = k2  b1 = b1  b2 = b2
  Bookings = {b1, b2}
  Vehicles <- TwoVehicles
  Slots <- OneSlot
  Keys = {k1, k2}
  Terms = {}
  Requests = {p1, p2}
  Ops = {"create", "update", "transition"}
  Values = {"KEEP", "CANCELED"}
  NewValues = {"NOT_READY", "NOT_REQUIRED"}
  NoBooking = NoBooking  NoVehicle = NoVehicle  NoSlot = NoSlot  NoKey = NoKey  NoTerms = NoTerms
SPECIFICATION FairSpec
PROPERTIES RequestsEnd
CHECK_DEADLOCK FALSE
