CONSTANTS
  p1 = p1  p2 = p2  k1 = k1  k2 = k2  b1 = b1  b2 = b2
  Bookings = {b1}
  Vehicles <- OneVehicle
  Slots <- TwoSlots
  Keys = {k1}
  Terms = {t1, t2}
  Requests = {p1, p2}
  Ops = {"create", "update", "transition", "updatePricing", "setContract"}
  Values = {"KEEP", "TOTAL", "SIGNED", "READY_FOR_HANDOVER", "IN_RENT", "CLOSED"}
  NewValues = {"NOT_READY", "NOT_REQUIRED", "PICKUP_KM", "RETURN_KM"}
  NoBooking = NoBooking  NoVehicle = NoVehicle  NoSlot = NoSlot  NoKey = NoKey  NoTerms = NoTerms
SPECIFICATION Spec
SYMMETRY PermsRequests
PROPERTIES PricedAsBooked
CHECK_DEADLOCK FALSE
