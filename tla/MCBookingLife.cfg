CONSTANTS
  p1 = p1  p2 = p2  k1 = k1  k2 = k2  b1 = b1  b2 = b2
  Bookings = {b1}
  Vehicles <- OneVehicle
  Slots <- OneSlot
  Keys = {k1}
  Terms = {}
  Requests = {p1, p2}
  Ops = {"create", "update", "transition", "setContract", "setCargosStatus", "markContractSigned", "generateContract", "remove"}
  Values = {"KEEP", "CANCELED", "QUOTED", "CONFIRMED", "CONTRACT_SIGNED", "READY_FOR_HANDOVER", "IN_RENT", "CLOSED", "SIGNED", "PENDING", "SENT", "PICKUP_KM", "RETURN_KM", "NO_KM"}
  NewValues = {"GENERATE", "NOT_REQUIRED"}
  NoBooking = NoBooking  NoVehicle = NoVehicle  NoSlot = NoSlot  NoKey = NoKey  NoTerms = NoTerms
SPECIFICATION Spec
SYMMETRY PermsRequests
INVARIANTS TypeOK
PROPERTIES TransitionsAreGuarded
CHECK_DEADLOCK FALSE
