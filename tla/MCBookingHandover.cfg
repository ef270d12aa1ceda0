CONSTANTS
  p1 = p1  p2 = p2  k1 = k1  k2 = k2  b1 = b1  b2 = b2
  Bookings = {b1}
  Vehicles <- OneVehicle
  Slots <- OneSlot
  Keys = {k1}
  Terms = {}
  Requests = {p1}
  Ops = {"create", "transition", "setContract", "setCargosStatus"}
  Values = {"KEEP", "READY_FOR_HANDOVER", "NOT_READY", "SIGNED", "SENT"}
  NewValues = {"NOT_READY", "NOT_REQUIRED"}
  NoBooking = NoBooking  NoVehicle = NoVehicle  NoSlot = NoSlot  NoKey = NoKey  NoTerms = NoTerms
SPECIFICATION Spec
PROPERTY HandoverNeedsContract
CHECK_DEADLOCK FALSE
