SPECIFICATION Spec
CONSTANTS
  Sessions = {s1, s2, s3}
  Links = {l1}
  Requests = {p1, p2}
  MaxHash = 2
  MaxEdits = 1
  NoSession = NoSession
  NoLink = NoLink
  s1 = s1
  s2 = s2
  s3 = s3
  l1 = l1
  p1 = p1
  p2 = p2
SYMMETRY Perms
INVARIANTS TypeOK OldLoginsAreGone OneSessionPerLogin LoggedOutStaysOut
PROPERTIES SuspensionWins
CHECK_DEADLOCK FALSE
