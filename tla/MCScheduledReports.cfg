SPECIFICATION FairSpec
CONSTANTS
  r1 = r1
  r2 = r2
  Schedulers = {p1, p2}
  Recipients = {r1, r2}
  Served = {r1}
  Lists <- SmallLists
  Schedules <- SmallSchedules
  Minute = 1
  CatchUp = 1
  MaxTime = 2
  MaxChanges = 2
INVARIANTS TypeOK CursorFitsSettings EverySlotHasOneFate QueuedForEveryRecipient
PROPERTIES NothingSentAcrossASuspension CatchesUp
CHECK_DEADLOCK FALSE
