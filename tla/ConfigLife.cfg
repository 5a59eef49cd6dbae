SPECIFICATION FairSpec
CONSTANTS
  main = main
  program = program
  c1 = c1
  c2 = c2
  r1 = r1
  r2 = r2
  None = None
  Client = {main, program}
  Resource = {r1, r2}
  Preinstalled = {r1, r2}
  MaxChanges = 1
  MaxFails = 1
  Server = main
  Config = {c1, c2}
  Path <- Paths
  Supplied <- LoadFn
  Watch <- WatchOf
  Attached <- AttachedOf
  Strategic <- StrategicOf
  Flag = {TRUE, FALSE}
CHECK_DEADLOCK FALSE
INVARIANTS TypeOK OneLoop ExitsClean
PROPERTIES KeepsInformers NeverOlder EveryConfigStarts StopEndsInTime
