\* One thread that can grow to two, three tasks; a second idle heart beat
\* makes a worker think of ending.
CONSTANTS
  MaxTasks = 3
  MinimumThreadCount = 1
  MaximumThreadCount = 2
  IdleShutDownHeartBeats = 1
  SizeLimit = 16
SPECIFICATION FairSpec
INVARIANTS
  TypeOK
  NoTaskStranded
  MinimumStaysActive
  NothingOutlivesPool
PROPERTIES
  NoThreadOverwritten
  TasksHandled
  DestructorReturns
CHECK_DEADLOCK FALSE
