\* Two threads, no tasks: one of them ends its idle time during shutdown.
CONSTANTS
  MaxTasks = 0
  MinimumThreadCount = 2
  MaximumThreadCount = 2
  IdleShutDownHeartBeats = 1
  SizeLimit = 16
SPECIFICATION Spec
INVARIANTS
  ThreadFinishedBeforeDestruction
CHECK_DEADLOCK FALSE
